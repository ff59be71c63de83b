----------------------------- MODULE RulesProofs -----------------------------
(* Theorems about what moves do (Effects), what is told of it (Spectators) *)
(* and who moves first (TurnOrder): that the variables keep their types,   *)
(* through folds over lists of effects; that who faints is told to faint   *)
(* once, which needs what the calls on the stack may still rely on when    *)
(* those before them have returned (FaintInv); that what two parts of the  *)
(* code keep of a battle agrees (CallsInv, MemInv, BooksInv); that a       *)
(* spectator sees what is there (WatchInv); and that turns are sorted,     *)
(* whatever the coins say (SortInv).                                       *)
EXTENDS Spectators, TurnOrder, SequenceTheorems, FunctionTheorems, FiniteSetTheorems,
        NaturalsInduction, WellFoundedInduction, TLAPS

-----------------------------------------------------------------------------
(* Folds.  FoldLeft(Op, base, seq) is iter[DOMAIN seq], for a function     *)
(* iter of the sets of indices that takes the greatest one last: so what   *)
(* holds of base and is kept by Op holds of it.                            *)

(* A set of natural numbers has a least one.                               *)
LEMMA Least ==
  ASSUME NEW T, T \subseteq Nat, T # {}
  PROVE  \E x \in T : \A y \in T : x <= y
<1>1. PICK x \in T : \A y \in T : <<y, x>> \notin OpToRel(<, Nat)
  BY NatLessThanWellFounded, WFMin
<1>2. ASSUME NEW y \in T PROVE x <= y
  <2>1. x \in Nat /\ y \in Nat /\ ~(y < x)
    BY <1>1 DEF OpToRel
  <2> QED
    BY <2>1
<1> QED
  BY <1>2

LEMMA MaxOf ==
  ASSUME NEW n \in Nat, NEW s \in SUBSET (1 .. n), s # {}
  PROVE  /\ Max(s) \in s /\ Max(s) \in 1 .. n
         /\ s \ {Max(s)} \in SUBSET (1 .. (Max(s) - 1))
<1> DEFINE T == {m \in Nat : \A y \in s : y <= m}
<1>1. n \in T
  OBVIOUS
<1>2. PICK m \in T : \A k \in T : m <= k
  BY <1>1, Least
<1>3. m \in s
  <2> SUFFICES ASSUME m \notin s PROVE FALSE
    OBVIOUS
  <2>1. \A y \in s : y \in Nat /\ y >= 1 /\ y <= m /\ y # m
    BY <1>2
  <2>2. m \in Nat /\ \A y \in s : y <= m - 1
    BY <1>2, <2>1
  <2>3. m # 0
    <3>1. PICK y \in s : TRUE
      OBVIOUS
    <3>2. y \in Nat /\ y >= 1 /\ y <= m
      BY <2>1
    <3> QED
      BY <3>2
  <2>4. m - 1 \in T
    BY <2>2, <2>3
  <2> QED
    BY <1>2, <2>2, <2>4
<1>4. \A y \in s : m >= y
  BY <1>2
<1>5. Max(s) \in s /\ \A y \in s : Max(s) >= y
  BY <1>3, <1>4 DEF Max
<1>6. Max(s) \in 1 .. n
  BY <1>5
<1>7. \A y \in s \ {Max(s)} : y \in 1 .. (Max(s) - 1)
  <2> SUFFICES ASSUME NEW y \in s, y # Max(s) PROVE y \in 1 .. (Max(s) - 1)
    OBVIOUS
  <2>1. y \in Nat /\ y >= 1 /\ Max(s) >= y /\ Max(s) \in Nat
    BY <1>5, <1>6
  <2> QED
    BY <2>1
<1> QED
  BY <1>5, <1>6, <1>7

LEMMA FoldInduction ==
  ASSUME NEW n \in Nat, NEW Good,
         {} \in Good,
         \A s \in SUBSET (1 .. n) :
            s # {} /\ s \ {Max(s)} \in Good => s \in Good
  PROVE  \A s \in SUBSET (1 .. n) : s \in Good
<1> DEFINE Bad == {k \in 0 .. n : ~ (SUBSET (1 .. k) \subseteq Good)}
<1> SUFFICES ASSUME Bad # {} PROVE FALSE
  <2>1. n \in 0 .. n
    OBVIOUS
  <2> QED
    BY <2>1
<1>1. Bad \subseteq Nat
  OBVIOUS
<1> HIDE DEF Bad
<1>2. PICK k \in Bad : \A j \in Bad : k <= j
  BY <1>1, Least
<1>3. k \in 0 .. n /\ ~ (SUBSET (1 .. k) \subseteq Good)
  BY <1>2 DEF Bad
<1>4. PICK s \in SUBSET (1 .. k) : s \notin Good
  BY <1>3
<1>5. s # {} /\ s \in SUBSET (1 .. n)
  <2>1. 1 .. k \subseteq 1 .. n
    BY <1>3
  <2> QED
    BY <1>4, <2>1
<1>6. Max(s) \in 1 .. k /\ s \ {Max(s)} \in SUBSET (1 .. (Max(s) - 1))
  BY <1>3, <1>5, MaxOf
<1>7. Max(s) - 1 \in 0 .. n /\ Max(s) - 1 < k
  BY <1>3, <1>6
<1>8. Max(s) - 1 \notin Bad
  BY <1>1, <1>2, <1>7
<1>9. s \ {Max(s)} \in Good
  BY <1>6, <1>7, <1>8 DEF Bad
<1> QED
  BY <1>4, <1>5, <1>9

(* The step of a fold from base by F, which is given the index; and a      *)
(* function g of the subsets of D that makes it.                           *)
FoldedFrom(g, base, F, s) ==
    IF s = {} THEN base ELSE F[g[s \ {Max(s)}]][Max(s)]
FoldsTo(g, D, V, base, F) ==
    g \in [SUBSET D -> V] /\ \A s \in SUBSET D : g[s] = FoldedFrom(g, base, F, s)

LEMMA FoldExists ==
  ASSUME NEW n \in Nat, NEW V, NEW base \in V, NEW F \in [V -> [1 .. n -> V]]
  PROVE  \E g : FoldsTo(g, 1 .. n, V, base, F)
<1> DEFINE Bad == {k \in 0 .. n : ~ \E g : FoldsTo(g, 1 .. k, V, base, F)}
<1> SUFFICES ASSUME Bad # {} PROVE FALSE
  <2>1. n \in 0 .. n
    OBVIOUS
  <2> QED
    BY <2>1
<1>1. Bad \subseteq Nat
  OBVIOUS
<1> HIDE DEF Bad
<1>2. PICK k \in Bad : \A j \in Bad : k <= j
  BY <1>1, Least
<1>3. k \in 0 .. n
  BY <1>2 DEF Bad
<1>4. k # 0
  <2> DEFINE g == [s \in SUBSET (1 .. 0) |-> base]
  <2>1. \A s \in SUBSET (1 .. 0) : s = {}
    OBVIOUS
  <2>2. FoldsTo(g, 1 .. 0, V, base, F)
    BY <2>1 DEF FoldsTo, FoldedFrom
  <2>3. 0 \notin Bad
    BY <2>2 DEF Bad
  <2> QED
    BY <1>2, <2>3
<1>5. k - 1 \in 0 .. n /\ k - 1 \notin Bad
  BY <1>1, <1>2, <1>3, <1>4
<1>6. PICK g : FoldsTo(g, 1 .. (k - 1), V, base, F)
  BY <1>5 DEF Bad
<1> DEFINE h == [s \in SUBSET (1 .. k) |-> FoldedFrom(g, base, F, s)]
<1>7. ASSUME NEW s \in SUBSET (1 .. k), s # {}
      PROVE  Max(s) \in 1 .. n /\ s \ {Max(s)} \in SUBSET (1 .. (k - 1))
  <2>1. Max(s) \in 1 .. k /\ s \ {Max(s)} \in SUBSET (1 .. (Max(s) - 1))
    BY <1>3, <1>7, MaxOf
  <2> DEFINE m == Max(s)
  <2> HIDE DEF m
  <2>2. m \in 1 .. k /\ s \ {m} \in SUBSET (1 .. (m - 1))
    BY <2>1 DEF m
  <2>3. m \in 1 .. n /\ 1 .. (m - 1) \subseteq 1 .. (k - 1)
    BY <1>3, <2>2
  <2>4. m \in 1 .. n /\ s \ {m} \in SUBSET (1 .. (k - 1))
    BY <2>2, <2>3
  <2> QED
    BY <2>4 DEF m
<1>8. h \in [SUBSET (1 .. k) -> V]
  <2>1. ASSUME NEW s \in SUBSET (1 .. k) PROVE FoldedFrom(g, base, F, s) \in V
    <3>1. \A t \in SUBSET (1 .. (k - 1)) : g[t] \in V
      BY <1>6 DEF FoldsTo
    <3>2. s # {} => g[s \ {Max(s)}] \in V /\ Max(s) \in 1 .. n
      BY <1>7, <3>1
    <3> QED
      BY <3>2 DEF FoldedFrom
  <2> QED
    BY <2>1
<1>9. \A t \in SUBSET (1 .. (k - 1)) : h[t] = g[t]
  <2>1. \A t \in SUBSET (1 .. (k - 1)) : t \in SUBSET (1 .. k)
    BY <1>3
  <2> QED
    BY <1>6, <2>1 DEF FoldsTo
<1>10. ASSUME NEW s \in SUBSET (1 .. k)
       PROVE  h[s] = FoldedFrom(h, base, F, s)
  <2>1. h[s] = FoldedFrom(g, base, F, s)
    OBVIOUS
  <2>2. s # {} => h[s \ {Max(s)}] = g[s \ {Max(s)}]
    BY <1>7, <1>9
  <2> HIDE DEF h
  <2> QED
    BY <2>1, <2>2 DEF FoldedFrom
<1>11. k \notin Bad
  <2>1. FoldsTo(h, 1 .. k, V, base, F)
    <3> HIDE DEF h
    <3> QED
      BY <1>8, <1>10 DEF FoldsTo
  <2> QED
    BY <2>1 DEF Bad
<1> QED
  BY <1>2, <1>11

-----------------------------------------------------------------------------
(* Types.                                                                  *)

Carried == {k \in Items : \E h \in Holdings : \E p \in Pokemon : h[p] = k}
Possible == Abilities \cup Statuses \cup {"GastroAcid", "StickyBarb"} \cup Carried
Effect == [id : Nat, kind : Possible, gone : BOOLEAN]
Caught == Statuses \cup {"GastroAcid"}
Execution == [user : Pokemon, move : AllMoves]

Calling ==
    [op : {"executeMove", "use"}, user : Pokemon, on : Pokemon, move : AllMoves]
    \cup [op : {"popExecution"}]
    \cup [op : {"setHp"}, on : Pokemon, loss : Int]
    \cup [op : {"checkHp", "faint", "switchOut", "sendOut"}, on : Pokemon]
    \cup [op : {"informDamaged"}, on : Pokemon, user : Pokemon, move : AllMoves,
          at : Nat \ {0}]
    \cup [op : {"applyStatus"}, on : Pokemon, inducer : Pokemon, kind : Caught]
    \cup [op : {"informEffectApplied"}, on : Pokemon, inducer : Pokemon, kind : Caught,
          at : Nat \ {0}]
    \cup [op : {"setAbility"}, on : Pokemon, kind : Abilities]
    \cup [op : {"setItem"}, on : Pokemon, kind : {"StickyBarb", None}]
    \cup [op : {"passItem", "uturn"}, on : Pokemon, user : Pokemon]
    \cup [op : {"secondary"}, on : Pokemon, user : Pokemon, kind : Statuses]
    \cup [op : {"consume"}, on : Pokemon, id : Nat]

EffectsTypeOK ==
    /\ name \in [Pokemon -> Abilities] /\ itemName \in Holdings
    /\ hp \in [Pokemon -> Int] /\ fainted \in [Pokemon -> BOOLEAN]
    /\ told \in [Pokemon -> 0 .. 2]
    /\ effects \in [Pokemon -> Seq(Effect)]
    /\ ability \in [Pokemon -> Nat] /\ item \in [Pokemon -> Nat]
    /\ memory \in [Pokemon -> SUBSET Pokemon]
    /\ active \in [{0, 1} -> Pokemon]
    /\ executing \in Seq(Execution) /\ calls \in Seq(Calling)
    /\ phase \in {"actions", "ticks", "replacements"}
    /\ todo \subseteq Pokemon
    /\ ticks \subseteq [on : Pokemon, id : Nat, kind : Possible]
    /\ turn \in Nat

(* What a call has besides its name.                                       *)
LEMMA CallFields ==
  ASSUME NEW c \in Calling
  PROVE  /\ c.op \in {"executeMove", "use"} =>
                c.user \in Pokemon /\ c.on \in Pokemon /\ c.move \in AllMoves
         /\ c.op = "setHp" => c.on \in Pokemon /\ c.loss \in Int
         /\ c.op \in {"checkHp", "faint", "switchOut", "sendOut"} => c.on \in Pokemon
         /\ c.op = "informDamaged" =>
                /\ c.on \in Pokemon /\ c.user \in Pokemon /\ c.move \in AllMoves
                /\ c.at \in Nat \ {0}
         /\ c.op = "applyStatus" =>
                c.on \in Pokemon /\ c.inducer \in Pokemon /\ c.kind \in Caught
         /\ c.op = "informEffectApplied" =>
                /\ c.on \in Pokemon /\ c.inducer \in Pokemon /\ c.kind \in Caught
                /\ c.at \in Nat \ {0}
         /\ c.op = "setAbility" => c.on \in Pokemon /\ c.kind \in Abilities
         /\ c.op = "setItem" => c.on \in Pokemon /\ c.kind \in {"StickyBarb", None}
         /\ c.op \in {"passItem", "uturn"} => c.on \in Pokemon /\ c.user \in Pokemon
         /\ c.op = "secondary" =>
                c.on \in Pokemon /\ c.user \in Pokemon /\ c.kind \in Statuses
         /\ c.op = "consume" => c.on \in Pokemon /\ c.id \in Nat
  BY DEF Calling

(* The next turn of a loop over the effects.                               *)
LEMMA NextEntry ==
  ASSUME NEW c \in Calling, c.op \in {"informDamaged", "informEffectApplied"}
  PROVE  [c EXCEPT !.at = @ + 1] \in Calling
  BY DEF Calling

LEMMA CallsTyped ==
  ASSUME NEW p \in Pokemon, NEW q \in Pokemon, NEW m \in AllMoves
  PROVE  /\ Execute(p, q, m) \in Calling /\ Use(p, q, m) \in Calling /\ Pop \in Calling
         /\ \A n \in Int : Hurt(p, n) \in Calling
         /\ CheckHp(p) \in Calling /\ Die(p) \in Calling
         /\ SwitchOut(p) \in Calling /\ SendOut(p) \in Calling
         /\ \A i \in Nat \ {0} : Damaged(p, q, m, i) \in Calling
         /\ \A k \in Caught : Apply(p, q, k) \in Calling
         /\ \A k \in Caught, i \in Nat \ {0} : Applied(p, q, k, i) \in Calling
         /\ \A k \in Abilities : SetAbility(p, k) \in Calling
         /\ \A k \in {"StickyBarb", None} : SetItem(p, k) \in Calling
         /\ PassItem(p, q) \in Calling /\ Turn(p, q) \in Calling
         /\ \A k \in Statuses : Secondary(p, q, k) \in Calling
         /\ \A i \in Nat : Consume(p, i) \in Calling
  BY DEF Calling, Execute, Use, Pop, Hurt, CheckHp, Die, SwitchOut, SendOut, Damaged,
         Apply, Applied, SetAbility, SetItem, PassItem, Turn, Secondary, Consume

-----------------------------------------------------------------------------
(* Lists of effects.                                                       *)

(* Pigeons: an identity that is not used is always found.                  *)
LEMMA FreshId ==
  ASSUME NEW list \in Seq(Effect), NEW i \in Nat, NEW j \in Nat
  PROVE  /\ Fresh(list, {i, j}) \in Nat \ {0}
         /\ Fresh(list, {i, j}) \notin {i, j}
         /\ \A k \in 1 .. Len(list) : list[k].id # Fresh(list, {i, j})
<1> DEFINE named == {e.id : e \in ToSet(list)}
           used == named \cup {i, j}
           n == Cardinality(used)
<1>1. DOMAIN list = 1 .. Len(list)
  BY LenProperties
<1>2. IsFiniteSet(named)
  <2> DEFINE f == [k \in 1 .. Len(list) |-> list[k].id]
  <2>1. f \in [1 .. Len(list) -> named]
    BY <1>1 DEF ToSet
  <2>2. \A x \in named : \E k \in 1 .. Len(list) : f[k] = x
    BY <1>1 DEF ToSet
  <2>3. f \in Surjection(1 .. Len(list), named)
    <3> HIDE DEF f, named
    <3> QED
      BY <2>1, <2>2, Fun_IsSurj
  <2>4. IsFiniteSet(1 .. Len(list))
    BY LenProperties, FS_Interval
  <2> HIDE DEF f, named
  <2> QED
    BY <2>3, <2>4, FS_Surjection
<1>3. IsFiniteSet(used)
  <2>1. IsFiniteSet({i} \cup {j})
    BY FS_Singleton, FS_Union
  <2>2. {i, j} = {i} \cup {j}
    OBVIOUS
  <2> HIDE DEF named
  <2> QED
    BY <1>2, <2>1, <2>2, FS_Union
<1>4. n \in Nat
  BY <1>3, FS_CardinalityType
<1>5. \E k \in 1 .. n + 1 : k \notin used
  <2> HIDE DEF used
  <2> SUFFICES ASSUME (1 .. n + 1) \subseteq used PROVE FALSE
    OBVIOUS
  <2>1. Cardinality(1 .. n + 1) <= n
    BY <1>3, FS_Subset
  <2>2. Cardinality(1 .. n + 1) = n + 1
    BY <1>4, FS_Interval
  <2> QED
    BY <1>4, <2>1, <2>2
<1>6. Fresh(list, {i, j}) \in 1 .. n + 1 /\ Fresh(list, {i, j}) \notin used
  <2> HIDE DEF n
  <2>1. Fresh(list, {i, j}) = CHOOSE k \in 1 .. n + 1 : k \notin used
    BY DEF Fresh, n
  <2> HIDE DEF used
  <2> QED
    BY <1>5, <2>1
<1>7. \A k \in 1 .. Len(list) : list[k].id \in used
  <2>1. \A k \in 1 .. Len(list) : list[k] \in ToSet(list)
    BY LenProperties DEF ToSet
  <2> QED
    BY <2>1
<1> QED
  <2> HIDE DEF n
  <2>1. Fresh(list, {i, j}) \notin {i, j}
    BY <1>6
  <2>2. \A k \in 1 .. Len(list) : list[k].id # Fresh(list, {i, j})
    <3> HIDE DEF used
    <3> QED
      BY <1>6, <1>7
  <2>3. Fresh(list, {i, j}) \in Nat \ {0}
    BY <1>4, <1>6
  <2> QED
    BY <2>1, <2>2, <2>3

LEMMA DisposeShape ==
  ASSUME NEW n \in Nat, NEW list \in [1 .. n -> Effect], NEW i
  PROVE  Dispose(list, i) \in [1 .. n -> Effect]
<1> DEFINE gone(k) == IF list[k].id = i THEN [list[k] EXCEPT !.gone = TRUE] ELSE list[k]
<1>1. ASSUME NEW k \in 1 .. n PROVE gone(k) \in Effect
  <2>1. list[k] \in Effect
    OBVIOUS
  <2> QED
    BY <2>1 DEF Effect
<1>2. Dispose(list, i) = [k \in 1 .. n |-> gone(k)]
  BY DEF Dispose
<1> QED
  BY <1>1, <1>2

LEMMA DisposeTyped ==
  ASSUME NEW list \in Seq(Effect), NEW i
  PROVE  Dispose(list, i) \in Seq(Effect)
<1>1. Len(list) \in Nat /\ list \in [1 .. Len(list) -> Effect]
  BY LenProperties
<1>2. Dispose(list, i) \in [1 .. Len(list) -> Effect]
  BY <1>1, DisposeShape
<1> QED
  BY <1>1, <1>2, SeqDef

LEMMA ReplacedTyped ==
  ASSUME NEW list \in Seq(Effect), NEW i \in Nat, NEW j \in Nat, NEW k,
         NEW kind \in Possible \cup {None}
  PROVE  /\ Replaced(list, {i, j}, k, kind).list \in Seq(Effect)
         /\ Replaced(list, {i, j}, k, kind).id \in Nat
<1> DEFINE rest == Dispose(list, k)
           fresh == Fresh(list, {i, j})
<1>1. rest \in Seq(Effect) /\ fresh \in Nat
  BY DisposeTyped, FreshId
<1>2. kind # None => [id |-> fresh, kind |-> kind, gone |-> FALSE] \in Effect
  BY <1>1 DEF Effect
<1> HIDE DEF rest, fresh
<1>3. kind # None =>
        Append(rest, [id |-> fresh, kind |-> kind, gone |-> FALSE]) \in Seq(Effect)
  BY <1>1, <1>2, AppendProperties
<1> QED
  BY <1>1, <1>3 DEF Replaced, rest, fresh

(* What is on a list of effects, what is alive on it, and which kind each  *)
(* identity stands for.                                                    *)
Tags(list) == {<<e.id, e.kind>> : e \in ToSet(list)}
Fits(x, list) == <<x.id, x.kind>> \in Tags(list) /\ (~x.gone => x \in ToSet(list))
Consistent(list) == \A x, y \in Tags(list) : x[1] = y[1] => x[2] = y[2]

LEMMA ListSets ==
  ASSUME NEW list \in Seq(Effect)
  PROVE  /\ Len(list) \in Nat /\ DOMAIN list = 1 .. Len(list)
         /\ list \in [1 .. Len(list) -> Effect]
         /\ ToSet(list) = {list[k] : k \in 1 .. Len(list)} /\ ToSet(list) \subseteq Effect
         /\ Living(list) \subseteq Effect
<1>1. Len(list) \in Nat /\ DOMAIN list = 1 .. Len(list) /\ list \in [1 .. Len(list) -> Effect]
  BY LenProperties
<1>2. ToSet(list) = {list[k] : k \in 1 .. Len(list)}
  BY <1>1 DEF ToSet
<1>3. ToSet(list) \subseteq Effect
  BY <1>1, <1>2
<1> QED
  BY <1>1, <1>2, <1>3 DEF Living

LEMMA EffectFields ==
  ASSUME NEW x \in Effect, NEW y \in Effect
  PROVE  /\ x.id \in Nat /\ x.kind \in Possible /\ x.gone \in BOOLEAN
         /\ x.id = y.id /\ x.kind = y.kind /\ x.gone = y.gone => x = y
BY DEF Effect

LEMMA AppendSets ==
  ASSUME NEW list \in Seq(Effect), NEW e \in Effect
  PROVE  /\ Append(list, e) \in Seq(Effect)
         /\ ToSet(Append(list, e)) = ToSet(list) \cup {e}
         /\ Tags(Append(list, e)) = Tags(list) \cup {<<e.id, e.kind>>}
         /\ ~e.gone => Living(Append(list, e)) = Living(list) \cup {e}
<1> DEFINE n == Len(list)
           t == Append(list, e)
<1>1. n \in Nat /\ ToSet(list) = {list[k] : k \in 1 .. n}
  BY ListSets
<1>2. /\ t \in Seq(Effect) /\ Len(t) = n + 1 /\ t[n + 1] = e
      /\ \A k \in 1 .. n : t[k] = list[k]
  BY AppendProperties
<1>3. ToSet(t) = {t[k] : k \in 1 .. n + 1}
  BY <1>2, ListSets
<1> HIDE DEF n, t
<1>4. ToSet(t) = ToSet(list) \cup {e}
  <2>1. ASSUME NEW k \in 1 .. n + 1 PROVE t[k] \in ToSet(list) \cup {e}
    <3>1. k \in 1 .. n \/ k = n + 1
      BY <1>1
    <3> QED
      BY <1>1, <1>2, <3>1
  <2>2. ASSUME NEW k \in 1 .. n PROVE list[k] \in ToSet(t)
    <3>1. k \in 1 .. n + 1
      BY <1>1
    <3> QED
      BY <1>2, <1>3, <3>1
  <2>3. e \in ToSet(t)
    <3>1. n + 1 \in 1 .. n + 1
      BY <1>1
    <3> QED
      BY <1>2, <1>3, <3>1
  <2> QED
    BY <1>1, <1>3, <2>1, <2>2, <2>3
<1>5. Tags(t) = Tags(list) \cup {<<e.id, e.kind>>}
  BY <1>4 DEF Tags
<1>6. ~e.gone => Living(t) = Living(list) \cup {e}
  BY <1>4 DEF Living
<1> QED
  BY <1>2, <1>4, <1>5, <1>6 DEF t

(* Pokemon::removeStatuses keeps the effects that are alive.               *)
LEMMA UnremovedTyped ==
  ASSUME NEW list \in Seq(Effect)
  PROVE  Unremoved(list) \in Seq(Effect) /\ ToSet(Unremoved(list)) = Living(list)
<1> DEFINE n == Len(list)
           V == Seq(Effect)
           Keep(rest, e) == IF e.gone THEN rest ELSE Append(rest, e)
           base == <<>>
           F == [v \in V |-> [k \in 1 .. n |-> Keep(v, list[k])]]
           Stage(g, s) == IF s = {} THEN base ELSE Keep(g[s \ {Max(s)}], list[Max(s)])
           iter == CHOOSE g : g = [s \in SUBSET (1 .. n) |-> Stage(g, s)]
<1>1. n \in Nat /\ DOMAIN list = 1 .. n
  BY LenProperties
<1>2. ASSUME NEW v \in V, NEW k \in 1 .. n
      PROVE  Keep(v, list[k]) \in V
  <2>1. list[k] \in Effect
    BY ElementOfSeq
  <2>2. Append(v, list[k]) \in V
    BY <2>1, AppendProperties
  <2> QED
    BY <2>2
<1>3. Unremoved(list) = iter[1 .. n]
  <2>1. Unremoved(list) = FoldLeft(Keep, <<>>, list)
    BY DEF Unremoved
  <2> HIDE DEF n
  <2> QED
    BY <1>1, <2>1 DEF FoldLeft, MapThenFoldSet
<1> HIDE DEF Keep
<1>4. F \in [V -> [1 .. n -> V]]
  BY <1>2
<1>5. base \in V
  BY EmptySeq
<1> HIDE DEF base
<1>6. \E g : g = [s \in SUBSET (1 .. n) |-> Stage(g, s)]
  <2> HIDE DEF V, F, n
  <2>1. PICK g : FoldsTo(g, 1 .. n, V, base, F)
    BY <1>1, <1>4, <1>5, FoldExists
  <2>2. ASSUME NEW s \in SUBSET (1 .. n) PROVE g[s] = Stage(g, s)
    <3>1. s # {} => g[s \ {Max(s)}] \in V /\ Max(s) \in 1 .. n
      BY <1>1, <2>1, MaxOf DEF FoldsTo
    <3>2. s # {} => FoldedFrom(g, base, F, s) = Keep(g[s \ {Max(s)}], list[Max(s)])
      BY <3>1 DEF FoldedFrom, F
    <3> QED
      BY <2>1, <3>2 DEF FoldedFrom, FoldsTo
  <2> HIDE DEF Stage
  <2> QED
    BY <2>1, <2>2 DEF FoldsTo
<1>7. iter = [s \in SUBSET (1 .. n) |-> Stage(iter, s)]
  <2> HIDE DEF Stage, n
  <2> QED
    BY <1>6
<1> HIDE DEF iter, F
<1> DEFINE Alive(s) == {list[k] : k \in {j \in s : ~list[j].gone}}
           Good == {s \in SUBSET (1 .. n) : iter[s] \in V /\ ToSet(iter[s]) = Alive(s)}
<1>8. {} \in Good
  <2>1. iter[{}] = <<>>
    BY <1>7 DEF base
  <2>2. ToSet(<<>>) = {}
    BY EmptySeq DEF ToSet
  <2> QED
    BY <1>5, <2>1, <2>2 DEF base
<1>9. ASSUME NEW s \in SUBSET (1 .. n), s # {}, s \ {Max(s)} \in Good
      PROVE  s \in Good
  <2> DEFINE m == Max(s)
             r == s \ {m}
  <2>1. m \in s /\ m \in 1 .. n
    BY <1>1, <1>9, MaxOf
  <2>2. iter[r] \in V /\ ToSet(iter[r]) = Alive(r)
    BY <1>9
  <2>3. iter[s] = Keep(iter[r], list[m])
    BY <1>7, <1>9
  <2>4. list[m] \in Effect
    BY <2>1, ElementOfSeq
  <2>5. Alive(s) = IF list[m].gone THEN Alive(r) ELSE Alive(r) \cup {list[m]}
    <3> HIDE DEF m
    <3> QED
      BY <2>1
  <2> HIDE DEF m, r, Alive, V
  <2>6. iter[s] = IF list[m].gone THEN iter[r] ELSE Append(iter[r], list[m])
    BY <2>3 DEF Keep
  <2>7. Append(iter[r], list[m]) \in V /\ ToSet(Append(iter[r], list[m])) = Alive(r) \cup {list[m]}
    BY <2>2, <2>4, AppendSets DEF V
  <2>8. iter[s] \in V /\ ToSet(iter[s]) = Alive(s)
    BY <2>2, <2>5, <2>6, <2>7
  <2> QED
    BY <1>9, <2>8
<1>10. \A s \in SUBSET (1 .. n) : s \in Good
  <2> HIDE DEF Good, n
  <2> QED
    BY <1>1, <1>8, <1>9, FoldInduction
<1>11. Unremoved(list) \in V /\ ToSet(Unremoved(list)) = Alive(1 .. n)
  <2>1. 1 .. n \in Good
    BY <1>10
  <2> HIDE DEF Alive, V, n
  <2> QED
    BY <1>3, <2>1
<1>12. Alive(1 .. n) = Living(list)
  <2>1. ToSet(list) = {list[k] : k \in 1 .. n}
    BY ListSets
  <2> HIDE DEF n
  <2> QED
    BY <2>1 DEF Living
<1> QED
  BY <1>11, <1>12

(* Pokemon::switchOut keeps effects, and of the list it rearranges only    *)
(* what it has written.                                                    *)
LEMMA LeaveShape ==
  ASSUME NEW n \in Nat, NEW i \in 1 .. n,
         NEW v \in [list : [1 .. n -> Effect], to : Nat \ {0}]
  PROVE  /\ Leave(v, i) \in [list : [1 .. n -> Effect], to : Nat \ {0}]
         /\ Leave(v, i).to <= v.to + 1
<1>1. v.list \in [1 .. n -> Effect] /\ v.to \in Nat \ {0} /\ v.list[i] \in Effect
      /\ v = [list |-> v.list, to |-> v.to]
  OBVIOUS
<1>2. \A k : Dispose(v.list, k) \in [1 .. n -> Effect]
  BY <1>1, DisposeShape
<1>3. [v.list EXCEPT ![v.to] = v.list[i]] \in [1 .. n -> Effect]
  BY <1>1
<1> DEFINE leaves == IsActive(v.list, v.list[i]) /\ v.list[i].kind \notin Items \cup Statuses
           special == {x \in Living(v.list) : Lock(x.kind) = 2}
           cured == IF leaves /\ v.list[i].kind = "NaturalCure" /\ special /= {}
                    THEN Dispose(v.list, (CHOOSE x \in special : TRUE).id)
                    ELSE v.list
<1>4. Leave(v, i) = IF leaves THEN [v EXCEPT !.list = cured]
                    ELSE [list |-> [v.list EXCEPT ![v.to] = v.list[i]], to |-> v.to + 1]
  BY DEF Leave
<1>5. cured \in [1 .. n -> Effect]
  <2> HIDE DEF leaves, special
  <2> QED
    BY <1>1, <1>2
<1> HIDE DEF leaves, cured
<1>6. CASE leaves
  <2>1. Leave(v, i) = [list |-> cured, to |-> v.to]
    BY <1>1, <1>4, <1>6
  <2> QED
    BY <1>1, <1>5, <2>1
<1>7. CASE ~leaves
  BY <1>1, <1>3, <1>4, <1>7
<1> QED
  BY <1>6, <1>7

(* The stages of the list that it rearranges: iter[s] is what it is when   *)
(* the entries of s were seen.                                             *)
Rearranged(n) == [list : [1 .. n -> Effect], to : Nat \ {0}]
LeftFrom(iter, list) ==
    /\ iter[{}] = [list |-> list, to |-> 1]
    /\ \A s \in SUBSET (1 .. Len(list)) :
          /\ iter[s] \in Rearranged(Len(list))
          /\ s # {} => /\ iter[s] = Leave(iter[s \ {Max(s)}], Max(s))
                       /\ iter[s \ {Max(s)}].to <= Max(s)
    /\ iter[1 .. Len(list)].to <= Len(list) + 1
    /\ Left(list) = SubSeq(iter[1 .. Len(list)].list, 1, iter[1 .. Len(list)].to - 1)

LEMMA LeftStages ==
  ASSUME NEW list \in Seq(Effect)
  PROVE  \E iter : LeftFrom(iter, list)
<1> DEFINE n == Len(list)
           V == Rearranged(n)
           base == [list |-> list, to |-> 1]
           idx == [i \in DOMAIN list |-> i]
           F == [v \in V |-> [k \in 1 .. n |-> Leave(v, k)]]
           Stage(g, s) == IF s = {} THEN base ELSE Leave(g[s \ {Max(s)}], idx[Max(s)])
           iter == CHOOSE g : g = [s \in SUBSET (1 .. n) |-> Stage(g, s)]
<1>1. n \in Nat /\ DOMAIN list = 1 .. n /\ list \in [1 .. n -> Effect]
  BY LenProperties
<1>2. DOMAIN idx = 1 .. n /\ \A i \in 1 .. n : idx[i] = i
  <2> HIDE DEF n
  <2> QED
    BY <1>1
<1>3. base \in V
  <2> HIDE DEF n
  <2> QED
    BY <1>1 DEF Rearranged
<1>4. FoldLeft(Leave, base, idx) = iter[1 .. n]
  <2> HIDE DEF n, base, idx
  <2> QED
    BY <1>1, <1>2 DEF FoldLeft, MapThenFoldSet
<1>5. ASSUME NEW v \in V, NEW k \in 1 .. n
      PROVE  Leave(v, k) \in V /\ Leave(v, k).to <= v.to + 1
  <2> HIDE DEF n
  <2> QED
    BY <1>1, LeaveShape DEF Rearranged
<1>6. F \in [V -> [1 .. n -> V]]
  <2> HIDE DEF V, n
  <2> QED
    BY <1>5
<1>7. \E g : g = [s \in SUBSET (1 .. n) |-> Stage(g, s)]
  <2> HIDE DEF V, F, n, base, idx
  <2>1. PICK g : FoldsTo(g, 1 .. n, V, base, F)
    BY <1>1, <1>3, <1>6, FoldExists
  <2>2. ASSUME NEW s \in SUBSET (1 .. n) PROVE g[s] = Stage(g, s)
    <3>1. s # {} => Max(s) \in 1 .. n /\ s \ {Max(s)} \in SUBSET (1 .. n)
      BY <1>1, MaxOf
    <3>2. \A t \in SUBSET (1 .. n) : g[t] \in V
      BY <2>1 DEF FoldsTo
    <3>3. s # {} => g[s \ {Max(s)}] \in V /\ idx[Max(s)] = Max(s)
      BY <1>2, <3>1, <3>2
    <3>4. s # {} => FoldedFrom(g, base, F, s) = Leave(g[s \ {Max(s)}], idx[Max(s)])
      BY <3>1, <3>3 DEF FoldedFrom, F
    <3> QED
      BY <2>1, <3>4 DEF FoldedFrom, FoldsTo
  <2> HIDE DEF Stage
  <2> QED
    BY <2>1, <2>2 DEF FoldsTo
<1>8. iter = [s \in SUBSET (1 .. n) |-> Stage(iter, s)]
  <2> HIDE DEF Stage, n
  <2> QED
    BY <1>7
<1> HIDE DEF iter, F
<1> DEFINE Top(s) == IF s = {} THEN 0 ELSE Max(s)
           Step(s) == /\ iter[s] = Leave(iter[s \ {Max(s)}], Max(s))
                      /\ iter[s \ {Max(s)}].to <= Max(s)
           Good == {s \in SUBSET (1 .. n) : /\ iter[s] \in V /\ iter[s].to <= Top(s) + 1
                                            /\ s # {} => Step(s)}
<1>9. {} \in Good
  <2>1. iter[{}] = base
    BY <1>8
  <2>2. base.to = 1
    OBVIOUS
  <2> HIDE DEF base, V
  <2> QED
    BY <1>3, <2>1, <2>2
<1>10. ASSUME NEW s \in SUBSET (1 .. n), s # {}, s \ {Max(s)} \in Good
       PROVE  s \in Good
  <2> DEFINE m == Max(s)
             r == s \ {m}
  <2>1. m \in 1 .. n /\ r \in SUBSET (1 .. (m - 1))
    BY <1>1, <1>10, MaxOf
  <2>2. r # {} => Max(r) \in 1 .. (m - 1)
    <3>1. m - 1 \in Nat
      BY <1>1, <2>1
    <3> HIDE DEF m, r
    <3> QED
      BY <2>1, <3>1, MaxOf
  <2>3. Top(r) + 1 <= m
    <3>1. m \in Nat /\ m >= 1
      BY <1>1, <2>1
    <3> HIDE DEF m, r
    <3> QED
      BY <2>2, <3>1
  <2>4. iter[r] \in V /\ iter[r].to <= Top(r) + 1
    BY <1>10
  <2>5. iter[s] = Leave(iter[r], m)
    BY <1>2, <1>8, <1>10, <2>1
  <2>6. iter[s] \in V /\ iter[s].to <= iter[r].to + 1
    BY <1>5, <2>1, <2>4, <2>5
  <2>7. iter[s].to <= m + 1 /\ iter[r].to <= m
    <3>1. m \in Nat /\ iter[s].to \in Nat /\ iter[r].to \in Nat /\ Top(r) \in Nat
      BY <1>1, <2>1, <2>2, <2>4, <2>6 DEF Rearranged
    <3> HIDE DEF m, r, Top
    <3> QED
      BY <2>3, <2>4, <2>6, <3>1
  <2>8. Step(s)
    BY <2>5, <2>7
  <2> HIDE DEF Step
  <2> QED
    BY <1>10, <2>6, <2>7, <2>8
<1>11. \A s \in SUBSET (1 .. n) : s \in Good
  <2> HIDE DEF Good, n
  <2> QED
    BY <1>1, <1>9, <1>10, FoldInduction
<1> DEFINE last == iter[1 .. n]
<1>12. last \in V /\ last.to <= n + 1
  <2>1. 1 .. n \in Good
    BY <1>11
  <2>2. 1 .. n # {} => Max(1 .. n) \in 1 .. n
    BY <1>1, MaxOf
  <2>3. Top(1 .. n) <= n /\ Top(1 .. n) \in Nat
    <3> HIDE DEF n
    <3> QED
      BY <1>1, <2>2
  <2>4. last \in V /\ last.to <= Top(1 .. n) + 1
    BY <2>1
  <2>5. last.to \in Nat
    BY <2>4 DEF Rearranged
  <2> HIDE DEF n, Top, V, last
  <2> QED
    BY <1>1, <2>3, <2>4, <2>5
<1>13. Left(list) = SubSeq(last.list, 1, last.to - 1)
  BY <1>4 DEF Left
<1>14. \A s \in SUBSET (1 .. n) : s # {} => Step(s)
  <2> HIDE DEF Step
  <2> QED
    BY <1>11
<1>15. iter[{}] = base
  BY <1>8
<1>16. \A s \in SUBSET (1 .. n) : iter[s] \in V
  BY <1>11
<1> HIDE DEF Top, Good
<1> QED
  BY <1>12, <1>13, <1>14, <1>15, <1>16 DEF LeftFrom

LEMMA LeftTyped ==
  ASSUME NEW list \in Seq(Effect)
  PROVE  Left(list) \in Seq(Effect)
<1>1. PICK iter : LeftFrom(iter, list)
  BY LeftStages
<1> DEFINE n == Len(list)
           last == iter[1 .. n]
<1>2. /\ n \in Nat /\ last \in Rearranged(n) /\ last.to <= n + 1
      /\ Left(list) = SubSeq(last.list, 1, last.to - 1)
  BY <1>1, LenProperties DEF LeftFrom
<1> HIDE DEF n, last
<1>3. last.to - 1 \in Int /\ \A i \in 1 .. (last.to - 1) : last.list[i] \in Effect
  BY <1>2 DEF Rearranged
<1> QED
  BY <1>2, <1>3, SubSeqProperties

-----------------------------------------------------------------------------
(* Every step keeps the types.                                             *)

LEMMA HeadOfCalls ==
  ASSUME EffectsTypeOK, calls # <<>>
  PROVE  /\ Head(calls) \in Calling /\ Tail(calls) \in Seq(Calling)
         /\ \A inner \in Seq(Calling) : Calls(inner) => calls' \in Seq(Calling)
<1>1. Head(calls) \in Calling /\ Tail(calls) \in Seq(Calling)
  BY HeadTailProperties DEF EffectsTypeOK
<1>2. ASSUME NEW inner \in Seq(Calling), Calls(inner) PROVE calls' \in Seq(Calling)
  BY <1>1, <1>2, ConcatProperties DEF Calls
<1> QED
  BY <1>1, <1>2

LEMMA ReservesAre ==
  ASSUME NEW i PROVE Reserves(i) \subseteq Pokemon
  BY DEF Reserves

(* What the scripts call.                                                  *)
LEMMA OnDamageTyped ==
  ASSUME NEW p \in Pokemon, NEW user \in Pokemon, NEW move \in AllMoves, NEW e \in Effect
  PROVE  OnDamage(p, user, move, e) \subseteq Seq(Calling)
<1> DEFINE Blow == Hurt(user, 1)
           Slow == Apply(user, p, "Paralysis")
           Pass == PassItem(p, user)
           Heal == Hurt(p, -1)
           Eat == Consume(p, e.id)
<1>1. Blow \in Calling /\ Slow \in Calling /\ Pass \in Calling /\ Heal \in Calling
      /\ Eat \in Calling
  BY CallsTyped DEF Effect, Caught, Statuses
<1> HIDE DEF Blow, Slow, Pass, Heal, Eat
<1>2. {<<>>, <<Blow>>, <<Slow>>, <<Blow, Pass>>, <<Blow, Eat>>, <<Heal, Eat>>}
      \subseteq Seq(Calling)
  BY <1>1
<1>3. OnDamage(p, user, move, e) \subseteq
      {<<>>, <<Blow>>, <<Slow>>, <<Blow, Pass>>, <<Blow, Eat>>, <<Heal, Eat>>}
  BY DEF OnDamage, Blow, Slow, Pass, Heal, Eat
<1> QED
  BY <1>2, <1>3

LEMMA OutcomesTyped ==
  ASSUME NEW p \in Pokemon, NEW user \in Pokemon, NEW move \in AllMoves, MaxHp \in Nat
  PROVE  Outcomes(user, p, move) \subseteq Seq(Calling)
<1>1. Damage \subseteq Int
  BY DEF Damage
<1>2. ASSUME NEW n \in Damage
      PROVE  /\ <<Hurt(p, n)>> \in Seq(Calling)
             /\ <<Hurt(p, n), Secondary(p, user, "Poison")>> \in Seq(Calling)
             /\ <<Hurt(p, n), Turn(user, p)>> \in Seq(Calling)
  <2>1. Hurt(p, n) \in Calling /\ Secondary(p, user, "Poison") \in Calling
        /\ Turn(user, p) \in Calling
    BY <1>1, CallsTyped DEF Statuses
  <2> QED
    BY <2>1
<1>3. ASSUME NEW q \in Reserves(PartyOf[p])
      PROVE  <<SwitchOut(p), SendOut(q)>> \in Seq(Calling)
  <2>1. SwitchOut(p) \in Calling /\ SendOut(q) \in Calling
    BY CallsTyped, ReservesAre
  <2> QED
    BY <2>1
<1>4. <<SetAbility(p, "Insomnia")>> \in Seq(Calling)
      /\ <<Apply(p, user, "GastroAcid")>> \in Seq(Calling)
  <2>1. SetAbility(p, "Insomnia") \in Calling /\ Apply(p, user, "GastroAcid") \in Calling
    BY CallsTyped DEF Abilities, Caught
  <2> QED
    BY <2>1
<1>5. <<>> \in Seq(Calling)
  BY EmptySeq
<1> DEFINE hits == {<<Hurt(p, n)>> : n \in Damage}
           poisons == {<<Hurt(p, n), Secondary(p, user, "Poison")>> : n \in Damage}
           turns == {<<Hurt(p, n), Turn(user, p)>> : n \in Damage}
           roars == {<<SwitchOut(p), SendOut(q)>> : q \in Reserves(PartyOf[p])}
<1>6. hits \subseteq Seq(Calling) /\ poisons \subseteq Seq(Calling)
      /\ turns \subseteq Seq(Calling) /\ roars \subseteq Seq(Calling)
  BY <1>2, <1>3
<1>7. Outcomes(user, p, move) \in
        {hits, poisons, turns, roars, {<<>>}, {<<SetAbility(p, "Insomnia")>>},
         {<<Apply(p, user, "GastroAcid")>>}}
  <2> HIDE DEF hits, poisons, turns, roars
  <2>1. CASE move \in {"Tackle", "Explosion"}
    BY <2>1 DEF Outcomes, hits
  <2>2. CASE move = "PoisonJab"
    BY <2>2 DEF Outcomes, poisons
  <2>3. CASE move = "UTurn"
    BY <2>3 DEF Outcomes, turns
  <2>4. CASE move = "Roar"
    BY <2>4 DEF Outcomes, roars
  <2>5. CASE move \in {"WorrySeed", "GastroAcid"}
    BY <2>5 DEF Outcomes
  <2> QED
    BY <2>1, <2>2, <2>3, <2>4, <2>5 DEF AllMoves
<1> QED
  <2> HIDE DEF hits, poisons, turns, roars
  <2> QED
    BY <1>4, <1>5, <1>6, <1>7

(* The steps that only answer the first call with others.                  *)
Answers ==
    UseMove \/ SecondaryEffect \/ UTurn \/ InformDamaged \/ CheckDeath
    \/ InformEffectApplied \/ PassSticky

LEMMA AnswersTyped ==
  ASSUME EffectsTypeOK, MaxHp \in Nat, Answers
  PROVE  calls' \in Seq(Calling)
<1> DEFINE c == Head(calls)
<1>1. calls # <<>>
  BY DEF Answers, UseMove, SecondaryEffect, UTurn, InformDamaged, CheckDeath,
         InformEffectApplied, PassSticky, First
<1>2. c \in Calling /\ \A inner \in Seq(Calling) : Calls(inner) => calls' \in Seq(Calling)
  BY <1>1, HeadOfCalls
<1> HIDE DEF c
<1>3. <<>> \in Seq(Calling)
  BY EmptySeq
<1>4. CASE UseMove
  <2>1. c.op = "use"
    BY <1>4 DEF UseMove, First, c
  <2>2. c.user \in Pokemon /\ c.on \in Pokemon /\ c.move \in AllMoves
    BY <1>2, <2>1, CallFields
  <2>3. Outcomes(c.user, c.on, c.move) \subseteq Seq(Calling)
    BY <2>2, OutcomesTyped
  <2>4. PICK inner \in Outcomes(c.user, c.on, c.move) \cup {<<>>} : Calls(inner)
    BY <1>4 DEF UseMove, c
  <2> QED
    BY <1>2, <1>3, <2>3, <2>4
<1>5. CASE SecondaryEffect
  <2>1. c.op = "secondary"
    BY <1>5 DEF SecondaryEffect, First, c
  <2>2. c.on \in Pokemon /\ c.user \in Pokemon /\ c.kind \in Caught
    BY <1>2, <2>1, CallFields DEF Caught
  <2>3. Apply(c.on, c.user, c.kind) \in Calling
    BY <2>2, CallsTyped DEF AllMoves
  <2>4. <<Apply(c.on, c.user, c.kind)>> \in Seq(Calling)
    BY <2>3
  <2>5. Calls(<<>>) \/ Calls(<<Apply(c.on, c.user, c.kind)>>)
    BY <1>5 DEF SecondaryEffect, c
  <2> QED
    BY <1>2, <1>3, <2>4, <2>5
<1>6. CASE UTurn
  <2>1. c.op = "uturn"
    BY <1>6 DEF UTurn, First, c
  <2>2. c.user \in Pokemon
    BY <1>2, <2>1, CallFields
  <2>3. Calls(<<>>) \/ \E q \in Reserves(PartyOf[c.user]) : Calls(<<SwitchOut(c.user), SendOut(q)>>)
    BY <1>6 DEF UTurn, c
  <2>4. ASSUME NEW q \in Reserves(PartyOf[c.user])
        PROVE  <<SwitchOut(c.user), SendOut(q)>> \in Seq(Calling)
    <3>1. SwitchOut(c.user) \in Calling /\ SendOut(q) \in Calling
      BY <2>2, CallsTyped, ReservesAre DEF AllMoves
    <3> QED
      BY <3>1
  <2> QED
    BY <1>2, <1>3, <2>3, <2>4
<1>7. CASE InformDamaged
  <2>1. c.op = "informDamaged"
    BY <1>7 DEF InformDamaged, First, c
  <2>2. c.user \in Pokemon /\ c.on \in Pokemon /\ c.move \in AllMoves /\ c.at \in Nat \ {0}
    BY <1>2, <2>1, CallFields
  <2> DEFINE list == effects[c.on]
             more == [c EXCEPT !.at = @ + 1]
  <2>3. list \in Seq(Effect) /\ Len(list) \in Nat
    BY <2>2, LenProperties DEF EffectsTypeOK
  <2>4. <<more>> \in Seq(Calling)
    <3>1. more \in Calling
      BY <1>2, <2>1, NextEntry
    <3> HIDE DEF more
    <3> QED
      BY <3>1
  <2>5. \/ Calls(<<>>) \/ Calls(<<more>>)
        \/ /\ c.at <= Len(list)
           /\ \E inner \in OnDamage(c.on, c.user, c.move, list[c.at]) : Calls(inner \o <<more>>)
    BY <1>7, <2>2, <2>3 DEF InformDamaged, c
  <2> HIDE DEF list, more
  <2>6. CASE c.at <= Len(list)
             /\ \E inner \in OnDamage(c.on, c.user, c.move, list[c.at]) : Calls(inner \o <<more>>)
    <3>1. list[c.at] \in Effect
      BY <2>2, <2>3, <2>6, ElementOfSeq
    <3>2. OnDamage(c.on, c.user, c.move, list[c.at]) \subseteq Seq(Calling)
      BY <2>2, <3>1, OnDamageTyped
    <3>3. PICK inner \in Seq(Calling) : Calls(inner \o <<more>>)
      BY <2>6, <3>2
    <3>4. inner \o <<more>> \in Seq(Calling)
      BY <2>4, ConcatProperties
    <3> QED
      BY <1>2, <3>3, <3>4
  <2> QED
    BY <1>2, <1>3, <2>4, <2>5, <2>6
<1>8. CASE CheckDeath
  <2>1. c.op = "checkHp"
    BY <1>8 DEF CheckDeath, First, c
  <2>2. Die(c.on) \in Calling
    BY <1>2, <2>1, CallFields, CallsTyped DEF AllMoves
  <2>3. <<Die(c.on)>> \in Seq(Calling)
    BY <2>2
  <2>4. Calls(<<>>) \/ Calls(<<Die(c.on)>>)
    BY <1>8 DEF CheckDeath, c
  <2> QED
    BY <1>2, <1>3, <2>3, <2>4
<1>9. CASE InformEffectApplied
  <2>1. c.op = "informEffectApplied"
    BY <1>9 DEF InformEffectApplied, First, c
  <2>2. c.inducer \in Pokemon /\ c.kind \in Caught
    BY <1>2, <2>1, CallFields
  <2> DEFINE more == [c EXCEPT !.at = @ + 1]
             back == Apply(c.inducer, c.inducer, c.kind)
  <2>3. more \in Calling /\ back \in Calling
    BY <1>2, <2>1, <2>2, NextEntry, CallsTyped DEF AllMoves
  <2>4. <<more>> \in Seq(Calling) /\ <<back>> \o <<more>> \in Seq(Calling)
        /\ <<>> \o <<more>> \in Seq(Calling)
    <3> HIDE DEF more, back
    <3>1. <<more>> \in Seq(Calling) /\ <<back>> \in Seq(Calling)
      BY <2>3
    <3> QED
      BY <1>3, <3>1, ConcatProperties
  <2>5. \/ Calls(<<>>) \/ Calls(<<more>>)
        \/ Calls(OnApplied(c.on, c.inducer, c.kind, effects[c.on][c.at]) \o <<more>>)
    BY <1>9 DEF InformEffectApplied, c
  <2>6. \/ OnApplied(c.on, c.inducer, c.kind, effects[c.on][c.at]) = <<>>
        \/ OnApplied(c.on, c.inducer, c.kind, effects[c.on][c.at]) = <<back>>
    BY DEF OnApplied
  <2> HIDE DEF more, back
  <2> QED
    BY <1>2, <1>3, <2>4, <2>5, <2>6
<1>10. CASE PassSticky
  <2>1. c.op = "passItem"
    BY <1>10 DEF PassSticky, First, c
  <2>2. SetItem(c.user, "StickyBarb") \in Calling /\ SetItem(c.on, None) \in Calling
    BY <1>2, <2>1, CallFields, CallsTyped DEF AllMoves
  <2>3. <<SetItem(c.user, "StickyBarb"), SetItem(c.on, None)>> \in Seq(Calling)
    BY <2>2
  <2>4. Calls(<<>>) \/ Calls(<<SetItem(c.user, "StickyBarb"), SetItem(c.on, None)>>)
    BY <1>10 DEF PassSticky, c
  <2> QED
    BY <1>2, <1>3, <2>3, <2>4
<1> QED
  BY <1>4, <1>5, <1>6, <1>7, <1>8, <1>9, <1>10 DEF Answers

LEMMA BodyStepsTyped ==
  ASSUME EffectsTypeOK, MaxHp \in Nat, ExecuteMove \/ PopExecution \/ SetHp \/ Faint
  PROVE  EffectsTypeOK'
<1> DEFINE c == Head(calls)
<1>1. calls # <<>>
  BY DEF ExecuteMove, PopExecution, SetHp, Faint, First
<1>2. c \in Calling /\ \A inner \in Seq(Calling) : Calls(inner) => calls' \in Seq(Calling)
  BY <1>1, HeadOfCalls
<1> HIDE DEF c
<1>3. <<>> \in Seq(Calling)
  BY EmptySeq
<1>4. CASE ExecuteMove
  <2>1. c.op = "executeMove"
    BY <1>4 DEF ExecuteMove, First, c
  <2>2. c.user \in Pokemon /\ c.on \in Pokemon /\ c.move \in AllMoves
    BY <1>2, <2>1, CallFields
  <2> DEFINE this == [user |-> c.user, move |-> c.move]
             inner == (IF c.move = "Explosion" THEN <<Die(c.user)>> ELSE <<>>)
                         \o <<Use(c.user, c.on, c.move), Pop>>
  <2>3. inner \in Seq(Calling)
    <3>1. Die(c.user) \in Calling /\ Use(c.user, c.on, c.move) \in Calling /\ Pop \in Calling
      BY <2>2, CallsTyped
    <3>2. <<Die(c.user)>> \in Seq(Calling) /\ <<Use(c.user, c.on, c.move), Pop>> \in Seq(Calling)
      BY <3>1
    <3>3. (IF c.move = "Explosion" THEN <<Die(c.user)>> ELSE <<>>) \in Seq(Calling)
      BY <1>3, <3>2
    <3> QED
      BY <3>2, <3>3, ConcatProperties
  <2>4. \/ Calls(<<>>) /\ UNCHANGED <<memory, executing>>
        \/ /\ Calls(inner)
           /\ memory' = [memory EXCEPT ![c.on] = @ \cup {c.user}]
           /\ executing' = <<this>> \o executing
    BY <1>4 DEF ExecuteMove, c
  <2>5. <<this>> \o executing \in Seq(Execution)
    <3>1. this \in Execution
      BY <2>2 DEF Execution
    <3>2. <<this>> \in Seq(Execution) /\ executing \in Seq(Execution)
      <4> HIDE DEF this
      <4> QED
        BY <3>1 DEF EffectsTypeOK
    <3> QED
      BY <3>2, ConcatProperties
  <2> HIDE DEF inner, this
  <2>6. calls' \in Seq(Calling)
    BY <1>2, <1>3, <2>3, <2>4
  <2>7. executing' \in Seq(Execution)
    BY <2>4, <2>5 DEF EffectsTypeOK
  <2>8. memory' \in [Pokemon -> SUBSET Pokemon]
    <3>1. memory \in [Pokemon -> SUBSET Pokemon]
          /\ memory[c.on] \cup {c.user} \in SUBSET Pokemon
      BY <2>2 DEF EffectsTypeOK
    <3> QED
      BY <2>2, <2>4, <3>1
  <2> QED
    BY <1>4, <2>6, <2>7, <2>8 DEF ExecuteMove, EffectsTypeOK, names, body, held, round
<1>5. CASE PopExecution
  <2>1. calls' \in Seq(Calling)
    BY <1>2, <1>3, <1>5 DEF PopExecution
  <2>2. executing' \in Seq(Execution)
    <3>1. executing' = Tail(executing) /\ executing \in Seq(Execution)
      BY <1>5 DEF PopExecution, EffectsTypeOK
    <3>2. CASE executing = <<>>
      BY <3>1, <3>2, EmptySeq DEF Tail
    <3>3. CASE executing # <<>>
      BY <3>1, <3>3, HeadTailProperties
    <3> QED
      BY <3>2, <3>3
  <2> QED
    BY <1>5, <2>1, <2>2 DEF PopExecution, EffectsTypeOK, names, body, held, round
<1>6. CASE SetHp
  <2>1. c.op = "setHp"
    BY <1>6 DEF SetHp, First, c
  <2>2. c.on \in Pokemon /\ c.loss \in Int
    BY <1>2, <2>1, CallFields
  <2> DEFINE left == IF hp[c.on] - c.loss > MaxHp THEN MaxHp ELSE hp[c.on] - c.loss
             blow == Damaged(c.on, executing[1].user, executing[1].move, 1)
             told1 == IF left < hp[c.on] /\ executing /= <<>> THEN <<blow>> ELSE <<>>
             inner == told1 \o <<CheckHp(c.on)>>
  <2>3. left \in Int
    <3>1. hp[c.on] \in Int /\ MaxHp \in Int
      BY <2>2 DEF EffectsTypeOK
    <3>2. hp[c.on] - c.loss \in Int
      BY <2>2, <3>1
    <3> QED
      BY <3>1, <3>2
  <2>4. \/ Calls(<<>>) /\ UNCHANGED hp
        \/ hp' = [hp EXCEPT ![c.on] = left] /\ Calls(inner)
    BY <1>6 DEF SetHp, c
  <2>5. inner \in Seq(Calling)
    <3>1. executing /= <<>> => executing[1] \in Execution
      <4>1. executing /= <<>> => 1 \in 1 .. Len(executing)
        BY EmptySeq DEF EffectsTypeOK
      <4> QED
        BY <4>1, ElementOfSeq DEF EffectsTypeOK
    <3>2. executing /= <<>> => blow \in Calling
      BY <2>2, <3>1, CallsTyped DEF Execution
    <3>3. executing /= <<>> => <<blow>> \in Seq(Calling)
      <4> HIDE DEF blow
      <4> QED
        BY <3>2
    <3>4. told1 \in Seq(Calling)
      <4> HIDE DEF blow, left
      <4> QED
        BY <1>3, <3>3
    <3>5. CheckHp(c.on) \in Calling
      BY <2>2, CallsTyped DEF AllMoves
    <3>6. <<CheckHp(c.on)>> \in Seq(Calling)
      BY <3>5
    <3> HIDE DEF told1
    <3> QED
      BY <3>4, <3>6, ConcatProperties
  <2> HIDE DEF left, inner
  <2>6. calls' \in Seq(Calling)
    BY <1>2, <1>3, <2>4, <2>5
  <2>7. hp' \in [Pokemon -> Int]
    BY <2>2, <2>3, <2>4 DEF EffectsTypeOK
  <2> QED
    BY <1>6, <2>6, <2>7 DEF SetHp, EffectsTypeOK, names, held, round
<1>7. CASE Faint
  <2>1. c.op = "faint"
    BY <1>7 DEF Faint, First, c
  <2>2. c.on \in Pokemon
    BY <1>2, <2>1, CallFields
  <2>3. calls' \in Seq(Calling)
    BY <1>2, <1>3, <1>7 DEF Faint
  <2>4. fainted' \in [Pokemon -> BOOLEAN]
    BY <1>7, <2>2 DEF Faint, EffectsTypeOK, c
  <2>5. hp' \in [Pokemon -> Int]
    <3>1. hp' = [hp EXCEPT ![c.on] = IF @ > 0 THEN 0 ELSE @]
      BY <1>7 DEF Faint, c
    <3>2. hp \in [Pokemon -> Int] /\ hp[c.on] \in Int
      BY <2>2 DEF EffectsTypeOK
    <3>3. (IF hp[c.on] > 0 THEN 0 ELSE hp[c.on]) \in Int
      BY <3>2
    <3> QED
      BY <2>2, <3>1, <3>2, <3>3
  <2>6. told' \in [Pokemon -> 0 .. 2]
    <3>1. told' = [told EXCEPT ![c.on] = IF @ < 2 THEN @ + 1 ELSE @]
      BY <1>7 DEF Faint, c
    <3>2. told[c.on] \in 0 .. 2
      BY <2>2 DEF EffectsTypeOK
    <3>3. (IF told[c.on] < 2 THEN told[c.on] + 1 ELSE told[c.on]) \in 0 .. 2
      BY <3>2
    <3> QED
      BY <2>2, <3>1, <3>3 DEF EffectsTypeOK
  <2>7. memory' \in [Pokemon -> SUBSET Pokemon]
    BY <1>7 DEF Faint, Forget, EffectsTypeOK
  <2> QED
    BY <1>7, <2>3, <2>4, <2>5, <2>6, <2>7 DEF Faint, EffectsTypeOK, names, held, round
<1> QED
  BY <1>4, <1>5, <1>6, <1>7

(* The list of p grows by what he catches.                                 *)
LEMMA ListsTyped ==
  ASSUME EffectsTypeOK, NEW p \in Pokemon
  PROVE  /\ effects[p] \in Seq(Effect)
         /\ \A kind \in Caught : Append(effects[p], Object(p, kind)) \in Seq(Effect)
         /\ \A i : Dispose(effects[p], i) \in Seq(Effect)
         /\ \A k : \A kind \in Possible \cup {None} :
              /\ Replaced(effects[p], Pointers(p), k, kind).list \in Seq(Effect)
              /\ Replaced(effects[p], Pointers(p), k, kind).id \in Nat
<1>1. effects[p] \in Seq(Effect) /\ ability[p] \in Nat /\ item[p] \in Nat
  BY DEF EffectsTypeOK
<1>2. ASSUME NEW kind \in Caught PROVE Append(effects[p], Object(p, kind)) \in Seq(Effect)
  <2>1. Fresh(effects[p], {ability[p], item[p]}) \in Nat
    BY <1>1, FreshId
  <2>2. kind \in Possible
    BY DEF Caught, Possible
  <2>3. Object(p, kind) \in Effect
    BY <2>1, <2>2 DEF Object, Effect, Pointers
  <2> QED
    BY <1>1, <2>3, AppendProperties
<1>3. ASSUME NEW i PROVE Dispose(effects[p], i) \in Seq(Effect)
  BY <1>1, DisposeTyped
<1>4. ASSUME NEW k, NEW kind \in Possible \cup {None}
      PROVE  /\ Replaced(effects[p], Pointers(p), k, kind).list \in Seq(Effect)
             /\ Replaced(effects[p], Pointers(p), k, kind).id \in Nat
  BY <1>1, ReplacedTyped DEF Pointers
<1> QED
  BY <1>1, <1>2, <1>3, <1>4

LEMMA EffectStepsTyped ==
  ASSUME EffectsTypeOK,
         ApplyStatus \/ ReplaceAbility \/ ReplaceItem \/ ConsumeItem
           \/ SwitchOutPokemon \/ SendOutPokemon,
         PartyOf \in [Pokemon -> {0, 1}]
  PROVE  EffectsTypeOK'
<1> DEFINE c == Head(calls)
<1>1. calls # <<>>
  BY DEF ApplyStatus, ReplaceAbility, ReplaceItem, ConsumeItem, SwitchOutPokemon,
         SendOutPokemon, First
<1>2. c \in Calling /\ \A inner \in Seq(Calling) : Calls(inner) => calls' \in Seq(Calling)
  BY <1>1, HeadOfCalls
<1> HIDE DEF c
<1>3. <<>> \in Seq(Calling)
  BY EmptySeq
<1>4. effects \in [Pokemon -> Seq(Effect)] /\ ability \in [Pokemon -> Nat]
      /\ item \in [Pokemon -> Nat] /\ effects \in [Pokemon -> Seq(Effect)]
  BY DEF EffectsTypeOK
<1>5. CASE ApplyStatus
  <2>1. c.op = "applyStatus"
    BY <1>5 DEF ApplyStatus, First, c
  <2>2. c.on \in Pokemon /\ c.inducer \in Pokemon /\ c.kind \in Caught
    BY <1>2, <2>1, CallFields, SMTT(30)
  <2>3. \/ Calls(<<>>) /\ UNCHANGED effects
        \/ /\ effects' = [effects EXCEPT ![c.on] = Append(@, Object(c.on, c.kind))]
           /\ Calls(<<Applied(c.on, c.inducer, c.kind, 1)>>)
    BY <1>5 DEF ApplyStatus, c
  <2>4. <<Applied(c.on, c.inducer, c.kind, 1)>> \in Seq(Calling)
    <3>1. Applied(c.on, c.inducer, c.kind, 1) \in Calling
      BY <2>2, CallsTyped DEF AllMoves
    <3> QED
      BY <3>1
  <2>5. Append(effects[c.on], Object(c.on, c.kind)) \in Seq(Effect)
    BY <2>2, ListsTyped
  <2>6. calls' \in Seq(Calling)
    BY <1>2, <1>3, <2>3, <2>4
  <2>7. effects' \in [Pokemon -> Seq(Effect)]
    BY <1>4, <2>2, <2>3, <2>5
  <2> QED
    BY <1>5, <2>6, <2>7 DEF ApplyStatus, EffectsTypeOK, names, body, round
<1>6. CASE ReplaceAbility
  <2>1. c.op = "setAbility"
    BY <1>6 DEF ReplaceAbility, First, c
  <2>2. c.on \in Pokemon /\ c.kind \in Possible
    BY <1>2, <2>1, CallFields DEF Possible
  <2> DEFINE r == Replaced(effects[c.on], Pointers(c.on), ability[c.on], c.kind)
  <2>3. r.list \in Seq(Effect) /\ r.id \in Nat
    BY <2>2, ListsTyped
  <2>4. effects' = [effects EXCEPT ![c.on] = r.list] /\ ability' = [ability EXCEPT ![c.on] = r.id]
    BY <1>6 DEF ReplaceAbility, c
  <2> HIDE DEF r
  <2>5. calls' \in Seq(Calling)
    BY <1>2, <1>3, <1>6 DEF ReplaceAbility
  <2>6. effects' \in [Pokemon -> Seq(Effect)] /\ ability' \in [Pokemon -> Nat]
    BY <1>4, <2>2, <2>3, <2>4
  <2> QED
    BY <1>6, <2>5, <2>6 DEF ReplaceAbility, EffectsTypeOK, names, body, round
<1>7. CASE ReplaceItem
  <2>1. c.op = "setItem"
    BY <1>7 DEF ReplaceItem, First, c
  <2>2. c.on \in Pokemon /\ c.kind \in Possible \cup {None}
    BY <1>2, <2>1, CallFields DEF Possible
  <2> DEFINE r == Replaced(effects[c.on], Pointers(c.on), item[c.on], c.kind)
  <2>3. r.list \in Seq(Effect) /\ r.id \in Nat
    BY <2>2, ListsTyped
  <2>4. effects' = [effects EXCEPT ![c.on] = r.list] /\ item' = [item EXCEPT ![c.on] = r.id]
    BY <1>7 DEF ReplaceItem, c
  <2> HIDE DEF r
  <2>5. calls' \in Seq(Calling)
    BY <1>2, <1>3, <1>7 DEF ReplaceItem
  <2>6. effects' \in [Pokemon -> Seq(Effect)] /\ item' \in [Pokemon -> Nat]
    BY <1>4, <2>2, <2>3, <2>4
  <2> QED
    BY <1>7, <2>5, <2>6 DEF ReplaceItem, EffectsTypeOK, names, body, round
<1>8. CASE ConsumeItem
  <2>1. c.op = "consume"
    BY <1>8 DEF ConsumeItem, First, c
  <2>2. c.on \in Pokemon
    BY <1>2, <2>1, CallFields
  <2>3. Dispose(effects[c.on], c.id) \in Seq(Effect)
    BY <2>2, ListsTyped
  <2>4. effects' = effects \/ effects' = [effects EXCEPT ![c.on] = Dispose(@, c.id)]
    BY <1>8 DEF ConsumeItem, c
  <2>5. calls' \in Seq(Calling)
    BY <1>2, <1>3, <1>8 DEF ConsumeItem
  <2>6. effects' \in [Pokemon -> Seq(Effect)]
    BY <1>4, <2>2, <2>3, <2>4
  <2> QED
    BY <1>8, <2>5, <2>6 DEF ConsumeItem, EffectsTypeOK, names, body, round
<1>9. CASE SwitchOutPokemon
  <2>1. c.op = "switchOut"
    BY <1>9 DEF SwitchOutPokemon, First, c
  <2>2. c.on \in Pokemon
    BY <1>2, <2>1, CallFields
  <2> DEFINE r == Replaced(Left(effects[c.on]), Pointers(c.on), ability[c.on], name[c.on])
  <2>3. r.list \in Seq(Effect) /\ r.id \in Nat
    <3>1. Left(effects[c.on]) \in Seq(Effect)
      BY <1>4, <2>2, LeftTyped
    <3>2. name[c.on] \in Possible \cup {None}
      BY <2>2 DEF EffectsTypeOK, Possible
    <3>3. ability[c.on] \in Nat /\ item[c.on] \in Nat
      BY <1>4, <2>2
    <3> QED
      BY <3>1, <3>2, <3>3, ReplacedTyped DEF Pointers
  <2>4. effects' = [effects EXCEPT ![c.on] = r.list] /\ ability' = [ability EXCEPT ![c.on] = r.id]
    BY <1>9 DEF SwitchOutPokemon, c
  <2> HIDE DEF r
  <2>5. calls' \in Seq(Calling)
    BY <1>2, <1>3, <1>9 DEF SwitchOutPokemon
  <2>6. effects' \in [Pokemon -> Seq(Effect)] /\ ability' \in [Pokemon -> Nat]
    BY <1>4, <2>2, <2>3, <2>4
  <2>7. memory' \in [Pokemon -> SUBSET Pokemon]
    <3>1. Forget(c.on) \in [Pokemon -> SUBSET Pokemon]
      BY DEF Forget, EffectsTypeOK
    <3>2. memory' = [Forget(c.on) EXCEPT ![c.on] = {}]
      BY <1>9 DEF SwitchOutPokemon, c
    <3> QED
      BY <3>1, <3>2
  <2> QED
    BY <1>9, <2>5, <2>6, <2>7 DEF SwitchOutPokemon, EffectsTypeOK, names, body, round
<1>10. CASE SendOutPokemon
  <2>1. c.op = "sendOut"
    BY <1>10 DEF SendOutPokemon, First, c
  <2>2. c.on \in Pokemon
    BY <1>2, <2>1, CallFields
  <2>3. calls' \in Seq(Calling)
    BY <1>2, <1>3, <1>10 DEF SendOutPokemon
  <2>4. active' \in [{0, 1} -> Pokemon]
    BY <1>10, <2>2 DEF SendOutPokemon, EffectsTypeOK, c
  <2> QED
    BY <1>10, <2>3, <2>4 DEF SendOutPokemon, EffectsTypeOK, names, body, held, round
<1> QED
  BY <1>5, <1>6, <1>7, <1>8, <1>9, <1>10

LEMMA TurnStepsTyped ==
  ASSUME EffectsTypeOK, EffectsAssumption,
         \/ \E p \in Pokemon : Act(p) \/ Replace(p)
         \/ BeginTick \/ Tick \/ EndTick \/ NextTurn
  PROVE  EffectsTypeOK'
<1>1. /\ effects \in [Pokemon -> Seq(Effect)] /\ active \in [{0, 1} -> Pokemon]
      /\ calls \in Seq(Calling) /\ todo \subseteq Pokemon
      /\ ticks \subseteq [on : Pokemon, id : Nat, kind : Possible]
  BY DEF EffectsTypeOK
<1>2. PartyOf \in [Pokemon -> {0, 1}] /\ Moves \subseteq AllMoves
  BY Zenon DEF EffectsAssumption
<1>3. <<>> \in Seq(Calling)
  BY EmptySeq
<1>4. ASSUME NEW p \in Pokemon, Act(p) PROVE EffectsTypeOK'
  <2>1. Foe(p) \in Pokemon
    <3>1. 1 - PartyOf[p] \in {0, 1}
      BY <1>2
    <3> QED
      BY <1>1, <3>1 DEF Foe
  <2>2. ASSUME NEW m \in Moves PROVE <<Execute(p, Foe(p), m)>> \in Seq(Calling)
    <3>1. Execute(p, Foe(p), m) \in Calling
      BY <1>2, <2>1, CallsTyped
    <3> QED
      BY <3>1
  <2>3. ASSUME NEW q \in Reserves(PartyOf[p])
        PROVE  <<SwitchOut(p), SendOut(q)>> \in Seq(Calling)
    <3>1. SwitchOut(p) \in Calling /\ SendOut(q) \in Calling
      BY CallsTyped, ReservesAre DEF AllMoves
    <3> QED
      BY <3>1
  <2>4. \/ calls' = calls
        \/ \E m \in Moves : calls' = <<Execute(p, Foe(p), m)>>
        \/ \E q \in Reserves(PartyOf[p]) : calls' = <<SwitchOut(p), SendOut(q)>>
    BY <1>4 DEF Act
  <2>5. calls' \in Seq(Calling)
    <3>1. CASE calls' = calls
      BY <1>1, <3>1
    <3>2. CASE \E m \in Moves : calls' = <<Execute(p, Foe(p), m)>>
      BY <2>2, <3>2
    <3>3. CASE \E q \in Reserves(PartyOf[p]) : calls' = <<SwitchOut(p), SendOut(q)>>
      BY <2>3, <3>3
    <3> QED
      BY <2>4, <3>1, <3>2, <3>3
  <2>6. todo' \subseteq Pokemon
    BY <1>1, <1>4 DEF Act
  <2> QED
    BY <1>4, <2>5, <2>6 DEF Act, EffectsTypeOK, names, body, held
<1>5. ASSUME NEW q \in Pokemon, Replace(q) PROVE EffectsTypeOK'
  <2>1. SendOut(q) \in Calling
    BY CallsTyped DEF AllMoves
  <2>2. calls' \in Seq(Calling)
    BY <1>5, <2>1 DEF Replace
  <2> QED
    BY <1>5, <2>2 DEF Replace, EffectsTypeOK, names, body, held, round
<1>6. CASE BeginTick
  <2> DEFINE ticking(p) == {x \in ToSet(effects[p]) : x.kind \in Ticking /\ IsActive(effects[p], x)}
             of(p) == {[on |-> p, id |-> e.id, kind |-> e.kind] : e \in ticking(p)}
  <2>1. ASSUME NEW p \in Pokemon
        PROVE  of(p) \subseteq [on : Pokemon, id : Nat, kind : Possible]
    <3>1. effects[p] \in Seq(Effect)
      BY <1>1
    <3>2. ToSet(effects[p]) \subseteq Effect
      BY <3>1, LenProperties DEF ToSet
    <3> QED
      BY <3>2 DEF Effect
  <2>2. ticks' = UNION {of(p) : p \in {q \in Pokemon : OnField(q) /\ ~fainted[q]}}
    BY <1>6 DEF BeginTick
  <2> HIDE DEF of
  <2>3. ticks' \subseteq [on : Pokemon, id : Nat, kind : Possible]
    BY <2>1, <2>2
  <2> QED
    BY <1>6, <2>3 DEF BeginTick, EffectsTypeOK, names, body, held
<1>7. CASE Tick
  <2>1. PICK t \in ticks :
          /\ ticks' = ticks \ {t}
          /\ \/ /\ \E i : effects' = [effects EXCEPT ![t.on] = Dispose(@, i)]
                /\ calls' = calls
             \/ /\ calls' = <<Hurt(t.on, 1)>> \/ calls' = <<>>
                /\ effects' = effects
    BY <1>7 DEF Tick
  <2>2. t.on \in Pokemon
    BY <1>1
  <2>3. \A i : Dispose(effects[t.on], i) \in Seq(Effect)
    BY <2>2, ListsTyped
  <2>4. <<Hurt(t.on, 1)>> \in Seq(Calling)
    <3>1. Hurt(t.on, 1) \in Calling
      BY <2>2, CallsTyped DEF AllMoves
    <3> QED
      BY <3>1
  <2>5. calls' \in {calls, <<Hurt(t.on, 1)>>, <<>>}
    BY <2>1
  <2>6. calls' \in Seq(Calling)
    BY <1>1, <1>3, <2>4, <2>5
  <2>7. effects' = effects \/ \E i : effects' = [effects EXCEPT ![t.on] = Dispose(@, i)]
    BY <2>1
  <2>8. effects' \in [Pokemon -> Seq(Effect)]
    <3>1. ASSUME NEW i, effects' = [effects EXCEPT ![t.on] = Dispose(@, i)]
          PROVE  effects' \in [Pokemon -> Seq(Effect)]
      <4>1. Dispose(effects[t.on], i) \in Seq(Effect)
        BY <2>3
      <4> QED
        BY <1>1, <2>2, <3>1, <4>1
    <3> QED
      BY <1>1, <2>7, <3>1
  <2>9. ticks' \subseteq [on : Pokemon, id : Nat, kind : Possible]
    BY <1>1, <2>1
  <2> QED
    BY <1>7, <2>6, <2>8, <2>9 DEF Tick, EffectsTypeOK, names, body
<1>8. CASE EndTick
  <2>1. ASSUME NEW p \in Pokemon
        PROVE  (IF OnField(p) /\ ~fainted[p] THEN Unremoved(effects[p]) ELSE effects[p])
                 \in Seq(Effect)
    BY <1>1, UnremovedTyped
  <2>2. effects' \in [Pokemon -> Seq(Effect)]
    BY <1>8, <2>1 DEF EndTick
  <2> QED
    BY <1>8, <2>2 DEF EndTick, EffectsTypeOK, names, body
<1>9. CASE NextTurn
  <2>1. todo' \subseteq Pokemon
    <3>1. active[0] \in Pokemon /\ active[1] \in Pokemon
      BY <1>1
    <3> QED
      BY <1>9, <3>1 DEF NextTurn
  <2>2. turn' \in Nat
    BY <1>9 DEF NextTurn, EffectsTypeOK
  <2> QED
    BY <1>9, <2>1, <2>2 DEF NextTurn, EffectsTypeOK, names, body, held
<1> QED
  BY <1>4, <1>5, <1>6, <1>7, <1>8, <1>9

LEMMA InitTyped ==
  ASSUME EffectsAssumption, Init
  PROVE  EffectsTypeOK
<1>1. /\ Natural \subseteq [Pokemon -> Abilities]
      /\ Holdings \subseteq [Pokemon -> Items \cup {None}]
      /\ Leads \in [{0, 1} -> Pokemon]
  BY Zenon DEF EffectsAssumption
<1>2. MaxHp \in Int
  <2>1. MaxHp \in Nat \ {0}
    BY Zenon DEF EffectsAssumption
  <2> QED
    BY <2>1
<1>3. name \in [Pokemon -> Abilities] /\ itemName \in Holdings
  BY <1>1 DEF Init
<1> DEFINE own(p) == [id |-> 1, kind |-> name[p], gone |-> FALSE]
           thing(p) == [id |-> 2, kind |-> itemName[p], gone |-> FALSE]
           with(p) == IF itemName[p] = None THEN <<>> ELSE <<thing(p)>>
<1>4. ASSUME NEW p \in Pokemon PROVE <<own(p)>> \o with(p) \in Seq(Effect)
  <2>1. own(p) \in Effect
    BY <1>3 DEF Effect, Possible
  <2>2. itemName[p] # None => itemName[p] \in Carried
    BY <1>1, <1>3 DEF Carried
  <2>3. itemName[p] # None => thing(p) \in Effect
    BY <2>2 DEF Effect, Possible
  <2> HIDE DEF own, thing
  <2>4. <<own(p)>> \in Seq(Effect)
    BY <2>1
  <2>5. with(p) \in Seq(Effect)
    BY <2>3, EmptySeq
  <2> HIDE DEF with
  <2> QED
    BY <2>4, <2>5, ConcatProperties
<1>5. effects = [p \in Pokemon |-> <<own(p)>> \o with(p)]
  BY DEF Init
<1> HIDE DEF own, with
<1>6. effects \in [Pokemon -> Seq(Effect)]
  BY <1>4, <1>5
<1>7. hp \in [Pokemon -> Int] /\ told \in [Pokemon -> 0 .. 2]
  BY <1>2 DEF Init
<1>8. ability \in [Pokemon -> Nat] /\ item \in [Pokemon -> Nat]
  BY DEF Init
<1>9. fainted \in [Pokemon -> BOOLEAN] /\ memory \in [Pokemon -> SUBSET Pokemon]
      /\ active \in [{0, 1} -> Pokemon]
  BY <1>1 DEF Init
<1>10. todo \subseteq Pokemon
  BY <1>1 DEF Init
<1>11. calls \in Seq(Calling) /\ executing \in Seq(Execution)
  BY EmptySeq DEF Init
<1> QED
  BY <1>3, <1>6, <1>7, <1>8, <1>9, <1>10, <1>11 DEF Init, EffectsTypeOK

LEMMA TypesKept ==
  ASSUME EffectsTypeOK, EffectsAssumption, [Next]_vars
  PROVE  EffectsTypeOK'
<1>1. MaxHp \in Nat /\ PartyOf \in [Pokemon -> {0, 1}]
  <2>1. MaxHp \in Nat \ {0} /\ PartyOf \in [Pokemon -> {0, 1}]
    BY Zenon DEF EffectsAssumption
  <2> QED
    BY <2>1
<1>2. CASE UNCHANGED vars
  BY <1>2 DEF vars, EffectsTypeOK
<1>3. CASE Answers
  <2>1. calls' \in Seq(Calling)
    BY <1>1, <1>3, AnswersTyped
  <2>2. UNCHANGED <<names, body, held, memory, active, executing, round>>
    BY <1>3 DEF Answers, UseMove, SecondaryEffect, UTurn, InformDamaged, CheckDeath,
                InformEffectApplied, PassSticky
  <2> QED
    BY <2>1, <2>2 DEF EffectsTypeOK, names, body, held, round
<1>4. CASE ExecuteMove \/ PopExecution \/ SetHp \/ Faint
  BY <1>1, <1>4, BodyStepsTyped
<1>5. CASE ApplyStatus \/ ReplaceAbility \/ ReplaceItem \/ ConsumeItem
             \/ SwitchOutPokemon \/ SendOutPokemon
  BY <1>1, <1>5, EffectStepsTyped
<1>6. CASE \/ \E p \in Pokemon : Act(p) \/ Replace(p)
           \/ BeginTick \/ Tick \/ EndTick \/ NextTurn
  BY <1>6, TurnStepsTyped
<1> QED
  BY <1>2, <1>3, <1>4, <1>5, <1>6 DEF Next, Call, Answers

-----------------------------------------------------------------------------
(* The calls that are still to be made.  A pokemon is about to faint by    *)
(* Fatal calls; a blow that may be answered is a Strike.  What is called   *)
(* first must not disturb what waits behind it: nobody for whom a Fatal    *)
(* call waits is hurt by another, and what is hurt while one waits is the  *)
(* user of the move, whom no listener strikes back for.                    *)

Fatal(c) == c.op \in {"checkHp", "faint"}
StrikesBack(c) == c.op = "informDamaged" /\ c.on # c.user

Sound(c, ex, down) ==
    /\ Fatal(c) => ~down[c.on]
    /\ c.op = "executeMove" => ~down[c.user] /\ ex = <<>>
    /\ StrikesBack(c) => ex # <<>> /\ c.user = ex[1].user
    /\ c.op = "popExecution" => ex # <<>>

InOrder(a, b, ex) ==
    /\ a.op \notin {"executeMove", "popExecution"} /\ b.op # "executeMove"
    /\ a.op = "use" => b.op = "popExecution"
    /\ Fatal(b) /\ (Fatal(a) \/ a.op = "setHp") => a.on # b.on
    /\ Fatal(b) /\ StrikesBack(a) => a.user # b.on
    /\ Fatal(b) /\ a.op = "setHp" => ex # <<>> /\ a.on = ex[1].user

Before(a, s, ex) == \A k \in 1 .. Len(s) : InOrder(a, s[k], ex)
Stack(s, ex, down) ==
    /\ \A k \in 1 .. Len(s) : Sound(s[k], ex, down)
    /\ \A j, k \in 1 .. Len(s) : j < k => InOrder(s[j], s[k], ex)

Entries(s) == {s[k] : k \in 1 .. Len(s)}
Doomed(p, waiting) == \E c \in waiting : Fatal(c) /\ c.on = p

FaintsInOrder == Stack(calls, executing, fainted)
OnlyTheDoomedFall ==
    \A p \in Pokemon :
        /\ fainted[p] => hp[p] <= 0
        /\ ~fainted[p] /\ hp[p] <= 0 => Doomed(p, Entries(calls))
ToldWhenFainted == \A p \in Pokemon : told[p] = IF fainted[p] THEN 1 ELSE 0
OneMove ==
    executing # <<>> =>
        Len(executing) = 1 /\ \E c \in Entries(calls) : c.op = "popExecution"

FaintInv ==
    /\ EffectsTypeOK
    /\ FaintsInOrder /\ OnlyTheDoomedFall /\ ToldWhenFainted /\ OneMove

(* Sequences of calls.                                                     *)
LEMMA OneMore ==
  ASSUME NEW a \in Calling, NEW s \in Seq(Calling)
  PROVE  /\ <<a>> \o s \in Seq(Calling) /\ Len(s) \in Nat
         /\ Len(<<a>> \o s) = Len(s) + 1
         /\ (<<a>> \o s)[1] = a
         /\ \A k \in 1 .. Len(s) + 1 :
              k # 1 => k - 1 \in 1 .. Len(s) /\ (<<a>> \o s)[k] = s[k - 1]
<1>1. <<a>> \in Seq(Calling) /\ Len(<<a>>) = 1 /\ <<a>>[1] = a
  OBVIOUS
<1>2. Len(s) \in Nat
  BY LenProperties
<1> DEFINE t == <<a>>
<1>3. t \in Seq(Calling) /\ Len(t) = 1 /\ t[1] = a
  BY <1>1
<1> HIDE DEF t
<1>4. /\ t \o s \in Seq(Calling) /\ Len(t \o s) = Len(t) + Len(s)
      /\ \A i \in 1 .. Len(t) + Len(s) :
            (t \o s)[i] = IF i <= Len(t) THEN t[i] ELSE s[i - Len(t)]
  BY <1>3, ConcatProperties
<1>5. Len(t \o s) = Len(s) + 1 /\ (t \o s)[1] = a
  BY <1>2, <1>3, <1>4
<1>6. ASSUME NEW k \in 1 .. Len(s) + 1, k # 1
      PROVE  k - 1 \in 1 .. Len(s) /\ (t \o s)[k] = s[k - 1]
  BY <1>2, <1>3, <1>4, <1>6
<1> QED
  BY <1>2, <1>4, <1>5, <1>6 DEF t

LEMMA TwoMore ==
  ASSUME NEW a \in Calling, NEW b \in Calling, NEW s \in Seq(Calling)
  PROVE  <<a, b>> \o s = <<a>> \o (<<b>> \o s)
<1>1. <<a>> \in Seq(Calling) /\ <<b>> \in Seq(Calling) /\ <<a, b>> \in Seq(Calling)
  OBVIOUS
<1>2. <<a>> \o <<b>> = <<a, b>>
  <2> DEFINE t == <<a>> \o <<b>>
             u == <<a, b>>
             r == <<b>>
  <2>1. Len(r) = 1 /\ r[1] = b
    OBVIOUS
  <2>2. t \in Seq(Calling) /\ Len(t) = 2 /\ t[1] = a /\ t[2] = b
    <3> HIDE DEF r
    <3>1. /\ <<a>> \o r \in Seq(Calling) /\ Len(<<a>> \o r) = Len(r) + 1
          /\ (<<a>> \o r)[1] = a
          /\ \A k \in 1 .. Len(r) + 1 : k # 1 => (<<a>> \o r)[k] = r[k - 1]
      BY <1>1, OneMore DEF r
    <3> QED
      BY <2>1, <3>1 DEF r
  <2>3. u \in Seq(Calling) /\ Len(u) = 2 /\ u[1] = a /\ u[2] = b
    BY <1>1
  <2> HIDE DEF t, u
  <2>4. \A i \in 1 .. Len(t) : t[i] = u[i]
    BY <2>2, <2>3
  <2>5. t = u
    BY <2>2, <2>3, <2>4, SeqEqual
  <2> QED
    BY <2>5 DEF t, u
<1>3. (<<a>> \o <<b>>) \o s = <<a>> \o (<<b>> \o s)
  BY <1>1, ConcatAssociative
<1> QED
  BY <1>2, <1>3

LEMMA EntriesMore ==
  ASSUME NEW a \in Calling, NEW s \in Seq(Calling)
  PROVE  Entries(<<a>> \o s) = {a} \cup Entries(s)
<1> DEFINE t == <<a>> \o s
           n == Len(s)
<1>1. /\ n \in Nat /\ Len(t) = n + 1 /\ t[1] = a
      /\ \A k \in 1 .. n + 1 : k # 1 => k - 1 \in 1 .. n /\ t[k] = s[k - 1]
  BY OneMore
<1> HIDE DEF t, n
<1>2. \A k \in 1 .. n : k + 1 \in 1 .. n + 1 /\ t[k + 1] = s[k]
  <2>1. ASSUME NEW k \in 1 .. n PROVE k + 1 \in 1 .. n + 1 /\ t[k + 1] = s[k]
    <3>1. k + 1 \in 1 .. n + 1 /\ k + 1 # 1 /\ (k + 1) - 1 = k
      BY <1>1
    <3> QED
      BY <1>1, <3>1
  <2> QED
    BY <2>1
<1>3. Entries(t) \subseteq {a} \cup Entries(s)
  BY <1>1 DEF Entries, n
<1>4. a \in Entries(t)
  BY <1>1 DEF Entries
<1>5. Entries(s) \subseteq Entries(t)
  BY <1>1, <1>2 DEF Entries, n
<1> QED
  BY <1>3, <1>4, <1>5 DEF t

LEMMA Split ==
  ASSUME NEW s \in Seq(Calling), s # <<>>
  PROVE  Head(s) \in Calling /\ Tail(s) \in Seq(Calling) /\ s = <<Head(s)>> \o Tail(s)
<1>1. Head(s) \in Calling /\ Tail(s) \in Seq(Calling)
  BY HeadTailProperties
<1> QED
  BY <1>1

LEMMA StackTail ==
  ASSUME NEW a \in Calling, NEW s \in Seq(Calling), NEW ex, NEW down,
         Stack(<<a>> \o s, ex, down)
  PROVE  Stack(s, ex, down) /\ Sound(a, ex, down) /\ Before(a, s, ex)
<1> DEFINE t == <<a>> \o s
           n == Len(s)
<1>1. /\ n \in Nat /\ Len(t) = n + 1 /\ t[1] = a
      /\ \A k \in 1 .. n + 1 : k # 1 => k - 1 \in 1 .. n /\ t[k] = s[k - 1]
  BY OneMore
<1>2. Stack(t, ex, down)
  OBVIOUS
<1> HIDE DEF t, n
<1>3. \A k \in 1 .. n : k + 1 \in 1 .. n + 1 /\ t[k + 1] = s[k]
  <2>1. ASSUME NEW k \in 1 .. n PROVE k + 1 \in 1 .. n + 1 /\ t[k + 1] = s[k]
    <3>1. k + 1 \in 1 .. n + 1 /\ k + 1 # 1 /\ (k + 1) - 1 = k
      BY <1>1
    <3> QED
      BY <1>1, <3>1
  <2> QED
    BY <2>1
<1>4. \A k \in 1 .. n + 1 : Sound(t[k], ex, down)
  BY <1>1, <1>2 DEF Stack
<1>5. \A j, k \in 1 .. n + 1 : j < k => InOrder(t[j], t[k], ex)
  BY <1>1, <1>2 DEF Stack
<1>6. Sound(a, ex, down)
  BY <1>1, <1>4
<1>7. \A k \in 1 .. n : Sound(s[k], ex, down)
  BY <1>3, <1>4
<1>8. ASSUME NEW k \in 1 .. n PROVE InOrder(a, s[k], ex)
  <2>1. 1 \in 1 .. n + 1 /\ k + 1 \in 1 .. n + 1 /\ 1 < k + 1
    BY <1>1
  <2> QED
    BY <1>1, <1>3, <1>5, <2>1
<1>9. ASSUME NEW j \in 1 .. n, NEW k \in 1 .. n, j < k PROVE InOrder(s[j], s[k], ex)
  <2>1. j + 1 < k + 1 /\ j + 1 \in 1 .. n + 1 /\ k + 1 \in 1 .. n + 1
    BY <1>1, <1>9
  <2> QED
    BY <1>3, <1>5, <2>1
<1> QED
  BY <1>6, <1>7, <1>8, <1>9 DEF Stack, Before, n

LEMMA StackMore ==
  ASSUME NEW a \in Calling, NEW s \in Seq(Calling), NEW ex, NEW down,
         Stack(s, ex, down), Sound(a, ex, down), Before(a, s, ex)
  PROVE  Stack(<<a>> \o s, ex, down)
<1> DEFINE t == <<a>> \o s
           n == Len(s)
<1>1. /\ n \in Nat /\ Len(t) = n + 1 /\ t[1] = a
      /\ \A k \in 1 .. n + 1 : k # 1 => k - 1 \in 1 .. n /\ t[k] = s[k - 1]
  BY OneMore
<1> HIDE DEF t, n
<1>2. /\ \A k \in 1 .. n : Sound(s[k], ex, down)
      /\ \A j, k \in 1 .. n : j < k => InOrder(s[j], s[k], ex)
      /\ \A k \in 1 .. n : InOrder(a, s[k], ex)
  BY DEF Stack, Before, n
<1>3. ASSUME NEW k \in 1 .. n + 1 PROVE Sound(t[k], ex, down)
  BY <1>1, <1>2
<1>4. ASSUME NEW j \in 1 .. n + 1, NEW k \in 1 .. n + 1, j < k
      PROVE  InOrder(t[j], t[k], ex)
  <2>1. k # 1 /\ k - 1 \in 1 .. n /\ t[k] = s[k - 1]
    BY <1>1, <1>4
  <2>2. CASE j = 1
    BY <1>1, <1>2, <2>1, <2>2
  <2>3. CASE j # 1
    <3>1. j - 1 \in 1 .. n /\ t[j] = s[j - 1]
      BY <1>1, <2>3
    <3>2. j - 1 < k - 1
      BY <1>4
    <3> QED
      BY <1>2, <2>1, <3>1, <3>2
  <2> QED
    BY <2>2, <2>3
<1> QED
  BY <1>1, <1>3, <1>4 DEF Stack, t

LEMMA BeforeMore ==
  ASSUME NEW a \in Calling, NEW b \in Calling, NEW s \in Seq(Calling), NEW ex,
         InOrder(a, b, ex), Before(a, s, ex)
  PROVE  Before(a, <<b>> \o s, ex)
<1> DEFINE t == <<b>> \o s
           n == Len(s)
<1>1. /\ n \in Nat /\ Len(t) = n + 1 /\ t[1] = b
      /\ \A k \in 1 .. n + 1 : k # 1 => k - 1 \in 1 .. n /\ t[k] = s[k - 1]
  BY OneMore
<1> HIDE DEF t, n
<1>2. \A k \in 1 .. n : InOrder(a, s[k], ex)
  BY DEF Before, n
<1>3. ASSUME NEW k \in 1 .. n + 1 PROVE InOrder(a, t[k], ex)
  BY <1>1, <1>2
<1> QED
  BY <1>1, <1>3 DEF Before, t

(* t is in order, does not start a move, and all of s still waits in it.   *)
Over(t, s, ex, down) ==
    /\ t \in Seq(Calling) /\ Stack(t, ex, down)
    /\ \A k \in 1 .. Len(t) : t[k].op # "executeMove"
    /\ Entries(s) \subseteq Entries(t)

(* Calls that are sound whenever they are made.                            *)
Mild(c) ==
    c.op \in {"applyStatus", "informEffectApplied", "setAbility", "setItem", "passItem",
              "uturn", "secondary", "consume", "switchOut", "sendOut"}

LEMMA Grow ==
  ASSUME NEW a \in Calling, NEW t, NEW s, NEW ex, NEW down, Over(t, s, ex, down),
         a.op # "executeMove", Sound(a, ex, down), Before(a, t, ex)
  PROVE  Over(<<a>> \o t, s, ex, down)
<1>1. /\ t \in Seq(Calling) /\ Stack(t, ex, down)
      /\ \A k \in 1 .. Len(t) : t[k].op # "executeMove"
      /\ Entries(s) \subseteq Entries(t)
  BY DEF Over
<1> DEFINE u == <<a>> \o t
           n == Len(t)
<1>2. /\ u \in Seq(Calling) /\ n \in Nat /\ Len(u) = n + 1 /\ u[1] = a
      /\ \A k \in 1 .. n + 1 : k # 1 => k - 1 \in 1 .. n /\ u[k] = t[k - 1]
  BY <1>1, OneMore
<1>3. Stack(u, ex, down)
  BY <1>1, StackMore
<1>4. Entries(s) \subseteq Entries(u)
  BY <1>1, EntriesMore
<1>5. \A k \in 1 .. n : t[k].op # "executeMove"
  BY <1>1
<1> HIDE DEF u, n
<1>6. \A k \in 1 .. Len(u) : u[k].op # "executeMove"
  BY <1>2, <1>5
<1>7. Over(u, s, ex, down)
  BY <1>2, <1>3, <1>4, <1>6 DEF Over
<1> QED
  BY <1>7 DEF u

LEMMA GrowMild ==
  ASSUME NEW a \in Calling, NEW t, NEW s, NEW ex, NEW down, Over(t, s, ex, down), Mild(a)
  PROVE  Over(<<a>> \o t, s, ex, down)
<1>1. a.op # "executeMove" /\ Sound(a, ex, down)
  BY DEF Mild, Sound, Fatal, StrikesBack
<1>2. ASSUME NEW b, b.op # "executeMove" PROVE InOrder(a, b, ex)
  BY <1>2 DEF Mild, InOrder, Fatal, StrikesBack
<1>3. \A k \in 1 .. Len(t) : t[k].op # "executeMove"
  BY DEF Over
<1>4. Before(a, t, ex)
  BY <1>2, <1>3 DEF Before
<1> QED
  BY <1>1, <1>4, Grow

LEMMA GrowMild2 ==
  ASSUME NEW a \in Calling, NEW b \in Calling, NEW t, NEW s, NEW ex, NEW down,
         Over(t, s, ex, down), Mild(a), Mild(b)
  PROVE  Over(<<a, b>> \o t, s, ex, down)
<1>1. Over(<<b>> \o t, s, ex, down)
  BY GrowMild
<1>2. Over(<<a>> \o (<<b>> \o t), s, ex, down)
  BY <1>1, GrowMild
<1>3. t \in Seq(Calling)
  BY DEF Over
<1> QED
  BY <1>2, <1>3, TwoMore

(* The first call and those that wait behind it.                           *)
LEMMA Waiting ==
  ASSUME EffectsTypeOK, FaintsInOrder, calls # <<>>
  PROVE  /\ Head(calls) \in Calling /\ Tail(calls) \in Seq(Calling)
         /\ Entries(calls) = {Head(calls)} \cup Entries(Tail(calls))
         /\ Stack(Tail(calls), executing, fainted)
         /\ Sound(Head(calls), executing, fainted)
         /\ Before(Head(calls), Tail(calls), executing)
         /\ Over(Tail(calls), Tail(calls), executing, fainted)
         /\ \A t : t = <<>> \o Tail(calls) => t = Tail(calls)
<1> DEFINE c == Head(calls)
           rest == Tail(calls)
<1>1. c \in Calling /\ rest \in Seq(Calling) /\ calls = <<c>> \o rest
  BY Split DEF EffectsTypeOK
<1> HIDE DEF c, rest
<1>2. Stack(rest, executing, fainted) /\ Sound(c, executing, fainted)
      /\ Before(c, rest, executing)
  BY <1>1, StackTail DEF FaintsInOrder
<1>3. Entries(calls) = {c} \cup Entries(rest)
  BY <1>1, EntriesMore
<1>4. \A k \in 1 .. Len(rest) : rest[k].op # "executeMove"
  BY <1>2 DEF Before, InOrder
<1>5. Over(rest, rest, executing, fainted)
  BY <1>1, <1>2, <1>4 DEF Over
<1>6. <<>> \o rest = rest
  BY <1>1, ConcatEmptySeq
<1> QED
  BY <1>1, <1>2, <1>3, <1>5, <1>6 DEF c, rest

(* Nobody holds an Enigma Berry, which heals a pokemon between the blow    *)
(* and the question whether he faints.                                     *)
NoEnigma == \A h \in Holdings : \A p \in Pokemon : h[p] # "EnigmaBerry"

LEMMA NoBerry ==
  ASSUME NoEnigma, NEW e \in Effect
  PROVE  e.kind # "EnigmaBerry"
<1>1. "EnigmaBerry" \notin Carried
  BY DEF NoEnigma, Carried
<1>2. "EnigmaBerry" \notin Possible
  BY <1>1 DEF Possible, Abilities, Statuses
<1> QED
  BY <1>2 DEF Effect

LEMMA HurtIn ==
  ASSUME NEW p \in Pokemon, NEW n \in Int, NEW ex, NEW down
  PROVE  /\ Hurt(p, n) \in Calling /\ Hurt(p, n).op = "setHp" /\ Hurt(p, n).on = p
         /\ Sound(Hurt(p, n), ex, down)
<1>1. Hurt(p, n) \in Calling
  BY CallsTyped DEF AllMoves
<1> QED
  BY <1>1 DEF Hurt, Sound, Fatal, StrikesBack

LEMMA DamageInOrder ==
  ASSUME EffectsTypeOK, FaintsInOrder, NoEnigma, InformDamaged
  PROVE  Over(calls', Tail(calls), executing, fainted)
<1> DEFINE c == Head(calls)
           rest == Tail(calls)
           more == [c EXCEPT !.at = @ + 1]
<1>1. calls # <<>> /\ c.op = "informDamaged"
  BY DEF InformDamaged, First
<1>2. /\ c \in Calling /\ rest \in Seq(Calling)
      /\ Sound(c, executing, fainted) /\ Before(c, rest, executing)
      /\ Over(rest, rest, executing, fainted)
      /\ \A t : t = <<>> \o rest => t = rest
  BY <1>1, Waiting
<1>3. c.user \in Pokemon /\ c.on \in Pokemon /\ c.move \in AllMoves /\ c.at \in Nat \ {0}
  BY <1>1, <1>2, CallFields
<1>4. more \in Calling
  BY <1>1, <1>2, NextEntry
<1>5. more.op = "informDamaged" /\ more.on = c.on /\ more.user = c.user
  BY <1>1, <1>2 DEF Calling
<1> DEFINE list == effects[c.on]
           e == list[c.at]
<1>6. list \in Seq(Effect) /\ Len(list) \in Nat
  BY <1>3, LenProperties DEF EffectsTypeOK
<1>7. \/ calls' = <<>> \o rest
      \/ calls' = <<more>> \o rest
      \/ /\ c.at <= Len(list)
         /\ \E inner \in OnDamage(c.on, c.user, c.move, e) : calls' = (inner \o <<more>>) \o rest
  <2>1. IF c.at > Len(list) THEN calls' = <<>> \o rest
        ELSE IF ~IsActive(list, e) THEN calls' = <<more>> \o rest
        ELSE \E inner \in OnDamage(c.on, c.user, c.move, e) : calls' = (inner \o <<more>>) \o rest
    BY DEF InformDamaged, Calls
  <2> HIDE DEF c, rest, more, list, e
  <2>2. c.at > Len(list) \/ c.at <= Len(list)
    BY <1>3, <1>6
  <2> QED
    BY <2>1, <2>2
<1> HIDE DEF c, rest, more, list, e
<1> DEFINE t == <<more>> \o rest
<1>8. Over(t, rest, executing, fainted)
  <2>1. Sound(more, executing, fainted)
    BY <1>1, <1>2, <1>5 DEF Sound, Fatal, StrikesBack
  <2>2. ASSUME NEW b, InOrder(c, b, executing) PROVE InOrder(more, b, executing)
    BY <1>1, <1>5, <2>2 DEF InOrder, Fatal, StrikesBack
  <2>3. Before(more, rest, executing)
    BY <1>2, <2>2 DEF Before
  <2> QED
    BY <1>2, <1>4, <1>5, <2>1, <2>3, Grow
<1> HIDE DEF t
<1>9. CASE /\ c.at <= Len(list)
           /\ \E inner \in OnDamage(c.on, c.user, c.move, e) : calls' = (inner \o <<more>>) \o rest
  <2>1. e \in Effect
    BY <1>3, <1>6, <1>9, ElementOfSeq DEF e
  <2>2. e.kind # "EnigmaBerry"
    BY <2>1, NoBerry
  <2>3. PICK inner \in OnDamage(c.on, c.user, c.move, e) : calls' = (inner \o <<more>>) \o rest
    BY <1>9
  <2>4. inner \in Seq(Calling) /\ <<more>> \in Seq(Calling)
    BY <1>3, <1>4, <2>1, OnDamageTyped
  <2>5. calls' = inner \o t
    BY <1>2, <2>3, <2>4, ConcatAssociative DEF t
  <2> DEFINE Blow == Hurt(c.user, 1)
             Slow == Apply(c.user, c.on, "Paralysis")
             Pass == PassItem(c.on, c.user)
             Eat == Consume(c.on, e.id)
  <2>6. /\ inner \in {<<>>, <<Blow>>, <<Slow>>, <<Blow, Pass>>, <<Blow, Eat>>}
        /\ c.on = c.user => inner = <<>>
    BY <2>2, <2>3 DEF OnDamage
  <2>7. Blow \in Calling /\ Blow.op = "setHp" /\ Blow.on = c.user
        /\ Sound(Blow, executing, fainted)
    BY <1>3, HurtIn
  <2>8. Slow \in Calling /\ Pass \in Calling /\ Eat \in Calling
    BY <1>3, <2>1, CallsTyped DEF Effect, Caught, Statuses
  <2>9. Mild(Slow) /\ Mild(Pass) /\ Mild(Eat)
    BY DEF Mild, Apply, PassItem, Consume
  <2> HIDE DEF Blow, Slow, Pass, Eat
  <2>10. CASE inner = <<>>
    <3>1. t \in Seq(Calling)
      BY <1>8 DEF Over
    <3>2. calls' = t
      BY <2>5, <2>10, <3>1, ConcatEmptySeq
    <3> QED
      BY <1>8, <3>2 DEF rest
  <2>11. CASE inner # <<>>
    <3>1. StrikesBack(c)
      BY <1>1, <2>6, <2>11 DEF StrikesBack
    <3>2. executing # <<>> /\ c.user = executing[1].user
      BY <1>2, <3>1 DEF Sound
    <3>3. InOrder(Blow, more, executing)
      BY <1>5, <2>7 DEF InOrder, Fatal, StrikesBack
    <3>4. ASSUME NEW b, InOrder(c, b, executing) PROVE InOrder(Blow, b, executing)
      BY <1>1, <2>7, <3>1, <3>2, <3>4 DEF InOrder, Fatal, StrikesBack
    <3>5. Before(Blow, rest, executing)
      BY <1>2, <3>4 DEF Before
    <3>6. Before(Blow, t, executing)
      BY <1>2, <1>4, <2>7, <3>3, <3>5, BeforeMore DEF t
    <3>7. t \in Seq(Calling)
      BY <1>8 DEF Over
    <3>8. CASE inner = <<Slow>>
      BY <1>8, <2>5, <2>8, <2>9, <3>8, GrowMild DEF rest
    <3>9. CASE inner = <<Blow>>
      BY <1>8, <2>5, <2>7, <3>6, <3>9, Grow DEF rest
    <3>10. ASSUME NEW b \in {Pass, Eat} PROVE Over(<<Blow, b>> \o t, rest, executing, fainted)
      <4>1. b \in Calling /\ Mild(b)
        BY <2>8, <2>9
      <4>2. Over(<<b>> \o t, rest, executing, fainted)
        BY <1>8, <4>1, GrowMild
      <4>3. InOrder(Blow, b, executing)
        BY <2>7, <4>1 DEF InOrder, Fatal, StrikesBack, Mild
      <4>4. Before(Blow, <<b>> \o t, executing)
        BY <2>7, <3>6, <3>7, <4>1, <4>3, BeforeMore
      <4>5. Over(<<Blow>> \o (<<b>> \o t), rest, executing, fainted)
        BY <2>7, <4>2, <4>4, Grow
      <4> QED
        BY <2>7, <3>7, <4>1, <4>5, TwoMore
    <3>11. CASE inner \in {<<Blow, Pass>>, <<Blow, Eat>>}
      BY <2>5, <3>10, <3>11 DEF rest
    <3> QED
      BY <2>6, <2>11, <3>8, <3>9, <3>11
  <2> QED
    BY <2>10, <2>11
<1>10. CASE calls' = <<>> \o rest
  <2>1. calls' = rest
    BY <1>2, <1>10
  <2> QED
    BY <1>2, <2>1 DEF rest
<1>11. CASE calls' = t
  BY <1>8, <1>11 DEF rest
<1> QED
  BY <1>7, <1>9, <1>10, <1>11 DEF t

LEMMA OutcomesAre ==
  ASSUME NEW p \in Pokemon, NEW user \in Pokemon, NEW move \in AllMoves, MaxHp \in Nat,
         NEW inner \in Outcomes(user, p, move)
  PROVE  \/ inner = <<>>
         \/ \E a \in Calling : Mild(a) /\ inner = <<a>>
         \/ \E a, b \in Calling : Mild(a) /\ Mild(b) /\ inner = <<a, b>>
         \/ \E n \in Int : inner = <<Hurt(p, n)>>
         \/ \E n \in Int, b \in Calling : Mild(b) /\ inner = <<Hurt(p, n), b>>
<1>1. Damage \subseteq Int
  BY DEF Damage
<1>2. CASE move \in {"Tackle", "Explosion"}
  BY <1>1, <1>2 DEF Outcomes
<1>3. CASE move = "PoisonJab"
  <2>1. PICK n \in Damage : inner = <<Hurt(p, n), Secondary(p, user, "Poison")>>
    BY <1>3 DEF Outcomes
  <2>2. Secondary(p, user, "Poison") \in Calling
    BY CallsTyped DEF Statuses
  <2>3. Mild(Secondary(p, user, "Poison"))
    BY DEF Mild, Secondary
  <2> QED
    BY <1>1, <2>1, <2>2, <2>3
<1>4. CASE move = "UTurn"
  <2>1. PICK n \in Damage : inner = <<Hurt(p, n), Turn(user, p)>>
    BY <1>4 DEF Outcomes
  <2>2. Turn(user, p) \in Calling
    BY CallsTyped
  <2>3. Mild(Turn(user, p))
    BY DEF Mild, Turn
  <2> QED
    BY <1>1, <2>1, <2>2, <2>3
<1>5. CASE move = "Roar"
  <2>1. inner = <<>> \/ \E q \in Reserves(PartyOf[p]) : inner = <<SwitchOut(p), SendOut(q)>>
    BY <1>5 DEF Outcomes
  <2>2. ASSUME NEW q \in Reserves(PartyOf[p]), inner = <<SwitchOut(p), SendOut(q)>>
        PROVE  \E a, b \in Calling : Mild(a) /\ Mild(b) /\ inner = <<a, b>>
    <3>1. SwitchOut(p) \in Calling /\ SendOut(q) \in Calling
      BY CallsTyped, ReservesAre
    <3>2. Mild(SwitchOut(p)) /\ Mild(SendOut(q))
      BY DEF Mild, SwitchOut, SendOut
    <3> QED
      BY <2>2, <3>1, <3>2
  <2> QED
    BY <2>1, <2>2
<1>6. CASE move = "WorrySeed"
  <2>1. inner = <<SetAbility(p, "Insomnia")>>
    BY <1>6 DEF Outcomes
  <2>2. SetAbility(p, "Insomnia") \in Calling
    BY CallsTyped DEF Abilities
  <2>3. Mild(SetAbility(p, "Insomnia"))
    BY DEF Mild, SetAbility
  <2> QED
    BY <2>1, <2>2, <2>3
<1>7. CASE move = "GastroAcid"
  <2>1. inner = <<Apply(p, user, "GastroAcid")>>
    BY <1>7 DEF Outcomes
  <2>2. Apply(p, user, "GastroAcid") \in Calling
    BY CallsTyped DEF Caught
  <2>3. Mild(Apply(p, user, "GastroAcid"))
    BY DEF Mild, Apply
  <2> QED
    BY <2>1, <2>2, <2>3
<1> QED
  BY <1>2, <1>3, <1>4, <1>5, <1>6, <1>7 DEF AllMoves

LEMMA UseInOrder ==
  ASSUME EffectsTypeOK, FaintsInOrder, MaxHp \in Nat, UseMove
  PROVE  Over(calls', Tail(calls), executing, fainted)
<1> DEFINE c == Head(calls)
           rest == Tail(calls)
<1>1. calls # <<>> /\ c.op = "use"
  BY DEF UseMove, First
<1>2. /\ c \in Calling /\ rest \in Seq(Calling) /\ Before(c, rest, executing)
      /\ Over(rest, rest, executing, fainted)
      /\ \A t : t = <<>> \o rest => t = rest
  BY <1>1, Waiting
<1>3. c.user \in Pokemon /\ c.on \in Pokemon /\ c.move \in AllMoves
  BY <1>1, <1>2, CallFields
<1>4. PICK inner \in Outcomes(c.user, c.on, c.move) \cup {<<>>} : calls' = inner \o rest
  BY DEF UseMove, Calls
<1>5. \A k \in 1 .. Len(rest) : rest[k].op = "popExecution"
  BY <1>1, <1>2 DEF Before, InOrder
<1> HIDE DEF c, rest
<1>6. \/ inner = <<>>
      \/ \E a \in Calling : Mild(a) /\ inner = <<a>>
      \/ \E a, b \in Calling : Mild(a) /\ Mild(b) /\ inner = <<a, b>>
      \/ \E n \in Int : inner = <<Hurt(c.on, n)>>
      \/ \E n \in Int, b \in Calling : Mild(b) /\ inner = <<Hurt(c.on, n), b>>
  BY <1>3, <1>4, OutcomesAre
<1>7. ASSUME NEW n \in Int
      PROVE  /\ Hurt(c.on, n) \in Calling /\ Hurt(c.on, n).op = "setHp"
             /\ Sound(Hurt(c.on, n), executing, fainted)
             /\ Before(Hurt(c.on, n), rest, executing)
  <2>1. Hurt(c.on, n) \in Calling /\ Hurt(c.on, n).op = "setHp"
        /\ Sound(Hurt(c.on, n), executing, fainted)
    BY <1>3, HurtIn
  <2>2. Before(Hurt(c.on, n), rest, executing)
    BY <1>5, <2>1 DEF Before, InOrder, Fatal, StrikesBack
  <2> QED
    BY <2>1, <2>2
<1>8. CASE inner = <<>>
  <2>1. calls' = rest
    BY <1>2, <1>4, <1>8
  <2> QED
    BY <1>2, <2>1 DEF rest
<1>9. CASE \E a \in Calling : Mild(a) /\ inner = <<a>>
  BY <1>2, <1>4, <1>9, GrowMild DEF rest
<1>10. CASE \E a, b \in Calling : Mild(a) /\ Mild(b) /\ inner = <<a, b>>
  BY <1>2, <1>4, <1>10, GrowMild2 DEF rest
<1>11. CASE \E n \in Int : inner = <<Hurt(c.on, n)>>
  <2>1. PICK n \in Int : inner = <<Hurt(c.on, n)>>
    BY <1>11
  <2> DEFINE a == Hurt(c.on, n)
  <2>2. a \in Calling /\ a.op # "executeMove" /\ Sound(a, executing, fainted)
        /\ Before(a, rest, executing)
    BY <1>7
  <2> HIDE DEF a
  <2>3. Over(<<a>> \o rest, rest, executing, fainted)
    BY <1>2, <2>2, Grow
  <2> QED
    BY <1>4, <2>1, <2>3 DEF rest, a
<1>12. CASE \E n \in Int, b \in Calling : Mild(b) /\ inner = <<Hurt(c.on, n), b>>
  <2>1. PICK n \in Int, b \in Calling : Mild(b) /\ inner = <<Hurt(c.on, n), b>>
    BY <1>12
  <2> DEFINE a == Hurt(c.on, n)
  <2>2. a \in Calling /\ a.op = "setHp" /\ Sound(a, executing, fainted)
        /\ Before(a, rest, executing)
    BY <1>7
  <2> HIDE DEF a
  <2>3. Over(<<b>> \o rest, rest, executing, fainted)
    BY <1>2, <2>1, GrowMild
  <2>4. InOrder(a, b, executing)
    BY <2>1, <2>2 DEF InOrder, Mild, Fatal, StrikesBack
  <2>5. Before(a, <<b>> \o rest, executing)
    BY <1>2, <2>2, <2>4, BeforeMore
  <2>6. Over(<<a>> \o (<<b>> \o rest), rest, executing, fainted)
    BY <2>2, <2>3, <2>5, Grow
  <2>7. calls' = <<a>> \o (<<b>> \o rest)
    BY <1>2, <1>4, <2>1, <2>2, TwoMore DEF a
  <2> QED
    BY <2>6, <2>7 DEF rest
<1> QED
  BY <1>6, <1>8, <1>9, <1>10, <1>11, <1>12

(* A pokemon without health that was to be looked at is to faint.          *)
LEMMA DeathInOrder ==
  ASSUME EffectsTypeOK, FaintsInOrder, CheckDeath
  PROVE  /\ Over(calls', Tail(calls), executing, fainted)
         /\ hp[Head(calls).on] <= 0 => Doomed(Head(calls).on, Entries(calls'))
<1> DEFINE c == Head(calls)
           rest == Tail(calls)
           die == Die(c.on)
<1>1. calls # <<>> /\ c.op = "checkHp"
  BY DEF CheckDeath, First
<1>2. /\ c \in Calling /\ rest \in Seq(Calling)
      /\ Sound(c, executing, fainted) /\ Before(c, rest, executing)
      /\ Over(rest, rest, executing, fainted)
      /\ \A t : t = <<>> \o rest => t = rest
  BY <1>1, Waiting
<1>3. c.on \in Pokemon
  BY <1>1, <1>2, CallFields
<1>4. die \in Calling
  BY <1>3, CallsTyped DEF AllMoves
<1>5. die.op = "faint" /\ die.on = c.on
  BY DEF Die
<1>6. calls' = IF hp[c.on] <= 0 THEN <<die>> \o rest ELSE <<>> \o rest
  BY DEF CheckDeath, Calls
<1> HIDE DEF c, rest, die
<1>7. Over(<<die>> \o rest, rest, executing, fainted)
  <2>1. Sound(die, executing, fainted)
    BY <1>1, <1>2, <1>5 DEF Sound, Fatal, StrikesBack
  <2>2. ASSUME NEW b, InOrder(c, b, executing) PROVE InOrder(die, b, executing)
    BY <1>1, <1>5, <2>2 DEF InOrder, Fatal, StrikesBack
  <2>3. Before(die, rest, executing)
    BY <1>2, <2>2 DEF Before
  <2> QED
    BY <1>2, <1>4, <1>5, <2>1, <2>3, Grow
<1>8. die \in Entries(<<die>> \o rest)
  BY <1>2, <1>4, EntriesMore
<1>9. CASE hp[c.on] <= 0
  <2>1. calls' = <<die>> \o rest
    BY <1>6, <1>9
  <2>2. Doomed(c.on, Entries(calls'))
    BY <1>5, <1>8, <2>1 DEF Doomed, Fatal
  <2>3. Over(calls', rest, executing, fainted)
    BY <1>7, <2>1
  <2> QED
    BY <2>2, <2>3 DEF c, rest
<1>10. CASE ~(hp[c.on] <= 0)
  <2>1. calls' = rest
    BY <1>2, <1>6, <1>10
  <2> QED
    BY <1>2, <1>10, <2>1 DEF c, rest
<1> QED
  BY <1>9, <1>10

(* The other answers are mild.                                             *)
LEMMA MildInOrder ==
  ASSUME EffectsTypeOK, FaintsInOrder,
         SecondaryEffect \/ UTurn \/ InformEffectApplied \/ PassSticky
  PROVE  Over(calls', Tail(calls), executing, fainted)
<1> DEFINE c == Head(calls)
           rest == Tail(calls)
<1>1. calls # <<>>
  BY DEF SecondaryEffect, UTurn, InformEffectApplied, PassSticky, First
<1>2. /\ c \in Calling /\ rest \in Seq(Calling)
      /\ Over(rest, rest, executing, fainted)
      /\ \A t : t = <<>> \o rest => t = rest
  BY <1>1, Waiting
<1> HIDE DEF c, rest
<1>3. CASE calls' = <<>> \o rest
  <2>1. calls' = rest
    BY <1>2, <1>3
  <2> QED
    BY <1>2, <2>1 DEF rest
<1>4. CASE \E a \in Calling : Mild(a) /\ calls' = <<a>> \o rest
  BY <1>2, <1>4, GrowMild DEF rest
<1>5. CASE \E a, b \in Calling : Mild(a) /\ Mild(b) /\ calls' = <<a, b>> \o rest
  BY <1>2, <1>5, GrowMild2 DEF rest
<1>6. CASE SecondaryEffect
  <2> DEFINE a == Apply(c.on, c.user, c.kind)
  <2>1. c.op = "secondary"
    BY <1>6 DEF SecondaryEffect, First, c
  <2>2. c.on \in Pokemon /\ c.user \in Pokemon /\ c.kind \in Caught
    BY <1>2, <2>1, CallFields DEF Caught
  <2>3. a \in Calling
    BY <2>2, CallsTyped DEF AllMoves
  <2>4. Mild(a)
    BY DEF Mild, Apply
  <2>5. calls' = <<>> \o rest \/ calls' = <<a>> \o rest
    BY <1>6 DEF SecondaryEffect, Calls, c, rest
  <2> QED
    BY <1>3, <1>4, <2>3, <2>4, <2>5
<1>7. CASE UTurn
  <2>1. c.op = "uturn"
    BY <1>7 DEF UTurn, First, c
  <2>2. c.user \in Pokemon
    BY <1>2, <2>1, CallFields
  <2>3. \/ calls' = <<>> \o rest
        \/ \E q \in Reserves(PartyOf[c.user]) : calls' = <<SwitchOut(c.user), SendOut(q)>> \o rest
    BY <1>7 DEF UTurn, Calls, c, rest
  <2>4. ASSUME NEW q \in Reserves(PartyOf[c.user])
        PROVE  /\ SwitchOut(c.user) \in Calling /\ SendOut(q) \in Calling
               /\ Mild(SwitchOut(c.user)) /\ Mild(SendOut(q))
    <3>1. SwitchOut(c.user) \in Calling /\ SendOut(q) \in Calling
      BY <2>2, CallsTyped, ReservesAre DEF AllMoves
    <3>2. Mild(SwitchOut(c.user)) /\ Mild(SendOut(q))
      BY DEF Mild, SwitchOut, SendOut
    <3> QED
      BY <3>1, <3>2
  <2> QED
    BY <1>3, <1>5, <2>3, <2>4
<1>8. CASE InformEffectApplied
  <2>1. c.op = "informEffectApplied"
    BY <1>8 DEF InformEffectApplied, First, c
  <2>2. c.inducer \in Pokemon /\ c.kind \in Caught
    BY <1>2, <2>1, CallFields
  <2> DEFINE more == [c EXCEPT !.at = @ + 1]
             back == Apply(c.inducer, c.inducer, c.kind)
  <2>3. more \in Calling /\ back \in Calling
    BY <1>2, <2>1, <2>2, NextEntry, CallsTyped DEF AllMoves
  <2>4. Mild(more) /\ Mild(back)
    <3>1. more.op = "informEffectApplied" /\ back.op = "applyStatus"
      BY <1>2, <2>1, SMTT(30) DEF Calling, Apply
    <3> QED
      BY <3>1 DEF Mild
  <2>5. \/ calls' = <<>> \o rest \/ calls' = <<more>> \o rest
        \/ calls' = (OnApplied(c.on, c.inducer, c.kind, effects[c.on][c.at]) \o <<more>>) \o rest
    BY <1>8, Zenon DEF InformEffectApplied, Calls, c, rest
  <2>6. \/ OnApplied(c.on, c.inducer, c.kind, effects[c.on][c.at]) = <<>>
        \/ OnApplied(c.on, c.inducer, c.kind, effects[c.on][c.at]) = <<back>>
    BY DEF OnApplied
  <2> HIDE DEF more, back
  <2>7. <<more>> \in Seq(Calling) /\ <<back>> \in Seq(Calling)
    BY <2>3
  <2>8. <<>> \o <<more>> = <<more>>
    BY <2>7, ConcatEmptySeq
  <2>9. (<<back>> \o <<more>>) \o rest = <<back>> \o (<<more>> \o rest)
    BY <1>2, <2>7, ConcatAssociative
  <2>10. <<back, more>> \o rest = <<back>> \o (<<more>> \o rest)
    BY <1>2, <2>3, TwoMore, Zenon
  <2>11. \/ calls' = <<>> \o rest \/ calls' = <<more>> \o rest
         \/ calls' = <<back, more>> \o rest
    BY <2>5, <2>6, <2>8, <2>9, <2>10, Zenon
  <2> QED
    BY <1>3, <1>4, <1>5, <2>3, <2>4, <2>11
<1>9. CASE PassSticky
  <2> DEFINE a == SetItem(c.user, "StickyBarb")
             b == SetItem(c.on, None)
  <2>1. c.op = "passItem"
    BY <1>9 DEF PassSticky, First, c
  <2>2. a \in Calling /\ b \in Calling
    BY <1>2, <2>1, CallFields, CallsTyped DEF AllMoves
  <2>3. Mild(a) /\ Mild(b)
    BY DEF Mild, SetItem
  <2>4. calls' = <<>> \o rest \/ calls' = <<a, b>> \o rest
    BY <1>9 DEF PassSticky, Calls, c, rest
  <2> HIDE DEF a, b
  <2> QED
    BY <1>3, <1>5, <2>2, <2>3, <2>4
<1> QED
  BY <1>6, <1>7, <1>8, <1>9

-----------------------------------------------------------------------------
(* Every step keeps the invariant.                                         *)

FaintParts == FaintsInOrder /\ OnlyTheDoomedFall /\ ToldWhenFainted /\ OneMove

LEMMA OverKeeps ==
  ASSUME FaintInv, calls # <<>>, Over(calls', Tail(calls), executing, fainted),
         UNCHANGED <<hp, fainted, told, executing>>,
         Head(calls).op # "popExecution",
         Fatal(Head(calls)) /\ hp[Head(calls).on] <= 0 =>
            Doomed(Head(calls).on, Entries(calls'))
  PROVE  FaintParts'
<1>1. Entries(calls) = {Head(calls)} \cup Entries(Tail(calls))
  BY Waiting DEF FaintInv
<1>2. Stack(calls', executing, fainted) /\ Entries(Tail(calls)) \subseteq Entries(calls')
  BY DEF Over
<1>3. FaintsInOrder'
  BY <1>2 DEF FaintsInOrder
<1>4. OnlyTheDoomedFall'
  <2> SUFFICES ASSUME NEW p \in Pokemon
               PROVE  /\ fainted[p] => hp[p] <= 0
                      /\ ~fainted[p] /\ hp[p] <= 0 => Doomed(p, Entries(calls'))
    BY DEF OnlyTheDoomedFall
  <2>1. /\ fainted[p] => hp[p] <= 0
        /\ ~fainted[p] /\ hp[p] <= 0 => Doomed(p, Entries(calls))
    BY DEF FaintInv, OnlyTheDoomedFall
  <2>2. ASSUME ~fainted[p], hp[p] <= 0 PROVE Doomed(p, Entries(calls'))
    <3>1. PICK e \in Entries(calls) : Fatal(e) /\ e.on = p
      BY <2>1, <2>2 DEF Doomed
    <3>2. CASE e = Head(calls)
      BY <2>2, <3>1, <3>2
    <3>3. CASE e # Head(calls)
      <4>1. e \in Entries(calls')
        BY <1>1, <1>2, <3>1, <3>3
      <4> QED
        BY <3>1, <4>1 DEF Doomed
    <3> QED
      BY <3>2, <3>3
  <2> QED
    BY <2>1, <2>2
<1>5. ToldWhenFainted'
  BY DEF FaintInv, ToldWhenFainted
<1>6. OneMove'
  <2> SUFFICES ASSUME executing # <<>>
               PROVE  Len(executing) = 1 /\ \E e \in Entries(calls') : e.op = "popExecution"
    BY DEF OneMove
  <2>1. Len(executing) = 1 /\ \E e \in Entries(calls) : e.op = "popExecution"
    BY DEF FaintInv, OneMove
  <2> QED
    BY <1>1, <1>2, <2>1
<1> QED
  BY <1>3, <1>4, <1>5, <1>6 DEF FaintParts

LEMMA AnswersKeep ==
  ASSUME FaintInv, NoEnigma, MaxHp \in Nat, Answers
  PROVE  FaintParts'
<1>1. EffectsTypeOK /\ FaintsInOrder
  BY DEF FaintInv
<1>2. calls # <<>>
  BY DEF Answers, UseMove, SecondaryEffect, UTurn, InformDamaged, CheckDeath,
         InformEffectApplied, PassSticky, First
<1>3. UNCHANGED <<hp, fainted, told, executing>>
  BY DEF Answers, UseMove, SecondaryEffect, UTurn, InformDamaged, CheckDeath,
         InformEffectApplied, PassSticky, body
<1>4. Head(calls).op \in {"use", "secondary", "uturn", "informDamaged", "checkHp",
                          "informEffectApplied", "passItem"}
  BY DEF Answers, UseMove, SecondaryEffect, UTurn, InformDamaged, CheckDeath,
         InformEffectApplied, PassSticky, First
<1>5. Over(calls', Tail(calls), executing, fainted)
  BY <1>1, UseInOrder, DamageInOrder, DeathInOrder, MildInOrder DEF Answers
<1>6. Head(calls).op = "checkHp" => CheckDeath
  BY DEF Answers, UseMove, SecondaryEffect, UTurn, InformDamaged, CheckDeath,
         InformEffectApplied, PassSticky, First
<1>7. Fatal(Head(calls)) /\ hp[Head(calls).on] <= 0 =>
            Doomed(Head(calls).on, Entries(calls'))
  BY <1>1, <1>4, <1>6, DeathInOrder DEF Fatal
<1> QED
  BY <1>2, <1>3, <1>4, <1>5, <1>7, OverKeeps

LEMMA EffectStepsKeep ==
  ASSUME FaintInv,
         ApplyStatus \/ ReplaceAbility \/ ReplaceItem \/ ConsumeItem
           \/ SwitchOutPokemon \/ SendOutPokemon
  PROVE  FaintParts'
<1> DEFINE c == Head(calls)
           rest == Tail(calls)
           a == Applied(c.on, c.inducer, c.kind, 1)
<1>1. EffectsTypeOK /\ FaintsInOrder
  BY Zenon DEF FaintInv
<1>2. calls # <<>> /\ c.op \in {"applyStatus", "setAbility", "setItem", "consume",
                                "switchOut", "sendOut"}
  BY Zenon DEF ApplyStatus, ReplaceAbility, ReplaceItem, ConsumeItem, SwitchOutPokemon,
         SendOutPokemon, First
<1>3. UNCHANGED <<hp, fainted, told, executing>>
  BY DEF ApplyStatus, ReplaceAbility, ReplaceItem, ConsumeItem, SwitchOutPokemon,
         SendOutPokemon, body
<1>4. /\ c \in Calling /\ Over(rest, rest, executing, fainted)
      /\ \A t : t = <<>> \o rest => t = rest
  BY <1>1, <1>2, Waiting, SMTT(30)
<1>5. \/ calls' = <<>> \o rest
      \/ c.op = "applyStatus" /\ calls' = <<a>> \o rest
  BY DEF ApplyStatus, ReplaceAbility, ReplaceItem, ConsumeItem, SwitchOutPokemon,
         SendOutPokemon, Calls, First
<1>6. c.op = "applyStatus" => a \in Calling
  BY <1>4, CallFields, CallsTyped DEF AllMoves
<1>7. Mild(a)
  BY DEF Mild, Applied
<1> HIDE DEF c, rest, a
<1>8. Over(calls', rest, executing, fainted)
  <2>1. CASE calls' = <<>> \o rest
    <3>1. calls' = rest
      BY <1>4, <2>1
    <3> QED
      BY <1>4, <3>1
  <2>2. CASE c.op = "applyStatus" /\ calls' = <<a>> \o rest
    BY <1>4, <1>6, <1>7, <2>2, GrowMild
  <2> QED
    BY <1>5, <2>1, <2>2
<1>9. ~Fatal(c) /\ c.op # "popExecution"
  BY <1>2 DEF Fatal
<1> QED
  BY <1>2, <1>3, <1>8, <1>9, OverKeeps DEF c, rest

LEMMA SetHpKeeps ==
  ASSUME FaintInv, MaxHp \in Nat, SetHp
  PROVE  FaintParts'
<1> DEFINE c == Head(calls)
           rest == Tail(calls)
           p == c.on
           left == IF hp[p] - c.loss > MaxHp THEN MaxHp ELSE hp[p] - c.loss
           check == CheckHp(p)
           blow == Damaged(p, executing[1].user, executing[1].move, 1)
           inner == (IF left < hp[p] /\ executing /= <<>> THEN <<blow>> ELSE <<>>) \o <<check>>
<1>1. EffectsTypeOK /\ FaintsInOrder
  BY DEF FaintInv
<1>2. calls # <<>> /\ c.op = "setHp"
  BY DEF SetHp, First
<1>3. /\ c \in Calling /\ rest \in Seq(Calling)
      /\ Entries(calls) = {c} \cup Entries(rest)
      /\ Before(c, rest, executing)
      /\ Over(rest, rest, executing, fainted)
      /\ \A t : t = <<>> \o rest => t = rest
  BY <1>1, <1>2, Waiting
<1>4. p \in Pokemon
  BY <1>2, <1>3, CallFields
<1>5. UNCHANGED <<fainted, told, executing>>
  BY Zenon DEF SetHp
<1>6. \/ calls' = <<>> \o rest /\ hp' = hp
      \/ ~fainted[p] /\ hp' = [hp EXCEPT ![p] = left] /\ calls' = inner \o rest
  BY DEF SetHp, Calls
<1>7. check \in Calling /\ check.op = "checkHp" /\ check.on = p
  BY <1>4, CallsTyped DEF CheckHp, AllMoves
<1>8. executing # <<>> => executing[1] \in Execution
  <2>1. executing # <<>> => 1 \in 1 .. Len(executing)
    BY <1>1, EmptySeq DEF EffectsTypeOK
  <2> QED
    BY <1>1, <2>1, ElementOfSeq DEF EffectsTypeOK
<1>9. executing # <<>> => blow \in Calling
  BY <1>4, <1>8, CallsTyped DEF Execution
<1>10. blow.op = "informDamaged" /\ blow.on = p /\ blow.user = executing[1].user
  BY DEF Damaged
<1> HIDE DEF c, rest, left, check, blow
<1>11. CASE calls' = <<>> \o rest /\ hp' = hp
  <2>1. calls' = rest
    BY <1>3, <1>11
  <2>2. Over(calls', rest, executing, fainted)
    BY <1>3, <2>1
  <2>3. ~Fatal(c) /\ c.op # "popExecution"
    BY <1>2 DEF Fatal
  <2> QED
    BY <1>2, <1>5, <1>11, <2>2, <2>3, OverKeeps DEF c, rest
<1>12. CASE ~fainted[p] /\ hp' = [hp EXCEPT ![p] = left] /\ calls' = inner \o rest
  <2> DEFINE t == <<check>> \o rest
  <2>1. Over(t, rest, executing, fainted)
    <3>1. Sound(check, executing, fainted)
      BY <1>7, <1>12 DEF Sound, Fatal, StrikesBack
    <3>2. ASSUME NEW b, InOrder(c, b, executing) PROVE InOrder(check, b, executing)
      BY <1>2, <1>7, <3>2 DEF InOrder, Fatal, StrikesBack
    <3>3. Before(check, rest, executing)
      BY <1>3, <3>2 DEF Before
    <3> QED
      BY <1>3, <1>7, <3>1, <3>3, Grow
  <2>2. check \in Entries(t)
    BY <1>3, <1>7, EntriesMore
  <2>3. t \in Seq(Calling)
    BY <2>1 DEF Over
  <2>4. executing # <<>> =>
            /\ Over(<<blow>> \o t, rest, executing, fainted)
            /\ check \in Entries(<<blow>> \o t)
    <3> SUFFICES ASSUME executing # <<>>
                 PROVE  /\ Over(<<blow>> \o t, rest, executing, fainted)
                        /\ check \in Entries(<<blow>> \o t)
      OBVIOUS
    <3>1. Sound(blow, executing, fainted)
      BY <1>10 DEF Sound, Fatal, StrikesBack
    <3>2. ASSUME NEW b, InOrder(c, b, executing) PROVE InOrder(blow, b, executing)
      BY <1>2, <1>10, <3>2 DEF InOrder, Fatal, StrikesBack
    <3>3. Before(blow, rest, executing)
      BY <1>3, <3>2 DEF Before
    <3>4. InOrder(blow, check, executing)
      BY <1>7, <1>10 DEF InOrder, Fatal, StrikesBack
    <3>5. Before(blow, t, executing)
      BY <1>3, <1>7, <1>9, <3>3, <3>4, BeforeMore
    <3>6. blow.op # "executeMove" /\ blow \in Calling
      BY <1>9, <1>10
    <3> HIDE DEF t
    <3>7. Over(<<blow>> \o t, rest, executing, fainted)
      BY <2>1, <3>1, <3>5, <3>6, Grow
    <3>8. Entries(<<blow>> \o t) = {blow} \cup Entries(t)
      BY <2>3, <3>6, EntriesMore
    <3> QED
      BY <2>2, <3>7, <3>8
  <2>5. calls' = t \/ (executing # <<>> /\ calls' = <<blow>> \o t)
    <3>1. <<check>> \in Seq(Calling)
      BY <1>7
    <3>2. <<>> \o <<check>> = <<check>>
      BY <3>1, ConcatEmptySeq
    <3>3. executing # <<>> => <<blow>> \in Seq(Calling)
      BY <1>9
    <3>4. executing # <<>> => (<<blow>> \o <<check>>) \o rest = <<blow>> \o t
      BY <1>3, <3>1, <3>3, ConcatAssociative
    <3>5. inner = <<>> \o <<check>> \/ (executing # <<>> /\ inner = <<blow>> \o <<check>>)
      OBVIOUS
    <3> HIDE DEF inner
    <3>6. calls' = inner \o rest
      BY <1>12
    <3>7. CASE inner = <<>> \o <<check>>
      <4>1. inner = <<check>>
        BY <3>2, <3>7
      <4> QED
        BY <3>6, <4>1
    <3>8. CASE executing # <<>> /\ inner = <<blow>> \o <<check>>
      <4>1. calls' = (<<blow>> \o <<check>>) \o rest
        BY <3>6, <3>8
      <4> HIDE DEF t
      <4> QED
        BY <3>4, <3>8, <4>1
    <3> QED
      BY <3>5, <3>7, <3>8
  <2> HIDE DEF t, inner
  <2>6. Over(calls', rest, executing, fainted) /\ check \in Entries(calls')
    BY <2>1, <2>2, <2>4, <2>5
  <2>7. Stack(calls', executing, fainted) /\ Entries(rest) \subseteq Entries(calls')
    BY <2>6 DEF Over
  <2>8. FaintsInOrder'
    BY <1>5, <2>7 DEF FaintsInOrder
  <2>9. OnlyTheDoomedFall'
    <3> SUFFICES ASSUME NEW q \in Pokemon
                 PROVE  /\ fainted[q] => hp'[q] <= 0
                        /\ ~fainted[q] /\ hp'[q] <= 0 => Doomed(q, Entries(calls'))
      BY <1>5 DEF OnlyTheDoomedFall
    <3>1. CASE q = p
      <4>1. Doomed(p, Entries(calls'))
        BY <1>7, <2>6 DEF Doomed, Fatal
      <4> QED
        BY <1>12, <3>1, <4>1
    <3>2. CASE q # p
      <4>1. hp'[q] = hp[q]
        BY <1>1, <1>12, <3>2 DEF EffectsTypeOK
      <4>2. /\ fainted[q] => hp[q] <= 0
            /\ ~fainted[q] /\ hp[q] <= 0 => Doomed(q, Entries(calls))
        BY DEF FaintInv, OnlyTheDoomedFall
      <4>3. ASSUME Doomed(q, Entries(calls)) PROVE Doomed(q, Entries(calls'))
        <5>1. PICK e \in Entries(calls) : Fatal(e) /\ e.on = q
          BY <4>3 DEF Doomed
        <5>2. e # c
          BY <1>2, <5>1 DEF Fatal
        <5>3. e \in Entries(calls')
          BY <1>3, <2>7, <5>2
        <5> QED
          BY <5>1, <5>3 DEF Doomed
      <4> QED
        BY <4>1, <4>2, <4>3
    <3> QED
      BY <3>1, <3>2
  <2>10. ToldWhenFainted'
    BY <1>5 DEF FaintInv, ToldWhenFainted
  <2>11. OneMove'
    <3> SUFFICES ASSUME executing # <<>>
                 PROVE  Len(executing) = 1 /\ \E e \in Entries(calls') : e.op = "popExecution"
      BY <1>5 DEF OneMove
    <3>1. Len(executing) = 1 /\ \E e \in Entries(calls) : e.op = "popExecution"
      BY DEF FaintInv, OneMove
    <3> QED
      BY <1>2, <1>3, <2>7, <3>1
  <2> QED
    BY <2>8, <2>9, <2>10, <2>11 DEF FaintParts
<1> QED
  BY <1>6, <1>11, <1>12

LEMMA FaintKeeps ==
  ASSUME FaintInv, Faint
  PROVE  FaintParts'
<1> DEFINE c == Head(calls)
           rest == Tail(calls)
           p == c.on
<1>1. EffectsTypeOK /\ FaintsInOrder
  BY DEF FaintInv
<1>2. calls # <<>> /\ c.op = "faint"
  BY DEF Faint, First
<1>3. /\ c \in Calling /\ rest \in Seq(Calling)
      /\ Entries(calls) = {c} \cup Entries(rest)
      /\ Sound(c, executing, fainted) /\ Before(c, rest, executing)
      /\ Over(rest, rest, executing, fainted)
      /\ \A t : t = <<>> \o rest => t = rest
  BY <1>1, <1>2, Waiting
<1>4. p \in Pokemon
  BY <1>2, <1>3, CallFields
<1>5. /\ calls' = <<>> \o rest /\ executing' = executing
      /\ fainted' = [fainted EXCEPT ![p] = TRUE]
      /\ hp' = [hp EXCEPT ![p] = IF @ > 0 THEN 0 ELSE @]
      /\ told' = [told EXCEPT ![p] = IF @ < 2 THEN @ + 1 ELSE @]
  BY DEF Faint, Calls
<1>6. calls' = rest
  BY <1>3, <1>5
<1> HIDE DEF c, rest
<1>7. ~fainted[p]
  BY <1>2, <1>3 DEF Sound, Fatal
<1>8. /\ hp \in [Pokemon -> Int] /\ fainted \in [Pokemon -> BOOLEAN]
      /\ told \in [Pokemon -> 0 .. 2]
  BY <1>1 DEF EffectsTypeOK
<1>9. /\ fainted'[p] = TRUE /\ \A q \in Pokemon : q # p => fainted'[q] = fainted[q]
  BY <1>4, <1>5, <1>8
<1>10. \A k \in 1 .. Len(rest) : Sound(rest[k], executing, fainted')
  <2> SUFFICES ASSUME NEW k \in 1 .. Len(rest)
               PROVE  Sound(rest[k], executing, fainted')
    OBVIOUS
  <2>1. rest[k] \in Calling
    BY <1>3, ElementOfSeq
  <2>2. Sound(rest[k], executing, fainted)
    BY <1>3 DEF Over, Stack
  <2>3. InOrder(c, rest[k], executing)
    BY <1>3 DEF Before
  <2>4. rest[k].op # "executeMove"
    BY <2>3 DEF InOrder
  <2>5. Fatal(rest[k]) => rest[k].on # p /\ rest[k].on \in Pokemon
    BY <1>2, <2>1, <2>3, CallFields DEF InOrder, Fatal
  <2>6. Fatal(rest[k]) => ~fainted'[rest[k].on]
    BY <1>9, <2>2, <2>5 DEF Sound
  <2> QED
    BY <2>2, <2>4, <2>6 DEF Sound
<1>11. FaintsInOrder'
  <2>1. \A j, k \in 1 .. Len(rest) : j < k => InOrder(rest[j], rest[k], executing)
    BY <1>3 DEF Over, Stack
  <2>2. Stack(rest, executing, fainted')
    BY <1>10, <2>1 DEF Stack
  <2> QED
    BY <1>5, <1>6, <2>2 DEF FaintsInOrder
<1>12. OnlyTheDoomedFall'
  <2> SUFFICES ASSUME NEW q \in Pokemon
               PROVE  /\ fainted'[q] => hp'[q] <= 0
                      /\ ~fainted'[q] /\ hp'[q] <= 0 => Doomed(q, Entries(calls'))
    BY DEF OnlyTheDoomedFall
  <2>1. CASE q = p
    <3>1. hp'[p] = IF hp[p] > 0 THEN 0 ELSE hp[p]
      BY <1>4, <1>5, <1>8
    <3>2. hp[p] \in Int
      BY <1>4, <1>8
    <3>3. hp'[p] <= 0
      BY <3>1, <3>2
    <3> QED
      BY <1>9, <2>1, <3>3
  <2>2. CASE q # p
    <3>1. hp'[q] = hp[q] /\ fainted'[q] = fainted[q]
      BY <1>5, <1>8, <1>9, <2>2
    <3>2. /\ fainted[q] => hp[q] <= 0
          /\ ~fainted[q] /\ hp[q] <= 0 => Doomed(q, Entries(calls))
      BY DEF FaintInv, OnlyTheDoomedFall
    <3>3. ASSUME Doomed(q, Entries(calls)) PROVE Doomed(q, Entries(calls'))
      BY <1>3, <1>6, <2>2, <3>3 DEF Doomed
    <3> QED
      BY <3>1, <3>2, <3>3
  <2> QED
    BY <2>1, <2>2
<1>13. ToldWhenFainted'
  <2> SUFFICES ASSUME NEW q \in Pokemon
               PROVE  told'[q] = IF fainted'[q] THEN 1 ELSE 0
    BY DEF ToldWhenFainted
  <2>1. told[q] = IF fainted[q] THEN 1 ELSE 0
    BY DEF FaintInv, ToldWhenFainted
  <2>2. CASE q = p
    <3>1. told[p] = 0
      BY <1>7, <2>1, <2>2
    <3>2. told'[p] = 1
      BY <1>4, <1>5, <1>8, <3>1
    <3> QED
      BY <1>9, <2>2, <3>2
  <2>3. CASE q # p
    <3>1. told'[q] = told[q]
      BY <1>5, <1>8, <2>3
    <3> QED
      BY <1>9, <2>1, <2>3, <3>1
  <2> QED
    BY <2>2, <2>3
<1>14. OneMove'
  <2>1. executing # <<>> =>
            Len(executing) = 1 /\ \E e \in Entries(calls) : e.op = "popExecution"
    BY DEF FaintInv, OneMove
  <2>2. executing # <<>> => \E e \in Entries(rest) : e.op = "popExecution"
    BY <1>2, <1>3, <2>1
  <2> QED
    BY <1>5, <1>6, <2>1, <2>2 DEF OneMove
<1> QED
  BY <1>11, <1>12, <1>13, <1>14 DEF FaintParts

(* A list of calls that nothing waits behind: one that is executed, or     *)
(* one that Over finds in order.                                           *)
LEMMA NothingWaits ==
  ASSUME NEW ex, NEW down
  PROVE  Over(<<>>, <<>>, ex, down) /\ Entries(<<>>) = {}
<1>1. Entries(<<>>) = {}
  BY DEF Entries
<1>2. Stack(<<>>, ex, down)
  BY DEF Stack
<1> QED
  BY <1>1, <1>2 DEF Over

LEMMA ExecuteKeeps ==
  ASSUME FaintInv, ExecuteMove
  PROVE  FaintParts'
<1> DEFINE c == Head(calls)
           rest == Tail(calls)
           ex == <<[user |-> c.user, move |-> c.move]>>
           use == Use(c.user, c.on, c.move)
           die == Die(c.user)
<1>1. EffectsTypeOK /\ FaintsInOrder
  BY DEF FaintInv
<1>2. calls # <<>> /\ c.op = "executeMove"
  BY DEF ExecuteMove, First
<1>3. /\ c \in Calling /\ rest \in Seq(Calling)
      /\ Entries(calls) = {c} \cup Entries(rest)
      /\ Sound(c, executing, fainted) /\ Before(c, rest, executing)
      /\ Over(rest, rest, executing, fainted)
      /\ \A t : t = <<>> \o rest => t = rest
  BY <1>1, <1>2, Waiting
<1>4. c.user \in Pokemon /\ c.on \in Pokemon /\ c.move \in AllMoves
  BY <1>2, <1>3, CallFields
<1>5. UNCHANGED <<hp, fainted, told>>
  BY DEF ExecuteMove, body
<1>6. \/ fainted[c.on] /\ calls' = <<>> \o rest /\ executing' = executing
      \/ /\ executing' = ex \o executing
         /\ \/ calls' = (<<>> \o <<use, Pop>>) \o rest
            \/ calls' = (<<die>> \o <<use, Pop>>) \o rest
  BY DEF ExecuteMove, Calls
<1>7. ~fainted[c.user] /\ executing = <<>>
  BY <1>2, <1>3 DEF Sound
<1>8. rest = <<>>
  <2>1. Len(rest) \in Nat /\ (rest # <<>> => Len(rest) # 0)
    BY <1>3, LenProperties, EmptySeq
  <2>2. \A k \in 1 .. Len(rest) : FALSE
    BY <1>2, <1>3 DEF Before, InOrder
  <2> QED
    BY <2>1, <2>2
<1>9. /\ use \in Calling /\ use.op = "use" /\ Pop \in Calling /\ Pop.op = "popExecution"
      /\ die \in Calling /\ die.op = "faint" /\ die.on = c.user
  BY <1>4, CallsTyped DEF Use, Pop, Die
<1>10. ex \o executing = ex /\ ex # <<>> /\ Len(ex) = 1
  <2>1. ex \in Seq(Execution) /\ Len(ex) = 1 /\ ex # <<>>
    BY <1>4 DEF Execution
  <2> HIDE DEF ex
  <2> QED
    BY <1>7, <2>1, ConcatEmptySeq
<1> HIDE DEF c, rest, ex, use, die
<1>11. CASE fainted[c.on] /\ calls' = <<>> \o rest /\ executing' = executing
  <2>1. calls' = rest
    BY <1>3, <1>11
  <2>2. Over(calls', rest, executing, fainted)
    BY <1>3, <2>1
  <2>3. ~Fatal(c) /\ c.op # "popExecution"
    BY <1>2 DEF Fatal
  <2> QED
    BY <1>2, <1>5, <1>11, <2>2, <2>3, OverKeeps DEF c, rest
<1>12. CASE /\ executing' = ex \o executing
            /\ \/ calls' = (<<>> \o <<use, Pop>>) \o rest
               \/ calls' = (<<die>> \o <<use, Pop>>) \o rest
  <2>1. executing' = ex
    BY <1>10, <1>12
  <2> DEFINE t == <<use>> \o <<Pop>>
  <2>2. t = <<use, Pop>> /\ t \in Seq(Calling)
    <3>1. <<Pop>> \o <<>> = <<Pop>> /\ <<use, Pop>> \o <<>> = <<use, Pop>>
      BY <1>9, ConcatEmptySeq
    <3>2. <<use, Pop>> \o <<>> = <<use>> \o (<<Pop>> \o <<>>)
      BY <1>9, EmptySeq, TwoMore
    <3>3. t = <<use, Pop>>
      BY <3>1, <3>2, Zenon
    <3>4. <<use, Pop>> \in Seq(Calling)
      BY <1>9
    <3> HIDE DEF t
    <3> QED
      BY <3>3, <3>4, Zenon
  <2>3. calls' = t \/ calls' = <<die>> \o t
    <3>1. <<>> \o t = t /\ t \o <<>> = t
      BY <2>2, ConcatEmptySeq
    <3>2. <<die>> \o t \in Seq(Calling)
      BY <1>9, <2>2
    <3>3. (<<die>> \o t) \o <<>> = <<die>> \o t
      BY <3>2, ConcatEmptySeq
    <3>4. calls' = (<<>> \o t) \o rest \/ calls' = (<<die>> \o t) \o rest
      BY <1>12, <2>2
    <3> HIDE DEF t
    <3> QED
      BY <1>8, <3>1, <3>3, <3>4
  <2>4. Over(<<Pop>>, <<>>, ex, fainted)
    <3>1. Sound(Pop, ex, fainted) /\ Pop.op # "executeMove"
      BY <1>9, <1>10 DEF Sound, Fatal, StrikesBack
    <3>2. Before(Pop, <<>>, ex)
      BY DEF Before
    <3>3. Over(<<Pop>> \o <<>>, <<>>, ex, fainted)
      BY <1>9, <3>1, <3>2, NothingWaits, Grow
    <3> QED
      BY <1>9, <3>3, ConcatEmptySeq
  <2>5. Over(t, <<>>, ex, fainted)
    <3>1. Sound(use, ex, fainted) /\ use.op # "executeMove"
      BY <1>9 DEF Sound, Fatal, StrikesBack
    <3>2. InOrder(use, Pop, ex)
      BY <1>9 DEF InOrder, Fatal, StrikesBack
    <3>3. Before(use, <<Pop>>, ex)
      BY <3>2 DEF Before
    <3> QED
      BY <1>9, <2>4, <3>1, <3>3, Grow
  <2>6. Pop \in Entries(t)
    <3>1. t[2] = Pop /\ 2 \in 1 .. Len(t)
      BY <2>2
    <3> QED
      BY <3>1 DEF Entries
  <2>7. Over(<<die>> \o t, <<>>, ex, fainted)
    <3>1. Sound(die, ex, fainted) /\ die.op # "executeMove"
      BY <1>7, <1>9 DEF Sound, Fatal, StrikesBack
    <3>2. InOrder(die, Pop, ex) /\ InOrder(die, use, ex)
      BY <1>9 DEF InOrder, Fatal, StrikesBack
    <3>3. \A k \in 1 .. Len(t) : t[k] = use \/ t[k] = Pop
      BY <2>2
    <3> HIDE DEF t
    <3>4. Before(die, t, ex)
      BY <3>2, <3>3 DEF Before
    <3> QED
      BY <1>9, <2>5, <3>1, <3>4, Grow
  <2> HIDE DEF t
  <2>8. Entries(<<die>> \o t) = {die} \cup Entries(t)
    BY <1>9, <2>2, EntriesMore
  <2>9. Over(calls', <<>>, ex, fainted) /\ Pop \in Entries(calls')
    BY <2>3, <2>5, <2>6, <2>7, <2>8
  <2>10. FaintsInOrder'
    BY <1>5, <2>1, <2>9 DEF FaintsInOrder, Over
  <2>11. OnlyTheDoomedFall'
    <3>1. Entries(calls) = {c}
      BY <1>3, <1>8, NothingWaits
    <3> SUFFICES ASSUME NEW p \in Pokemon
                 PROVE  /\ fainted[p] => hp[p] <= 0
                        /\ ~fainted[p] /\ hp[p] <= 0 => Doomed(p, Entries(calls'))
      BY <1>5 DEF OnlyTheDoomedFall
    <3>3. /\ fainted[p] => hp[p] <= 0
          /\ ~fainted[p] /\ hp[p] <= 0 => Doomed(p, Entries(calls))
      BY DEF FaintInv, OnlyTheDoomedFall
    <3>4. ~Doomed(p, Entries(calls))
      BY <1>2, <3>1 DEF Doomed, Fatal
    <3> QED
      BY <3>3, <3>4
  <2>12. ToldWhenFainted'
    BY <1>5 DEF FaintInv, ToldWhenFainted
  <2>13. OneMove'
    BY <1>9, <1>10, <2>1, <2>9 DEF OneMove
  <2> QED
    BY <2>10, <2>11, <2>12, <2>13 DEF FaintParts
<1> QED
  BY <1>6, <1>11, <1>12

LEMMA PopKeeps ==
  ASSUME FaintInv, PopExecution
  PROVE  FaintParts'
<1> DEFINE c == Head(calls)
           rest == Tail(calls)
<1>1. EffectsTypeOK /\ FaintsInOrder
  BY DEF FaintInv
<1>2. calls # <<>> /\ c.op = "popExecution"
  BY DEF PopExecution, First
<1>3. /\ rest \in Seq(Calling) /\ Entries(calls) = {c} \cup Entries(rest)
      /\ Sound(c, executing, fainted) /\ Before(c, rest, executing)
      /\ \A t : t = <<>> \o rest => t = rest
  BY <1>1, <1>2, Waiting
<1>4. UNCHANGED <<hp, fainted, told>> /\ calls' = <<>> \o rest /\ executing' = Tail(executing)
  BY DEF PopExecution, Calls, body
<1> HIDE DEF c, rest
<1>5. rest = <<>>
  <2>1. Len(rest) \in Nat /\ (rest # <<>> => Len(rest) # 0)
    BY <1>3, LenProperties, EmptySeq
  <2>2. \A k \in 1 .. Len(rest) : FALSE
    BY <1>2, <1>3 DEF Before, InOrder
  <2> QED
    BY <2>1, <2>2
<1>6. executing' = <<>>
  <2>1. executing # <<>> /\ executing \in Seq(Execution)
    BY <1>1, <1>2, <1>3 DEF Sound, EffectsTypeOK
  <2>2. Len(executing) = 1
    BY <2>1 DEF FaintInv, OneMove
  <2>3. Tail(executing) \in Seq(Execution) /\ Len(Tail(executing)) = 0
    BY <2>1, <2>2, HeadTailProperties
  <2> QED
    BY <1>4, <2>3, EmptySeq
<1>7. calls' = <<>>
  BY <1>3, <1>4, <1>5
<1>8. FaintsInOrder'
  BY <1>7 DEF FaintsInOrder, Stack
<1>9. OnlyTheDoomedFall'
  <2>1. Entries(calls) = {c}
    BY <1>3, <1>5, NothingWaits
  <2> SUFFICES ASSUME NEW p \in Pokemon
               PROVE  /\ fainted[p] => hp[p] <= 0
                      /\ ~fainted[p] /\ hp[p] <= 0 => Doomed(p, Entries(calls'))
    BY <1>4 DEF OnlyTheDoomedFall
  <2>2. /\ fainted[p] => hp[p] <= 0
        /\ ~fainted[p] /\ hp[p] <= 0 => Doomed(p, Entries(calls))
    BY DEF FaintInv, OnlyTheDoomedFall
  <2>3. ~Doomed(p, Entries(calls))
    BY <1>2, <2>1 DEF Doomed, Fatal
  <2> QED
    BY <2>2, <2>3
<1>10. ToldWhenFainted'
  BY <1>4 DEF FaintInv, ToldWhenFainted
<1> QED
  BY <1>6, <1>8, <1>9, <1>10 DEF FaintParts, OneMove

(* A turn goes on when every call has returned.                            *)
LEMMA QuietKeeps ==
  ASSUME FaintInv, calls = <<>>, UNCHANGED <<hp, fainted, told, executing>>,
         Stack(calls', <<>>, fainted)
  PROVE  FaintParts'
<1>1. Entries(calls) = {}
  BY NothingWaits
<1>2. executing = <<>>
  BY <1>1 DEF FaintInv, OneMove
<1>3. FaintsInOrder'
  BY <1>2 DEF FaintsInOrder
<1>4. OnlyTheDoomedFall'
  BY <1>1 DEF FaintInv, OnlyTheDoomedFall, Doomed
<1>5. ToldWhenFainted'
  BY DEF FaintInv, ToldWhenFainted
<1> QED
  BY <1>2, <1>3, <1>4, <1>5 DEF FaintParts, OneMove

LEMMA Single ==
  ASSUME NEW a \in Calling, NEW ex, NEW down, Sound(a, ex, down)
  PROVE  Stack(<<a>>, ex, down)
<1>1. Before(a, <<>>, ex)
  BY DEF Before
<1>2. Stack(<<a>> \o <<>>, ex, down)
  BY <1>1, EmptySeq, NothingWaits, StackMore DEF Over
<1> QED
  BY <1>2, ConcatEmptySeq

LEMMA TurnStepsKeep ==
  ASSUME FaintInv, EffectsAssumption,
         \/ \E p \in Pokemon : Act(p) \/ Replace(p)
         \/ BeginTick \/ Tick \/ EndTick \/ NextTurn
  PROVE  FaintParts'
<1>1. EffectsTypeOK
  BY DEF FaintInv
<1>2. PartyOf \in [Pokemon -> {0, 1}] /\ Moves \subseteq AllMoves
  BY Zenon DEF EffectsAssumption
<1>3. Stack(<<>>, <<>>, fainted)
  BY NothingWaits DEF Over
<1>4. ASSUME NEW p \in Pokemon, Act(p) PROVE FaintParts'
  <2>1. Foe(p) \in Pokemon
    <3>1. 1 - PartyOf[p] \in {0, 1}
      BY <1>2
    <3> QED
      BY <1>1, <3>1 DEF Foe, EffectsTypeOK
  <2>2. calls = <<>> /\ UNCHANGED <<hp, fainted, told, executing>>
    BY <1>4 DEF Act, Quiet, body
  <2>3. \/ calls' = <<>>
        \/ ~fainted[p] /\ \E m \in Moves : calls' = <<Execute(p, Foe(p), m)>>
        \/ \E q \in Reserves(PartyOf[p]) : calls' = <<SwitchOut(p), SendOut(q)>>
    BY <1>4, <2>2 DEF Act
  <2>4. ASSUME NEW m \in Moves, ~fainted[p]
        PROVE  Stack(<<Execute(p, Foe(p), m)>>, <<>>, fainted)
    <3>1. Execute(p, Foe(p), m) \in Calling
      BY <1>2, <2>1, CallsTyped
    <3>2. Sound(Execute(p, Foe(p), m), <<>>, fainted)
      BY <2>4 DEF Execute, Sound, Fatal, StrikesBack
    <3> QED
      BY <3>1, <3>2, Single
  <2>5. ASSUME NEW q \in Reserves(PartyOf[p])
        PROVE  Stack(<<SwitchOut(p), SendOut(q)>>, <<>>, fainted)
    <3> DEFINE a == SwitchOut(p)
               b == SendOut(q)
    <3>1. a \in Calling /\ b \in Calling
      BY CallsTyped, ReservesAre DEF AllMoves
    <3>2. Mild(a) /\ Mild(b)
      BY DEF SwitchOut, SendOut, Mild
    <3>3. <<a, b>> \in Seq(Calling)
      BY <3>1
    <3> HIDE DEF a, b
    <3>4. Over(<<a, b>> \o <<>>, <<>>, <<>>, fainted)
      BY <3>1, <3>2, NothingWaits, GrowMild2
    <3>5. <<a, b>> \o <<>> = <<a, b>>
      BY <3>3, ConcatEmptySeq
    <3>6. Stack(<<a, b>>, <<>>, fainted)
      BY <3>4, <3>5 DEF Over
    <3> QED
      BY <3>6 DEF a, b
  <2>6. Stack(calls', <<>>, fainted)
    <3>1. CASE calls' = <<>>
      BY <1>3, <3>1
    <3>2. CASE ~fainted[p] /\ \E m \in Moves : calls' = <<Execute(p, Foe(p), m)>>
      BY <2>4, <3>2
    <3>3. CASE \E q \in Reserves(PartyOf[p]) : calls' = <<SwitchOut(p), SendOut(q)>>
      BY <2>5, <3>3
    <3> QED
      BY <2>3, <3>1, <3>2, <3>3
  <2> QED
    BY <2>2, <2>6, QuietKeeps
<1>5. ASSUME NEW q \in Pokemon, Replace(q) PROVE FaintParts'
  <2>1. calls = <<>> /\ UNCHANGED <<hp, fainted, told, executing>> /\ calls' = <<SendOut(q)>>
    BY <1>5 DEF Replace, Quiet, body
  <2>2. SendOut(q) \in Calling
    BY CallsTyped DEF AllMoves
  <2>3. Sound(SendOut(q), <<>>, fainted)
    BY DEF SendOut, Sound, Fatal, StrikesBack
  <2> QED
    BY <2>1, <2>2, <2>3, Single, QuietKeeps
<1>6. CASE Tick
  <2>1. PICK t \in ticks : calls' \in {<<>>, <<Hurt(t.on, 1)>>}
    BY <1>6 DEF Tick, Quiet
  <2>2. calls = <<>> /\ UNCHANGED <<hp, fainted, told, executing>>
    BY <1>6 DEF Tick, Quiet, body
  <2>3. t.on \in Pokemon
    BY <1>1 DEF EffectsTypeOK
  <2>4. Hurt(t.on, 1) \in Calling
    BY <2>3, CallsTyped DEF AllMoves
  <2>5. Sound(Hurt(t.on, 1), <<>>, fainted)
    BY DEF Hurt, Sound, Fatal, StrikesBack
  <2>6. Stack(calls', <<>>, fainted)
    BY <1>3, <2>1, <2>4, <2>5, Single
  <2> QED
    BY <2>2, <2>6, QuietKeeps
<1>7. CASE BeginTick \/ EndTick \/ NextTurn
  <2>1. calls = <<>> /\ UNCHANGED <<hp, fainted, told, executing, calls>>
    BY <1>7 DEF BeginTick, EndTick, NextTurn, Quiet, body
  <2> QED
    BY <1>3, <2>1, QuietKeeps
<1> QED
  BY <1>4, <1>5, <1>6, <1>7

LEMMA InitFaint ==
  ASSUME EffectsAssumption, Init
  PROVE  FaintInv
<1>1. EffectsTypeOK
  BY InitTyped
<1>2. MaxHp \in Nat \ {0}
  BY Zenon DEF EffectsAssumption
<1>3. /\ hp = [p \in Pokemon |-> MaxHp] /\ fainted = [p \in Pokemon |-> FALSE]
      /\ told = [p \in Pokemon |-> 0] /\ executing = <<>> /\ calls = <<>>
  BY DEF Init
<1>4. FaintsInOrder /\ OneMove
  BY <1>3 DEF FaintsInOrder, Stack, OneMove
<1>5. OnlyTheDoomedFall
  BY <1>2, <1>3 DEF OnlyTheDoomedFall
<1>6. ToldWhenFainted
  BY <1>3 DEF ToldWhenFainted
<1> QED
  BY <1>1, <1>4, <1>5, <1>6 DEF FaintInv

LEMMA FaintKept ==
  ASSUME FaintInv, EffectsAssumption, NoEnigma, [Next]_vars
  PROVE  FaintInv'
<1>1. EffectsTypeOK'
  BY TypesKept DEF FaintInv
<1>2. MaxHp \in Nat
  <2>1. MaxHp \in Nat \ {0}
    BY Zenon DEF EffectsAssumption
  <2> QED
    BY <2>1
<1>3. FaintParts'
  <2>1. CASE UNCHANGED vars
    <3>1. UNCHANGED <<hp, fainted, told, executing, calls>>
      BY <2>1 DEF vars
    <3>2. FaintsInOrder' /\ OneMove'
      BY <3>1 DEF FaintInv, FaintsInOrder, OneMove
    <3>3. OnlyTheDoomedFall' /\ ToldWhenFainted'
      BY <3>1 DEF FaintInv, OnlyTheDoomedFall, ToldWhenFainted
    <3> QED
      BY <3>2, <3>3 DEF FaintParts
  <2>2. CASE Answers
    BY <1>2, <2>2, AnswersKeep
  <2>3. CASE ExecuteMove
    BY <2>3, ExecuteKeeps
  <2>4. CASE PopExecution
    BY <2>4, PopKeeps
  <2>5. CASE SetHp
    BY <1>2, <2>5, SetHpKeeps
  <2>6. CASE Faint
    BY <2>6, FaintKeeps
  <2>7. CASE ApplyStatus \/ ReplaceAbility \/ ReplaceItem \/ ConsumeItem
               \/ SwitchOutPokemon \/ SendOutPokemon
    BY <2>7, EffectStepsKeep
  <2>8. CASE \/ \E p \in Pokemon : Act(p) \/ Replace(p)
             \/ BeginTick \/ Tick \/ EndTick \/ NextTurn
    BY <2>8, TurnStepsKeep
  <2> QED
    BY <2>1, <2>2, <2>3, <2>4, <2>5, <2>6, <2>7, <2>8 DEF Next, Call, Answers
<1> QED
  BY <1>1, <1>3 DEF FaintInv, FaintParts

-----------------------------------------------------------------------------
(* The theorems.                                                           *)

(* Every call, effect and pointer stays of the kind the code expects:      *)
(* identities in the lists of effects are of live objects, the stack of    *)
(* calls only holds calls with the arguments their function takes, and no  *)
(* count leaves its range (Pokemon.cpp, BattleField.cpp).                  *)
THEOREM EffectsTypesHold == Spec => []EffectsTypeOK
<1>1. Init => EffectsTypeOK
  BY EffectsAssumption, InitTyped
<1>2. EffectsTypeOK /\ [Next]_vars => EffectsTypeOK'
  BY EffectsAssumption, TypesKept
<1> QED
  BY <1>1, <1>2, PTL DEF Spec

(* The inductive invariant behind the next: each call on the stack can     *)
(* still be made soundly after those before it, and whoever has no health  *)
(* left and has not fainted has a call on the stack that makes him faint   *)
(* (Pokemon::setHp and faint, and what sendMessage calls in between).      *)
THEOREM FaintInvariant == ASSUME NoEnigma PROVE Spec => []FaintInv
<1>1. Init => FaintInv
  BY EffectsAssumption, InitFaint
<1>2. FaintInv /\ [Next]_vars => FaintInv'
  BY EffectsAssumption, FaintKept
<1> QED
  BY <1>1, <1>2, PTL DEF Spec

(* Without an Enigma Berry a pokemon's fainting is announced once,         *)
(* whatever strikes back at whom while it is going down, and when every    *)
(* call has returned exactly those without health have fainted             *)
(* (Pokemon::setHp, faint and executeMove, sendMessage).                   *)
THEOREM FaintsOnceHolds == ASSUME NoEnigma PROVE Spec => []FaintsOnce
<1>1. FaintInv => FaintsOnce
  <2> SUFFICES ASSUME FaintInv, NEW p \in Pokemon
               PROVE  /\ told[p] <= 1
                      /\ calls = <<>> =>
                           /\ fainted[p] <=> hp[p] <= 0
                           /\ fainted[p] <=> told[p] = 1
    BY DEF FaintsOnce
  <2>1. /\ told[p] = IF fainted[p] THEN 1 ELSE 0
        /\ fainted[p] => hp[p] <= 0
        /\ ~fainted[p] /\ hp[p] <= 0 => Doomed(p, Entries(calls))
    BY DEF FaintInv, ToldWhenFainted, OnlyTheDoomedFall
  <2>2. calls = <<>> => ~Doomed(p, Entries(calls))
    BY NothingWaits DEF Doomed
  <2> QED
    BY <2>1, <2>2
<1> QED
  BY <1>1, FaintInvariant, PTL

-----------------------------------------------------------------------------
(* Which calls may wait behind which.  What a listener or a script calls   *)
(* while others wait are Reactions; the rest of a move waits behind them.  *)
(* A pokemon leaves as soon as that is called, and the next call sends     *)
(* another out; an item is handed on by two calls with nothing in between, *)
(* and what comes before them only befalls the one who is to get it.       *)

Reactions == {"setHp", "checkHp", "faint", "informDamaged", "applyStatus",
              "informEffectApplied", "setAbility", "setItem", "passItem", "secondary",
              "consume"}
Blows == {"setHp", "checkHp", "faint", "informDamaged"}

Follows(a, b) ==
    /\ a.op \notin {"executeMove", "popExecution"}
    /\ b.op \notin {"executeMove", "switchOut"}
    /\ a.op \in {"use", "uturn", "sendOut"} => b.op = "popExecution"
    /\ a.op = "switchOut" => b.op \in {"sendOut", "popExecution"}
    /\ b.op = "sendOut" => a.op = "switchOut"
    /\ b.op = "setItem" => /\ a.op = "setItem" /\ a.on # b.on
                           /\ a.kind # None /\ b.kind = None
    /\ b.op = "passItem" => /\ a.op \in Blows /\ a.on = b.user
                            /\ a.op = "informDamaged" => a.user = a.on

Ahead(a, s) == \A b \in Entries(s) : Follows(a, b)
Filed(s) == \A j, k \in 1 .. Len(s) : j < k => Follows(s[j], s[k])

(* Whom a call is about is on the field, except the one who is to enter    *)
(* it; and a listener knows the user of the move that is executed.         *)
Placed(c) ==
    /\ c.op \notin {"popExecution", "sendOut"} => OnField(c.on)
    /\ c.op \in {"executeMove", "use", "uturn", "informDamaged", "passItem", "secondary"} =>
            OnField(c.user)
    /\ c.op \in {"applyStatus", "informEffectApplied"} => OnField(c.inducer)
    /\ c.op = "executeMove" => ~fainted[c.user]
    /\ c.op \in {"informDamaged", "passItem"} =>
            executing # <<>> /\ c.user = executing[1].user
    /\ c.op = "passItem" => c.on # c.user

CallsPlaced == \A c \in Entries(calls) : Placed(c)
SidesKept == \A i \in {0, 1} : PartyOf[active[i]] = i
TicksStay ==
    /\ ticks # {} => phase = "ticks"
    /\ phase = "ticks" => /\ \A t \in ticks : OnField(t.on)
                          /\ \A c \in Entries(calls) : c.op \in Reactions
PopsMatch == (\E c \in Entries(calls) : c.op = "popExecution") => executing # <<>>
UserStays ==
    executing # <<>> =>
        \/ OnField(executing[1].user)
        \/ \A c \in Entries(calls) : c.op = "popExecution"
CallsInv ==
    /\ EffectsTypeOK /\ Filed(calls) /\ CallsPlaced /\ SidesKept /\ TicksStay
    /\ OneMove /\ PopsMatch /\ UserStays

(* Every call has one of the names.                                        *)
LEMMA OpsAre ==
  ASSUME NEW c \in Calling
  PROVE  c.op \in Reactions \cup {"executeMove", "use", "uturn", "popExecution",
                                  "switchOut", "sendOut"}
<1>1. c.op \in {"executeMove", "use", "uturn", "popExecution", "switchOut", "sendOut",
                "setHp", "checkHp", "faint", "informDamaged", "applyStatus",
                "informEffectApplied", "setAbility", "setItem", "passItem", "secondary",
                "consume"}
  BY DEF Calling
<1> QED
  BY <1>1 DEF Reactions

LEMMA FiledTail ==
  ASSUME NEW a \in Calling, NEW s \in Seq(Calling), Filed(<<a>> \o s)
  PROVE  Filed(s) /\ Ahead(a, s)
<1> DEFINE t == <<a>> \o s
           n == Len(s)
<1>1. /\ n \in Nat /\ Len(t) = n + 1 /\ t[1] = a
      /\ \A k \in 1 .. n + 1 : k # 1 => k - 1 \in 1 .. n /\ t[k] = s[k - 1]
  BY OneMore
<1>2. Filed(t)
  OBVIOUS
<1> HIDE DEF t, n
<1>3. ASSUME NEW k \in 1 .. n PROVE k + 1 \in 1 .. n + 1 /\ t[k + 1] = s[k]
  <2>1. k + 1 \in 1 .. n + 1 /\ k + 1 # 1 /\ (k + 1) - 1 = k
    BY <1>1
  <2> QED
    BY <1>1, <2>1
<1>4. \A j, k \in 1 .. n + 1 : j < k => Follows(t[j], t[k])
  BY <1>1, <1>2 DEF Filed
<1>5. ASSUME NEW k \in 1 .. n PROVE Follows(a, s[k])
  <2>1. 1 \in 1 .. n + 1 /\ k + 1 \in 1 .. n + 1 /\ 1 < k + 1
    BY <1>1
  <2> QED
    BY <1>1, <1>3, <1>4, <2>1
<1>6. ASSUME NEW j \in 1 .. n, NEW k \in 1 .. n, j < k PROVE Follows(s[j], s[k])
  <2>1. j + 1 < k + 1 /\ j + 1 \in 1 .. n + 1 /\ k + 1 \in 1 .. n + 1
    BY <1>1, <1>6
  <2> QED
    BY <1>3, <1>4, <2>1
<1> QED
  BY <1>5, <1>6 DEF Filed, Ahead, Entries, n

LEMMA FiledMore ==
  ASSUME NEW a \in Calling, NEW s \in Seq(Calling), Filed(s), Ahead(a, s)
  PROVE  Filed(<<a>> \o s)
<1> DEFINE t == <<a>> \o s
           n == Len(s)
<1>1. /\ n \in Nat /\ Len(t) = n + 1 /\ t[1] = a
      /\ \A k \in 1 .. n + 1 : k # 1 => k - 1 \in 1 .. n /\ t[k] = s[k - 1]
  BY OneMore
<1> HIDE DEF t, n
<1>2. /\ \A j, k \in 1 .. n : j < k => Follows(s[j], s[k])
      /\ \A k \in 1 .. n : Follows(a, s[k])
  BY DEF Filed, Ahead, Entries, n
<1>3. ASSUME NEW j \in 1 .. n + 1, NEW k \in 1 .. n + 1, j < k PROVE Follows(t[j], t[k])
  <2>1. k # 1 /\ k - 1 \in 1 .. n /\ t[k] = s[k - 1]
    BY <1>1, <1>3
  <2>2. CASE j = 1
    BY <1>1, <1>2, <2>1, <2>2
  <2>3. CASE j # 1
    <3>1. j - 1 \in 1 .. n /\ t[j] = s[j - 1]
      BY <1>1, <2>3
    <3>2. j - 1 < k - 1
      BY <1>3
    <3> QED
      BY <1>2, <2>1, <3>1, <3>2
  <2> QED
    BY <2>2, <2>3
<1> QED
  BY <1>1, <1>3 DEF Filed, t

(* t is s with the calls New before it.                                    *)
Put(t, New, s) ==
    t \in Seq(Calling) /\ Filed(t) /\ Entries(t) = New \cup Entries(s)

LEMMA PutNone ==
  ASSUME NEW s \in Seq(Calling), Filed(s)
  PROVE  Put(<<>> \o s, {}, s) /\ <<>> \o s = s
BY ConcatEmptySeq DEF Put

LEMMA PutOne ==
  ASSUME NEW a \in Calling, NEW t, NEW N, NEW s, Put(t, N, s), Ahead(a, t)
  PROVE  Put(<<a>> \o t, {a} \cup N, s)
<1>1. t \in Seq(Calling) /\ Filed(t) /\ Entries(t) = N \cup Entries(s)
  BY DEF Put
<1>2. <<a>> \o t \in Seq(Calling) /\ Entries(<<a>> \o t) = {a} \cup Entries(t)
  BY <1>1, OneMore, EntriesMore
<1>3. Filed(<<a>> \o t)
  BY <1>1, FiledMore
<1> QED
  BY <1>1, <1>2, <1>3 DEF Put

LEMMA PutSingle ==
  ASSUME NEW a \in Calling, NEW s \in Seq(Calling), Filed(s), Ahead(a, s)
  PROVE  Put(<<a>> \o s, {a}, s)
<1>1. Put(s, {}, s)
  BY DEF Put
<1>2. Put(<<a>> \o s, {a} \cup {}, s)
  BY <1>1, PutOne
<1> QED
  BY <1>2

LEMMA PutPair ==
  ASSUME NEW a \in Calling, NEW b \in Calling, NEW s \in Seq(Calling),
         Filed(s), Ahead(a, s), Ahead(b, s), Follows(a, b)
  PROVE  Put(<<a, b>> \o s, {a, b}, s)
<1>1. Put(<<b>> \o s, {b}, s)
  BY PutSingle
<1>2. Ahead(a, <<b>> \o s)
  BY EntriesMore DEF Ahead
<1>3. Put(<<a>> \o (<<b>> \o s), {a} \cup {b}, s)
  BY <1>1, <1>2, PutOne
<1> QED
  BY <1>3, TwoMore

(* The first call and those that wait behind it.                           *)
LEMMA Behind ==
  ASSUME EffectsTypeOK, Filed(calls), calls # <<>>
  PROVE  /\ Head(calls) \in Calling /\ Tail(calls) \in Seq(Calling)
         /\ Entries(calls) = {Head(calls)} \cup Entries(Tail(calls))
         /\ Filed(Tail(calls)) /\ Ahead(Head(calls), Tail(calls))
         /\ Entries(Tail(calls)) \subseteq Calling
<1>1. Head(calls) \in Calling /\ Tail(calls) \in Seq(Calling)
      /\ calls = <<Head(calls)>> \o Tail(calls)
  BY Split DEF EffectsTypeOK
<1>2. Filed(Tail(calls)) /\ Ahead(Head(calls), Tail(calls))
  BY <1>1, FiledTail
<1>3. Entries(calls) = {Head(calls)} \cup Entries(Tail(calls))
  BY <1>1, EntriesMore
<1>4. Entries(Tail(calls)) \subseteq Calling
  BY <1>1, ElementOfSeq DEF Entries
<1> QED
  BY <1>1, <1>2, <1>3, <1>4

(* A reaction may come before whatever may wait behind another, except for *)
(* an item that is handed on.                                              *)
LEMMA ReactionsFollow ==
  ASSUME NEW a, a.op \in Reactions, NEW b \in Calling,
         b.op \in (Reactions \ {"setItem", "passItem"}) \cup {"use", "uturn", "popExecution"}
  PROVE  Follows(a, b)
BY DEF Follows, Reactions

LEMMA BehindReactions ==
  ASSUME NEW c, NEW b \in Calling, Follows(c, b), c.op \in Reactions
  PROVE  /\ b.op \in Reactions \cup {"use", "uturn", "popExecution"}
         /\ b.op = "setItem" => c.op = "setItem"
         /\ b.op = "passItem" => /\ c.op \in Blows /\ c.on = b.user
                                 /\ c.op = "informDamaged" => c.user = c.on
BY OpsAre DEF Follows, Reactions

(* What waits behind a reaction waits behind any other, if no item is      *)
(* handed on.                                                              *)
LEMMA ReactionsAhead ==
  ASSUME NEW c, NEW s, Ahead(c, s), Entries(s) \subseteq Calling, c.op \in Reactions,
         c.op \notin Blows \/ (c.op = "informDamaged" /\ c.user # c.on), c.op # "setItem",
         NEW a, a.op \in Reactions
  PROVE  Ahead(a, s)
<1> SUFFICES ASSUME NEW b \in Entries(s) PROVE Follows(a, b)
  BY DEF Ahead
<1>1. b \in Calling /\ Follows(c, b)
  BY DEF Ahead
<1>2. b.op \in Reactions \cup {"use", "uturn", "popExecution"} /\ b.op \notin {"setItem", "passItem"}
  BY <1>1, BehindReactions
<1> QED
  BY <1>1, <1>2, ReactionsFollow

(* Nothing waits behind a move but its end.                                *)
LEMMA EndBehind ==
  ASSUME NEW c, NEW s, Ahead(c, s), c.op \in {"use", "uturn", "sendOut"},
         NEW a, a.op \notin {"executeMove", "popExecution"}
  PROVE  Ahead(a, s)
BY DEF Ahead, Follows

(* A call that a step adds is about pokemon on the field; another is sent  *)
(* out behind the one that leaves, a berry is eaten and an item handed on  *)
(* by the one who has it.                                                  *)
Berries == {"JabocaBerry", "EnigmaBerry"}
HandOn(c) == {SetItem(c.user, "StickyBarb"), SetItem(c.on, None)}
Brought(d, New) ==
    /\ Placed(d) /\ d.op \notin {"executeMove", "popExecution"}
    /\ Head(calls).op \in Reactions => d.op \in Reactions
    /\ d.op = "sendOut" =>
         /\ \E x \in New : x.op = "switchOut" /\ x.on = active[PartyOf[d.on]]
         /\ ~fainted[d.on] /\ ~OnField(d.on)
    /\ d.op = "consume" =>
         \E e \in ToSet(effects[d.on]) : e.id = d.id /\ e.kind \in Berries
    /\ d.op = "passItem" => Has(effects[d.on], "StickyBarb")
    /\ d.op = "setItem" =>
         /\ Head(calls).op = "passItem" /\ New = HandOn(Head(calls))
         /\ ~Holds(Head(calls).user)

Given(New) == Put(calls', New, Tail(calls)) /\ \A d \in New : Brought(d, New)

LEMMA PlacedAre ==
  ASSUME NEW p \in Pokemon, NEW q \in Pokemon, OnField(p), OnField(q), NEW n, NEW k
  PROVE  /\ Placed(Hurt(p, n)) /\ Placed(CheckHp(p)) /\ Placed(Die(p))
         /\ Placed(Apply(p, q, k)) /\ Placed(Applied(p, q, k, n))
         /\ Placed(SetAbility(p, k)) /\ Placed(SetItem(p, k)) /\ Placed(Secondary(p, q, k))
         /\ Placed(Turn(q, p)) /\ Placed(Consume(p, n)) /\ Placed(SwitchOut(p))
         /\ Placed(Use(q, p, k)) /\ Placed(Pop)
<1>1. Placed(Hurt(p, n)) /\ Placed(CheckHp(p)) /\ Placed(Die(p)) /\ Placed(SetAbility(p, k))
      /\ Placed(SetItem(p, k)) /\ Placed(Consume(p, n)) /\ Placed(SwitchOut(p)) /\ Placed(Pop)
  BY DEF Placed, Hurt, CheckHp, Die, SetAbility, SetItem, Consume, SwitchOut, Pop
<1>2. Placed(Apply(p, q, k)) /\ Placed(Applied(p, q, k, n)) /\ Placed(Secondary(p, q, k))
      /\ Placed(Turn(q, p)) /\ Placed(Use(q, p, k))
  BY DEF Placed, Apply, Applied, Secondary, Turn, Use
<1> QED
  BY <1>1, <1>2

LEMMA BroughtPlain ==
  ASSUME NEW d, Placed(d), NEW New,
         d.op \notin {"executeMove", "popExecution", "sendOut", "consume", "passItem", "setItem"},
         Head(calls).op \in Reactions => d.op \in Reactions
  PROVE  Brought(d, New)
BY DEF Brought

LEMMA GivenNone ==
  ASSUME CallsInv, calls # <<>>, calls' = <<>> \o Tail(calls)
  PROVE  Given({}) /\ calls' = Tail(calls)
<1>1. Tail(calls) \in Seq(Calling) /\ Filed(Tail(calls))
  BY Behind DEF CallsInv
<1>2. Put(calls', {}, Tail(calls)) /\ calls' = Tail(calls)
  BY <1>1, PutNone
<1> QED
  BY <1>2 DEF Given

LEMMA GivenOne ==
  ASSUME CallsInv, calls # <<>>, NEW a \in Calling, Ahead(a, Tail(calls)), Brought(a, {a}),
         calls' = <<a>> \o Tail(calls)
  PROVE  Given({a})
<1>1. Tail(calls) \in Seq(Calling) /\ Filed(Tail(calls))
  BY Behind DEF CallsInv
<1>2. Put(calls', {a}, Tail(calls))
  BY <1>1, PutSingle
<1> QED
  BY <1>2 DEF Given

LEMMA GivenTwo ==
  ASSUME CallsInv, calls # <<>>, NEW a \in Calling, NEW b \in Calling,
         Ahead(a, Tail(calls)), Ahead(b, Tail(calls)), Follows(a, b),
         Brought(a, {a, b}), Brought(b, {a, b}), calls' = <<a, b>> \o Tail(calls)
  PROVE  Given({a, b})
<1>1. Tail(calls) \in Seq(Calling) /\ Filed(Tail(calls))
  BY Behind DEF CallsInv
<1>2. Put(calls', {a, b}, Tail(calls))
  BY <1>1, PutPair
<1> QED
  BY <1>2 DEF Given

(* The first call, what it is about, and those behind it.                  *)
LEMMA Begins ==
  ASSUME CallsInv, calls # <<>>
  PROVE  /\ Head(calls) \in Calling /\ Tail(calls) \in Seq(Calling)
         /\ Ahead(Head(calls), Tail(calls)) /\ Placed(Head(calls))
         /\ Filed(Tail(calls)) /\ Entries(Tail(calls)) \subseteq Calling
         /\ Entries(calls) = {Head(calls)} \cup Entries(Tail(calls))
         /\ \A d \in Entries(Tail(calls)) : Placed(d)
<1>1. EffectsTypeOK /\ Filed(calls) /\ CallsPlaced
  BY DEF CallsInv
<1> QED
  BY <1>1, Behind DEF CallsPlaced

(* One of the reserves and the pokemon it may replace.                     *)
LEMMA Replaces ==
  ASSUME CallsInv, NEW p \in Pokemon, OnField(p), NEW q \in Reserves(PartyOf[p])
  PROVE  /\ SwitchOut(p) \in Calling /\ SendOut(q) \in Calling
         /\ Follows(SwitchOut(p), SendOut(q))
         /\ Head(calls).op \notin Reactions =>
              \A New : SwitchOut(p) \in New =>
                 Brought(SwitchOut(p), New) /\ Brought(SendOut(q), New)
<1>1. q \in Pokemon /\ PartyOf[q] = PartyOf[p] /\ ~fainted[q] /\ ~OnField(q)
  BY DEF Reserves
<1>2. SwitchOut(p) \in Calling /\ SendOut(q) \in Calling
  BY <1>1, CallsTyped DEF AllMoves
<1>3. SwitchOut(p).op = "switchOut" /\ SwitchOut(p).on = p
      /\ SendOut(q).op = "sendOut" /\ SendOut(q).on = q
  BY DEF SwitchOut, SendOut
<1>4. Follows(SwitchOut(p), SendOut(q))
  BY <1>3 DEF Follows
<1>5. Placed(SwitchOut(p)) /\ Placed(SendOut(q))
  BY <1>3 DEF Placed
<1>6. active[PartyOf[q]] = p
  BY <1>1 DEF OnField
<1> DEFINE a == SwitchOut(p)
           b == SendOut(q)
<1>7. ASSUME Head(calls).op \notin Reactions, NEW New, a \in New
      PROVE  Brought(a, New) /\ Brought(b, New)
  <2>1. /\ a.op = "switchOut" /\ a.on = p /\ b.op = "sendOut" /\ b.on = q
        /\ Placed(a) /\ Placed(b)
    BY <1>3, <1>5
  <2> HIDE DEF a, b
  <2>2. Brought(a, New)
    BY <1>7, <2>1 DEF Brought
  <2>3. Brought(b, New)
    BY <1>1, <1>6, <1>7, <2>1 DEF Brought
  <2> QED
    BY <2>2, <2>3
<1> QED
  BY <1>2, <1>4, <1>7

LEMMA UseGiven ==
  ASSUME CallsInv, EffectsAssumption, UseMove
  PROVE  \E New \in SUBSET Calling : Given(New)
<1> DEFINE c == Head(calls)
           rest == Tail(calls)
           u == c.user
           p == c.on
<1>1. calls # <<>> /\ c.op = "use"
  BY DEF UseMove, First
<1>2. /\ c \in Calling /\ rest \in Seq(Calling) /\ Ahead(c, rest) /\ Placed(c)
  BY <1>1, Begins
<1>3. u \in Pokemon /\ p \in Pokemon /\ c.move \in AllMoves
  BY <1>1, <1>2, CallFields
<1>4. OnField(p) /\ OnField(u)
  BY <1>1, <1>2 DEF Placed
<1>5. PICK inner \in Outcomes(u, p, c.move) \cup {<<>>} : calls' = inner \o rest
  BY DEF UseMove, Calls
<1>6. MaxHp \in Nat \ {0}
  BY Zenon DEF EffectsAssumption
<1>7. Damage \subseteq Int
  BY <1>6 DEF Damage
<1>8. c.op \notin Reactions
  BY <1>1 DEF Reactions
<1> HIDE DEF c, rest, u, p
<1>9. ASSUME NEW a, a.op \notin {"executeMove", "popExecution"} PROVE Ahead(a, rest)
  BY <1>1, <1>2, <1>9, EndBehind
<1>10. ASSUME NEW a \in Calling, Placed(a), calls' = <<a>> \o rest,
              a.op \in {"setHp", "setAbility", "applyStatus"}
       PROVE  Given({a})
  <2>1. Brought(a, {a})
    BY <1>8, <1>10, BroughtPlain DEF c
  <2> QED
    BY <1>1, <1>9, <1>10, <2>1, GivenOne DEF rest
<1>11. ASSUME NEW n \in Int, NEW b \in Calling, Placed(b), b.op \in {"secondary", "uturn"},
              calls' = <<Hurt(p, n), b>> \o rest
       PROVE  \E New \in SUBSET Calling : Given(New)
  <2> DEFINE a == Hurt(p, n)
  <2>1. a \in Calling /\ a.op = "setHp" /\ Placed(a)
    BY <1>3, <1>4, HurtIn, PlacedAre
  <2>2. calls' = <<a, b>> \o rest
    BY <1>11
  <2> HIDE DEF a
  <2>3. Brought(a, {a, b}) /\ Brought(b, {a, b})
    BY <1>8, <1>11, <2>1, BroughtPlain DEF c
  <2>4. Follows(a, b)
    BY <1>11, <2>1 DEF Follows
  <2>5. Given({a, b})
    BY <1>1, <1>9, <1>11, <2>1, <2>2, <2>3, <2>4, GivenTwo DEF rest
  <2> QED
    BY <1>11, <2>1, <2>5
<1>12. ASSUME NEW a \in Calling, Given({a}) PROVE \E New \in SUBSET Calling : Given(New)
  BY <1>12
<1>13. ASSUME NEW n \in Int, calls' = <<Hurt(p, n)>> \o rest
       PROVE  \E New \in SUBSET Calling : Given(New)
  <2> DEFINE a == Hurt(p, n)
  <2>1. a \in Calling /\ a.op = "setHp" /\ Placed(a)
    BY <1>3, <1>4, HurtIn, PlacedAre
  <2>2. calls' = <<a>> \o rest
    BY <1>13
  <2> HIDE DEF a
  <2> QED
    BY <1>10, <1>12, <2>1, <2>2
<1>14. CASE inner = <<>>
  <2>1. Given({})
    BY <1>1, <1>5, <1>14, GivenNone DEF rest
  <2> QED
    BY <2>1
<1>15. CASE inner \in Outcomes(u, p, c.move) /\ c.move \in {"Tackle", "Explosion"}
  <2>1. PICK n \in Damage : inner = <<Hurt(p, n)>>
    BY <1>15 DEF Outcomes
  <2> QED
    BY <1>5, <1>7, <1>13, <2>1
<1>16. CASE inner \in Outcomes(u, p, c.move) /\ c.move = "PoisonJab"
  <2> DEFINE b == Secondary(p, u, "Poison")
  <2>1. PICK n \in Damage : inner = <<Hurt(p, n), b>>
    BY <1>16 DEF Outcomes
  <2>2. b \in Calling /\ b.op = "secondary" /\ Placed(b)
    BY <1>3, <1>4, CallsTyped, PlacedAre DEF Statuses, Secondary
  <2> HIDE DEF b
  <2> QED
    BY <1>5, <1>7, <1>11, <2>1, <2>2
<1>17. CASE inner \in Outcomes(u, p, c.move) /\ c.move = "UTurn"
  <2> DEFINE b == Turn(u, p)
  <2>1. PICK n \in Damage : inner = <<Hurt(p, n), b>>
    BY <1>17 DEF Outcomes
  <2>2. b \in Calling /\ b.op = "uturn" /\ Placed(b)
    BY <1>3, <1>4, CallsTyped, PlacedAre DEF Turn
  <2> HIDE DEF b
  <2> QED
    BY <1>5, <1>7, <1>11, <2>1, <2>2
<1>18. CASE inner \in Outcomes(u, p, c.move) /\ c.move = "Roar"
  <2>1. inner = <<>> \/ \E q \in Reserves(PartyOf[p]) : inner = <<SwitchOut(p), SendOut(q)>>
    BY <1>18 DEF Outcomes
  <2>2. ASSUME NEW q \in Reserves(PartyOf[p]), inner = <<SwitchOut(p), SendOut(q)>>
        PROVE  \E New \in SUBSET Calling : Given(New)
    <3> DEFINE a == SwitchOut(p)
               b == SendOut(q)
    <3>1. /\ a \in Calling /\ b \in Calling /\ Follows(a, b)
          /\ Brought(a, {a, b}) /\ Brought(b, {a, b})
      BY <1>3, <1>4, <1>8, Replaces DEF c
    <3>2. a.op = "switchOut" /\ b.op = "sendOut"
      BY DEF SwitchOut, SendOut
    <3>3. calls' = <<a, b>> \o rest
      BY <1>5, <2>2
    <3> HIDE DEF a, b
    <3>4. Ahead(a, rest) /\ Ahead(b, rest)
      BY <1>9, <3>2
    <3>5. Given({a, b})
      BY <1>1, <3>1, <3>3, <3>4, GivenTwo DEF rest
    <3> QED
      BY <3>1, <3>5
  <2> QED
    BY <1>14, <2>1, <2>2
<1>19. CASE inner \in Outcomes(u, p, c.move) /\ c.move = "WorrySeed"
  <2> DEFINE a == SetAbility(p, "Insomnia")
  <2>1. inner = <<a>>
    BY <1>19 DEF Outcomes
  <2>2. a \in Calling /\ a.op = "setAbility" /\ Placed(a)
    BY <1>3, <1>4, CallsTyped, PlacedAre DEF Abilities, AllMoves, SetAbility
  <2> HIDE DEF a
  <2> QED
    BY <1>5, <1>10, <1>12, <2>1, <2>2
<1>20. CASE inner \in Outcomes(u, p, c.move) /\ c.move = "GastroAcid"
  <2> DEFINE a == Apply(p, u, "GastroAcid")
  <2>1. inner = <<a>>
    BY <1>20 DEF Outcomes
  <2>2. a \in Calling /\ a.op = "applyStatus" /\ Placed(a)
    BY <1>3, <1>4, CallsTyped, PlacedAre DEF Caught, AllMoves, Apply
  <2> HIDE DEF a
  <2> QED
    BY <1>5, <1>10, <1>12, <2>1, <2>2
<1> QED
  BY <1>3, <1>5, <1>14, <1>15, <1>16, <1>17, <1>18, <1>19, <1>20 DEF AllMoves

(* A blow makes the listeners of the damage speak, one after the other.    *)
LEMMA SameBlow ==
  ASSUME NEW c, NEW s, Ahead(c, s), Entries(s) \subseteq Calling, c.op \in Blows,
         NEW a, a.op \in Blows, a.on = c.on,
         a.op = "informDamaged" =>
            \A b \in Entries(s) : b.op = "passItem" => a.user = a.on
  PROVE  Ahead(a, s)
<1> SUFFICES ASSUME NEW b \in Entries(s) PROVE Follows(a, b)
  BY DEF Ahead
<1>1. b \in Calling /\ Follows(c, b)
  BY DEF Ahead
<1>2. c.op \in Reactions /\ a.op \in Reactions /\ c.op # "setItem"
  BY DEF Blows, Reactions
<1>3. /\ b.op \in Reactions \cup {"use", "uturn", "popExecution"} /\ b.op # "setItem"
      /\ b.op = "passItem" => c.on = b.user
  BY <1>1, <1>2, BehindReactions
<1>4. CASE b.op = "passItem"
  BY <1>3, <1>4 DEF Follows, Blows
<1>5. CASE b.op # "passItem"
  BY <1>2, <1>3, <1>5, ReactionsFollow
<1> QED
  BY <1>4, <1>5

LEMMA DamageGiven ==
  ASSUME CallsInv, EffectsAssumption, InformDamaged
  PROVE  \E New \in SUBSET Calling : Given(New)
<1> DEFINE c == Head(calls)
           rest == Tail(calls)
           more == [c EXCEPT !.at = @ + 1]
           list == effects[c.on]
           e == list[c.at]
<1>1. calls # <<>> /\ c.op = "informDamaged"
  BY DEF InformDamaged, First
<1>2. /\ c \in Calling /\ rest \in Seq(Calling) /\ Ahead(c, rest) /\ Placed(c)
      /\ Filed(rest) /\ Entries(rest) \subseteq Calling
  BY <1>1, Begins
<1>3. c.user \in Pokemon /\ c.on \in Pokemon /\ c.move \in AllMoves /\ c.at \in Nat \ {0}
  BY <1>1, <1>2, CallFields
<1>4. /\ OnField(c.on) /\ OnField(c.user) /\ executing # <<>> /\ c.user = executing[1].user
  BY <1>1, <1>2 DEF Placed
<1>5. more \in Calling
  BY <1>1, <1>2, NextEntry
<1>6. more.op = "informDamaged" /\ more.on = c.on /\ more.user = c.user
  BY <1>1, <1>2 DEF Calling
<1>7. list \in Seq(Effect) /\ Len(list) \in Nat
  <2>1. effects \in [Pokemon -> Seq(Effect)]
    BY DEF CallsInv, EffectsTypeOK
  <2> QED
    BY <1>3, <2>1, LenProperties
<1>8. \/ calls' = <<>> \o rest
      \/ calls' = <<more>> \o rest
      \/ /\ c.at <= Len(list) /\ IsActive(list, e)
         /\ \E inner \in OnDamage(c.on, c.user, c.move, e) : calls' = (inner \o <<more>>) \o rest
  <2>1. IF c.at > Len(list) THEN calls' = <<>> \o rest
        ELSE IF ~IsActive(list, e) THEN calls' = <<more>> \o rest
        ELSE \E inner \in OnDamage(c.on, c.user, c.move, e) : calls' = (inner \o <<more>>) \o rest
    BY DEF InformDamaged, Calls
  <2> HIDE DEF c, rest, more, list, e
  <2>2. c.at > Len(list) \/ c.at <= Len(list)
    BY <1>3, <1>7
  <2> QED
    BY <2>1, <2>2
<1> HIDE DEF c, rest, more, list, e
<1>9. Placed(more) /\ \A New : Brought(more, New)
  <2>1. Placed(more)
    BY <1>3, <1>4, <1>6 DEF Placed
  <2>2. more.op \in Reactions
    BY <1>6 DEF Reactions
  <2> QED
    BY <1>6, <2>1, <2>2, BroughtPlain
<1>10. Ahead(more, rest)
  <2> SUFFICES ASSUME NEW b \in Entries(rest), b.op = "passItem" PROVE c.user = c.on
    BY <1>1, <1>2, <1>6, SameBlow DEF Blows
  <2>1. b \in Calling /\ Follows(c, b)
    BY <1>2 DEF Ahead
  <2> QED
    BY <1>1, <2>1 DEF Follows
<1> DEFINE t == <<more>> \o rest
<1>11. Put(t, {more}, rest)
  BY <1>2, <1>5, <1>10, PutSingle
<1>12. t \in Seq(Calling) /\ Entries(t) = {more} \cup Entries(rest)
  BY <1>11 DEF Put
<1> HIDE DEF t
<1>13. CASE calls' = <<>> \o rest
  <2>1. Given({})
    BY <1>1, <1>13, GivenNone DEF rest
  <2> QED
    BY <2>1
<1>14. CASE calls' = t
  <2>1. Given({more})
    BY <1>9, <1>11, <1>14 DEF Given, rest
  <2> QED
    BY <1>5, <2>1
<1>15. CASE /\ c.at <= Len(list) /\ IsActive(list, e)
            /\ \E inner \in OnDamage(c.on, c.user, c.move, e) : calls' = (inner \o <<more>>) \o rest
  <2>1. e \in Effect /\ e \in ToSet(list) /\ ~e.gone
    <3>1. c.at \in 1 .. Len(list) /\ DOMAIN list = 1 .. Len(list)
      BY <1>3, <1>7, <1>15, LenProperties
    <3>2. ~e.gone
      BY <1>15 DEF IsActive
    <3> QED
      BY <1>7, <3>1, <3>2, ElementOfSeq DEF e, ToSet
  <2>2. PICK inner \in OnDamage(c.on, c.user, c.move, e) : calls' = (inner \o <<more>>) \o rest
    BY <1>15
  <2>3. inner \in Seq(Calling) /\ <<more>> \in Seq(Calling)
    BY <1>3, <1>5, <2>1, OnDamageTyped
  <2>4. calls' = inner \o t
    BY <1>2, <2>2, <2>3, ConcatAssociative DEF t
  <2> DEFINE Blow == Hurt(c.user, 1)
             Slow == Apply(c.user, c.on, "Paralysis")
             Pass == PassItem(c.on, c.user)
             Heal == Hurt(c.on, -1)
             Eat == Consume(c.on, e.id)
  <2>5. /\ \/ inner \in {<<>>, <<Blow>>, <<Slow>>}
           \/ inner = <<Blow, Pass>> /\ e.kind = "StickyBarb"
           \/ inner \in {<<Blow, Eat>>, <<Heal, Eat>>} /\ e.kind \in Berries
        /\ c.on = c.user => inner = <<>>
    BY <2>2 DEF OnDamage, Berries
  <2>6. /\ Blow \in Calling /\ Blow.op = "setHp" /\ Placed(Blow) /\ Blow.on = c.user
        /\ Heal \in Calling /\ Heal.op = "setHp" /\ Placed(Heal)
    <3>1. 1 \in Int /\ -1 \in Int
      OBVIOUS
    <3>2. Blow \in Calling /\ Heal \in Calling
      BY <1>3, <3>1, CallsTyped
    <3>3. Blow.op = "setHp" /\ Blow.on = c.user /\ Heal.op = "setHp"
      BY DEF Hurt
    <3>4. Placed(Blow)
      BY <1>3, <1>4, PlacedAre
    <3>5. Placed(Heal)
      BY <1>3, <1>4, PlacedAre
    <3> QED
      BY <3>2, <3>3, <3>4, <3>5
  <2>7. /\ Slow \in Calling /\ Slow.op = "applyStatus" /\ Placed(Slow)
        /\ Eat \in Calling /\ Eat.op = "consume" /\ Placed(Eat)
        /\ Eat.on = c.on /\ Eat.id = e.id
    <3>1. Slow \in Calling /\ Eat \in Calling
      BY <1>3, <2>1, CallsTyped DEF Effect, Caught, Statuses
    <3>2. Placed(Slow) /\ Placed(Eat)
      BY <1>3, <1>4, PlacedAre
    <3> QED
      BY <3>1, <3>2 DEF Apply, Consume
  <2>8. /\ Pass \in Calling /\ Pass.op = "passItem" /\ Pass.on = c.on /\ Pass.user = c.user
    BY <1>3, CallsTyped DEF PassItem
  <2> HIDE DEF Blow, Slow, Pass, Eat, Heal
  <2>9. CASE inner = <<>>
    <3>1. calls' = t
      BY <1>12, <2>4, <2>9, ConcatEmptySeq
    <3> QED
      BY <1>14, <3>1
  <2>10. CASE inner # <<>>
    <3>1. c.on # c.user
      BY <2>5, <2>10
    <3>2. ASSUME NEW a \in Calling, a.op \in Reactions PROVE Ahead(a, t)
      <4>1. Ahead(a, rest)
        BY <1>1, <1>2, <3>1, <3>2, ReactionsAhead DEF Reactions
      <4>2. Follows(a, more)
        BY <1>5, <1>6, <3>2, ReactionsFollow DEF Reactions
      <4> QED
        BY <1>12, <4>1, <4>2 DEF Ahead
    <3>3. ASSUME NEW a \in Calling, a.op \in {"setHp", "applyStatus"}, Placed(a),
                 calls' = <<a>> \o t
          PROVE  \E New \in SUBSET Calling : Given(New)
      <4>1. a.op \in Reactions
        BY <3>3 DEF Reactions
      <4>2. Put(calls', {a} \cup {more}, rest)
        BY <1>11, <3>2, <3>3, <4>1, PutOne
      <4>3. \A New : Brought(a, New)
        BY <3>3, <4>1, BroughtPlain
      <4> DEFINE N == {a} \cup {more}
      <4>4. /\ Put(calls', N, Tail(calls)) /\ N \in SUBSET Calling
            /\ \A d \in N : d = a \/ d = more
        BY <1>5, <3>3, <4>2 DEF rest
      <4> HIDE DEF N
      <4>5. \A d \in N : Brought(d, N)
        <5> SUFFICES ASSUME NEW d \in N PROVE Brought(d, N)
          OBVIOUS
        <5>1. CASE d = a
          BY <4>3, <5>1
        <5>2. CASE d = more
          BY <1>9, <5>2
        <5> QED
          BY <4>4, <5>1, <5>2
      <4> QED
        BY <4>4, <4>5, Zenon DEF Given
    <3>4. ASSUME NEW a \in Calling, a.op = "setHp", Placed(a), NEW b \in Calling,
                 b.op \in {"passItem", "consume"}, Follows(a, b),
                 \A New : Brought(b, New), calls' = <<a, b>> \o t
          PROVE  \E New \in SUBSET Calling : Given(New)
      <4>1. a.op \in Reactions /\ b.op \in Reactions
        BY <3>4 DEF Reactions
      <4>2. Put(<<b>> \o t, {b} \cup {more}, rest)
        BY <1>11, <3>2, <4>1, PutOne
      <4>3. Ahead(a, t) /\ Entries(<<b>> \o t) = {b} \cup Entries(t)
        BY <1>12, <3>2, <4>1, EntriesMore
      <4>4. Ahead(a, <<b>> \o t)
        BY <3>4, <4>3 DEF Ahead
      <4>5. Put(<<a>> \o (<<b>> \o t), {a} \cup ({b} \cup {more}), rest)
        BY <4>2, <4>4, PutOne
      <4>6. calls' = <<a>> \o (<<b>> \o t)
        BY <1>12, <3>4, TwoMore
      <4>7. \A New : Brought(a, New)
        BY <3>4, <4>1, BroughtPlain
      <4> DEFINE N == {a} \cup ({b} \cup {more})
      <4>8. Put(calls', N, Tail(calls))
        BY <4>5, <4>6 DEF rest
      <4>9. \A d \in N : d = a \/ d = b \/ d = more
        OBVIOUS
      <4>10. N \in SUBSET Calling
        BY <1>5, <3>4
      <4> HIDE DEF N
      <4>11. \A d \in N : Brought(d, N)
        <5> SUFFICES ASSUME NEW d \in N PROVE Brought(d, N)
          OBVIOUS
        <5>1. CASE d = a
          BY <4>7, <5>1
        <5>2. CASE d = b
          BY <3>4, <5>2
        <5>3. CASE d = more
          BY <1>9, <5>3
        <5> QED
          BY <4>9, <5>1, <5>2, <5>3
      <4> QED
        BY <4>8, <4>10, <4>11, Zenon DEF Given
    <3>5. CASE inner \in {<<Blow>>, <<Slow>>}
      BY <2>4, <2>6, <2>7, <3>3, <3>5
    <3>6. CASE inner = <<Blow, Pass>> /\ e.kind = "StickyBarb"
      <4>1. Has(effects[c.on], "StickyBarb")
        BY <2>1, <3>6 DEF Has, Living, list
      <4>2. Placed(Pass)
        BY <1>3, <1>4, <2>8, <3>1 DEF Placed
      <4>3. \A New : Brought(Pass, New)
        BY <2>8, <4>1, <4>2 DEF Brought, Reactions
      <4>4. Follows(Blow, Pass)
        BY <2>6, <2>8 DEF Follows, Blows
      <4> QED
        BY <2>4, <2>6, <2>8, <3>4, <3>6, <4>3, <4>4
    <3>7. CASE inner \in {<<Blow, Eat>>, <<Heal, Eat>>} /\ e.kind \in Berries
      <4>1. \E x \in ToSet(effects[Eat.on]) : x.id = Eat.id /\ x.kind \in Berries
        BY <2>1, <2>7, <3>7 DEF list
      <4>2. \A New : Brought(Eat, New)
        BY <2>7, <4>1 DEF Brought, Reactions
      <4>3. Follows(Blow, Eat) /\ Follows(Heal, Eat)
        BY <2>6, <2>7 DEF Follows
      <4> QED
        BY <2>4, <2>6, <2>7, <3>4, <3>7, <4>2, <4>3
    <3> QED
      BY <2>5, <2>10, <3>5, <3>6, <3>7
  <2> QED
    BY <2>9, <2>10
<1> QED
  BY <1>8, <1>13, <1>14, <1>15 DEF t

LEMMA OthersGiven ==
  ASSUME CallsInv, EffectsAssumption,
         CheckDeath \/ SecondaryEffect \/ UTurn \/ InformEffectApplied \/ PassSticky
           \/ ApplyStatus
  PROVE  \E New \in SUBSET Calling : Given(New)
<1> DEFINE c == Head(calls)
           rest == Tail(calls)
<1>1. calls # <<>>
  BY DEF CheckDeath, SecondaryEffect, UTurn, InformEffectApplied, PassSticky, ApplyStatus,
         First
<1>2. /\ c \in Calling /\ rest \in Seq(Calling) /\ Ahead(c, rest) /\ Placed(c)
      /\ Filed(rest) /\ Entries(rest) \subseteq Calling
  BY <1>1, Begins
<1> HIDE DEF c, rest
<1>3. ASSUME calls' = <<>> \o rest PROVE \E New \in SUBSET Calling : Given(New)
  <2>1. Given({})
    BY <1>1, <1>3, GivenNone DEF rest
  <2> QED
    BY <2>1
<1>4. ASSUME NEW a \in Calling, a.op \in {"faint", "applyStatus", "informEffectApplied"},
             Placed(a), Ahead(a, rest), calls' = <<a>> \o rest
      PROVE  \E New \in SUBSET Calling : Given(New)
  <2>1. a.op \in Reactions
    BY <1>4 DEF Reactions
  <2>2. Brought(a, {a})
    BY <1>4, <2>1, BroughtPlain
  <2>3. Given({a})
    BY <1>1, <1>4, <2>2, GivenOne DEF rest
  <2> QED
    BY <1>4, <2>3
<1>5. CASE CheckDeath
  <2> DEFINE a == Die(c.on)
  <2>1. c.op = "checkHp"
    BY <1>5 DEF CheckDeath, First, c
  <2>2. c.on \in Pokemon /\ OnField(c.on)
    BY <1>2, <2>1, CallFields DEF Placed
  <2>3. a \in Calling /\ a.op = "faint" /\ a.on = c.on /\ Placed(a)
    BY <2>2, CallsTyped, PlacedAre DEF Die, AllMoves
  <2>4. calls' = <<>> \o rest \/ calls' = <<a>> \o rest
    BY <1>5 DEF CheckDeath, Calls, c, rest
  <2> HIDE DEF a
  <2>5. Ahead(a, rest)
    BY <1>2, <2>1, <2>3, SameBlow DEF Blows
  <2> QED
    BY <1>3, <1>4, <2>3, <2>4, <2>5
<1>6. CASE SecondaryEffect
  <2> DEFINE a == Apply(c.on, c.user, c.kind)
  <2>1. c.op = "secondary"
    BY <1>6 DEF SecondaryEffect, First, c
  <2>2. c.on \in Pokemon /\ c.user \in Pokemon /\ c.kind \in Caught
        /\ OnField(c.on) /\ OnField(c.user)
    BY <1>2, <2>1, CallFields DEF Caught, Placed
  <2>3. a \in Calling /\ a.op = "applyStatus" /\ Placed(a)
    BY <2>2, CallsTyped, PlacedAre DEF AllMoves, Apply
  <2>4. calls' = <<>> \o rest \/ calls' = <<a>> \o rest
    BY <1>6 DEF SecondaryEffect, Calls, c, rest
  <2> HIDE DEF a
  <2>5. Ahead(a, rest)
    BY <1>2, <2>1, <2>3, ReactionsAhead DEF Reactions, Blows
  <2> QED
    BY <1>3, <1>4, <2>3, <2>4, <2>5
<1>7. CASE UTurn
  <2>1. c.op = "uturn"
    BY <1>7 DEF UTurn, First, c
  <2>2. c.user \in Pokemon /\ OnField(c.user)
    BY <1>2, <2>1, CallFields DEF Placed
  <2>3. \/ calls' = <<>> \o rest
        \/ \E q \in Reserves(PartyOf[c.user]) : calls' = <<SwitchOut(c.user), SendOut(q)>> \o rest
    BY <1>7 DEF UTurn, Calls, c, rest
  <2>4. ASSUME NEW q \in Reserves(PartyOf[c.user]),
               calls' = <<SwitchOut(c.user), SendOut(q)>> \o rest
        PROVE  \E New \in SUBSET Calling : Given(New)
    <3> DEFINE a == SwitchOut(c.user)
               b == SendOut(q)
    <3>1. c.op \notin Reactions
      BY <2>1 DEF Reactions
    <3>2. /\ a \in Calling /\ b \in Calling /\ Follows(a, b)
          /\ Brought(a, {a, b}) /\ Brought(b, {a, b})
      BY <2>2, <3>1, Replaces DEF c
    <3>3. a.op = "switchOut" /\ b.op = "sendOut"
      BY DEF SwitchOut, SendOut
    <3>4. calls' = <<a, b>> \o rest
      BY <2>4
    <3> HIDE DEF a, b
    <3>5. Ahead(a, rest) /\ Ahead(b, rest)
      BY <1>2, <2>1, <3>3, EndBehind
    <3>6. Given({a, b})
      BY <1>1, <3>2, <3>4, <3>5, GivenTwo DEF rest
    <3> QED
      BY <3>2, <3>6
  <2> QED
    BY <1>3, <2>3, <2>4
<1>8. CASE InformEffectApplied
  <2>1. c.op = "informEffectApplied"
    BY <1>8 DEF InformEffectApplied, First, c
  <2>2. c.inducer \in Pokemon /\ c.on \in Pokemon /\ c.kind \in Caught
        /\ OnField(c.on) /\ OnField(c.inducer)
    BY <1>2, <2>1, CallFields DEF Placed
  <2> DEFINE more == [c EXCEPT !.at = @ + 1]
             back == Apply(c.inducer, c.inducer, c.kind)
  <2>3. more \in Calling /\ back \in Calling
    BY <1>2, <2>1, <2>2, NextEntry, CallsTyped DEF AllMoves
  <2>4. /\ more.op = "informEffectApplied" /\ more.on = c.on /\ more.inducer = c.inducer
        /\ back.op = "applyStatus"
    BY <1>2, <2>1, SMTT(30) DEF Calling, Apply
  <2>5. Placed(back)
    BY <2>2, PlacedAre
  <2>6. \/ calls' = <<>> \o rest \/ calls' = <<more>> \o rest
        \/ calls' = (OnApplied(c.on, c.inducer, c.kind, effects[c.on][c.at]) \o <<more>>) \o rest
    BY <1>8, Zenon DEF InformEffectApplied, Calls, c, rest
  <2>7. \/ OnApplied(c.on, c.inducer, c.kind, effects[c.on][c.at]) = <<>>
        \/ OnApplied(c.on, c.inducer, c.kind, effects[c.on][c.at]) = <<back>>
    BY DEF OnApplied
  <2> HIDE DEF more, back
  <2>8. Placed(more)
    BY <2>2, <2>4 DEF Placed
  <2>9. <<more>> \in Seq(Calling) /\ <<back>> \in Seq(Calling)
    BY <2>3
  <2>10. <<>> \o <<more>> = <<more>>
    BY <2>9, ConcatEmptySeq
  <2>11. (<<back>> \o <<more>>) \o rest = <<back>> \o (<<more>> \o rest)
    BY <1>2, <2>9, ConcatAssociative
  <2>12. <<back, more>> \o rest = <<back>> \o (<<more>> \o rest)
    BY <1>2, <2>3, TwoMore, SMTT(30)
  <2>13. \/ calls' = <<>> \o rest \/ calls' = <<more>> \o rest
         \/ calls' = <<back, more>> \o rest
    BY <2>6, <2>7, <2>10, <2>11, <2>12, Zenon
  <2>14. Ahead(more, rest) /\ Ahead(back, rest)
    BY <1>2, <2>1, <2>4, ReactionsAhead DEF Reactions, Blows
  <2>15. CASE calls' = <<back, more>> \o rest
    <3>1. Follows(back, more)
      BY <2>4 DEF Follows
    <3>2. back.op \in Reactions /\ more.op \in Reactions
      BY <2>4 DEF Reactions
    <3>3. Brought(back, {back, more}) /\ Brought(more, {back, more})
      BY <2>4, <2>5, <2>8, <3>2, BroughtPlain
    <3>4. Given({back, more})
      BY <1>1, <2>3, <2>14, <2>15, <3>1, <3>3, GivenTwo DEF rest
    <3> QED
      BY <2>3, <3>4
  <2> QED
    BY <1>3, <1>4, <2>3, <2>4, <2>8, <2>13, <2>14, <2>15
<1>9. CASE PassSticky
  <2> DEFINE a == SetItem(c.user, "StickyBarb")
             b == SetItem(c.on, None)
  <2>1. c.op = "passItem"
    BY <1>9 DEF PassSticky, First, c
  <2>2. /\ c.on \in Pokemon /\ c.user \in Pokemon /\ OnField(c.on) /\ OnField(c.user)
        /\ c.on # c.user
    BY <1>2, <2>1, CallFields DEF Placed
  <2>3. a \in Calling /\ b \in Calling /\ Placed(a) /\ Placed(b)
    BY <2>2, CallsTyped, PlacedAre DEF AllMoves
  <2>4. /\ a.op = "setItem" /\ a.on = c.user /\ a.kind = "StickyBarb"
        /\ b.op = "setItem" /\ b.on = c.on /\ b.kind = None
    BY DEF SetItem
  <2>5. \/ calls' = <<>> \o rest
        \/ ~Holds(c.user) /\ calls' = <<a, b>> \o rest
    BY <1>9 DEF PassSticky, Calls, c, rest
  <2>6. {a, b} = HandOn(c)
    BY DEF HandOn
  <2> HIDE DEF a, b
  <2>7. CASE ~Holds(c.user) /\ calls' = <<a, b>> \o rest
    <3>1. "StickyBarb" # None
      <4>1. None \notin Items
        BY Zenon DEF EffectsAssumption
      <4> QED
        BY <4>1 DEF Items
    <3>2. Follows(a, b)
      BY <2>2, <2>4, <3>1 DEF Follows
    <3>3. Ahead(a, rest) /\ Ahead(b, rest)
      BY <1>2, <2>1, <2>4, ReactionsAhead DEF Reactions, Blows
    <3>4. Brought(a, {a, b}) /\ Brought(b, {a, b})
      BY <2>1, <2>3, <2>4, <2>6, <2>7 DEF Brought, c, Reactions
    <3>5. Given({a, b})
      BY <1>1, <2>3, <2>7, <3>2, <3>3, <3>4, GivenTwo DEF rest
    <3> QED
      BY <2>3, <3>5
  <2> QED
    BY <1>3, <2>5, <2>7
<1>10. CASE ApplyStatus
  <2> DEFINE a == Applied(c.on, c.inducer, c.kind, 1)
  <2>1. c.op = "applyStatus"
    BY <1>10 DEF ApplyStatus, First, c
  <2>2. c.on \in Pokemon /\ c.inducer \in Pokemon /\ c.kind \in Caught
        /\ OnField(c.on) /\ OnField(c.inducer)
    BY <1>2, <2>1, CallFields DEF Placed
  <2>3. a \in Calling /\ a.op = "informEffectApplied" /\ Placed(a)
    <3>1. a \in Calling
      BY <2>2, CallsTyped DEF AllMoves
    <3>2. a.op = "informEffectApplied"
      BY DEF Applied
    <3>3. Placed(a)
      BY <2>2, PlacedAre
    <3> QED
      BY <3>1, <3>2, <3>3, Zenon
  <2>4. calls' = <<>> \o rest \/ calls' = <<a>> \o rest
    BY <1>10 DEF ApplyStatus, Calls, c, rest
  <2> HIDE DEF a
  <2>5. Ahead(a, rest)
    BY <1>2, <2>1, <2>3, ReactionsAhead DEF Reactions, Blows
  <2> QED
    BY <1>3, <1>4, <2>3, <2>4, <2>5
<1> QED
  BY <1>5, <1>6, <1>7, <1>8, <1>9, <1>10

LEMMA SetHpGiven ==
  ASSUME CallsInv, SetHp
  PROVE  \E New \in SUBSET Calling : Given(New)
<1> DEFINE c == Head(calls)
           rest == Tail(calls)
           p == c.on
           u == executing[1].user
           check == CheckHp(p)
           blow == Damaged(p, u, executing[1].move, 1)
<1>1. calls # <<>> /\ c.op = "setHp"
  BY DEF SetHp, First
<1>2. /\ c \in Calling /\ rest \in Seq(Calling) /\ Ahead(c, rest) /\ Placed(c)
      /\ Filed(rest) /\ Entries(rest) \subseteq Calling
      /\ Entries(calls) = {c} \cup Entries(rest)
      /\ \A d \in Entries(rest) : Placed(d)
  BY <1>1, Begins
<1>3. p \in Pokemon /\ OnField(p)
  BY <1>1, <1>2, CallFields DEF Placed
<1>4. \/ calls' = <<>> \o rest
      \/ calls' = (<<>> \o <<check>>) \o rest
      \/ executing # <<>> /\ calls' = (<<blow>> \o <<check>>) \o rest
  BY Zenon DEF SetHp, Calls
<1>5. check \in Calling /\ check.op = "checkHp" /\ check.on = p /\ Placed(check)
  BY <1>3, CallsTyped, PlacedAre DEF CheckHp, AllMoves
<1>6. executing # <<>> => executing[1] \in Execution
  <2>1. executing \in Seq(Execution)
    BY DEF CallsInv, EffectsTypeOK
  <2>2. executing # <<>> => 1 \in 1 .. Len(executing)
    BY <2>1, EmptySeq
  <2> QED
    BY <2>1, <2>2, ElementOfSeq
<1>7. executing # <<>> =>
        /\ blow \in Calling /\ blow.op = "informDamaged" /\ blow.on = p /\ blow.user = u
        /\ u \in Pokemon
  <2>1. executing # <<>> => u \in Pokemon /\ executing[1].move \in AllMoves
    BY <1>6 DEF Execution
  <2> QED
    BY <1>3, <2>1, CallsTyped DEF Damaged
<1>8. executing # <<>> => OnField(u)
  BY <1>1, <1>2 DEF CallsInv, UserStays
<1> HIDE DEF c, rest, check, blow
<1>9. executing # <<>> => Placed(blow)
  BY <1>3, <1>7, <1>8 DEF Placed
<1>10. Ahead(check, rest)
  BY <1>1, <1>2, <1>5, SameBlow DEF Blows
<1>11. ASSUME executing # <<>> PROVE Ahead(blow, rest)
  <2> SUFFICES ASSUME NEW b \in Entries(rest), b.op = "passItem" PROVE u = p
    BY <1>1, <1>2, <1>7, <1>11, SameBlow DEF Blows
  <2>1. Follows(c, b) /\ Placed(b)
    BY <1>2 DEF Ahead
  <2>2. c.on = b.user
    BY <2>1 DEF Follows
  <2>3. b.user = executing[1].user
    BY <2>1 DEF Placed
  <2> QED
    BY <2>2, <2>3
<1>12. <<check>> \in Seq(Calling) /\ (executing # <<>> => <<blow>> \in Seq(Calling))
  BY <1>5, <1>7
<1>13. \A New : Brought(check, New) /\ (executing # <<>> => Brought(blow, New))
  <2>1. check.op \in Reactions /\ (executing # <<>> => blow.op \in Reactions)
    BY <1>5, <1>7 DEF Reactions
  <2> QED
    BY <1>5, <1>7, <1>9, <2>1, BroughtPlain
<1>14. CASE calls' = <<>> \o rest
  <2>1. Given({})
    BY <1>1, <1>14, GivenNone DEF rest
  <2> QED
    BY <2>1
<1>15. CASE calls' = (<<>> \o <<check>>) \o rest
  <2>1. calls' = <<check>> \o rest
    BY <1>12, <1>15, ConcatEmptySeq
  <2>2. Given({check})
    BY <1>1, <1>5, <1>10, <1>13, <2>1, GivenOne DEF rest
  <2> QED
    BY <1>5, <2>2
<1>16. CASE executing # <<>> /\ calls' = (<<blow>> \o <<check>>) \o rest
  <2>1. calls' = <<blow>> \o (<<check>> \o rest)
    BY <1>2, <1>12, <1>16, ConcatAssociative
  <2>2. calls' = <<blow, check>> \o rest
    BY <1>2, <1>5, <1>7, <1>16, <2>1, TwoMore
  <2>3. Follows(blow, check)
    BY <1>5, <1>7, <1>16 DEF Follows
  <2>4. Given({blow, check})
    BY <1>1, <1>5, <1>7, <1>10, <1>11, <1>13, <1>16, <2>2, <2>3, GivenTwo DEF rest
  <2> QED
    BY <1>5, <1>7, <1>16, <2>4
<1> QED
  BY <1>4, <1>14, <1>15, <1>16

(* These return without calling anything.                                  *)
Mute == {"popExecution", "faint", "setAbility", "setItem", "consume", "switchOut",
         "sendOut"}

LEMMA MuteSteps ==
  ASSUME PopExecution \/ Faint \/ ReplaceAbility \/ ReplaceItem \/ ConsumeItem
           \/ SwitchOutPokemon \/ SendOutPokemon
  PROVE  /\ calls # <<>> /\ Head(calls).op \in Mute
         /\ calls' = <<>> \o Tail(calls)
<1>1. CASE PopExecution
  BY <1>1 DEF PopExecution, First, Calls, Mute
<1>2. CASE Faint
  BY <1>2 DEF Faint, First, Calls, Mute
<1>3. CASE ReplaceAbility
  BY <1>3 DEF ReplaceAbility, First, Calls, Mute
<1>4. CASE ReplaceItem
  BY <1>4 DEF ReplaceItem, First, Calls, Mute
<1>5. CASE ConsumeItem
  BY <1>5 DEF ConsumeItem, First, Calls, Mute
<1>6. CASE SwitchOutPokemon
  BY <1>6 DEF SwitchOutPokemon, First, Calls, Mute
<1>7. CASE SendOutPokemon
  BY <1>7 DEF SendOutPokemon, First, Calls, Mute
<1> QED
  BY <1>1, <1>2, <1>3, <1>4, <1>5, <1>6, <1>7

(* What every call but the first of a move leaves behind it.               *)
LEMMA CallGiven ==
  ASSUME CallsInv, EffectsAssumption, Call, ~ExecuteMove
  PROVE  \E New \in SUBSET Calling : Given(New)
<1>1. CASE PopExecution \/ Faint \/ ReplaceAbility \/ ReplaceItem \/ ConsumeItem
             \/ SwitchOutPokemon \/ SendOutPokemon
  <2>1. Given({})
    BY <1>1, MuteSteps, GivenNone
  <2> QED
    BY <2>1
<1>2. CASE UseMove
  BY <1>2, UseGiven
<1>3. CASE InformDamaged
  BY <1>3, DamageGiven
<1>4. CASE SetHp
  BY <1>4, SetHpGiven
<1>5. CASE CheckDeath \/ SecondaryEffect \/ UTurn \/ InformEffectApplied \/ PassSticky
             \/ ApplyStatus
  BY <1>5, OthersGiven
<1> QED
  BY <1>1, <1>2, <1>3, <1>4, <1>5 DEF Call

(* What a call leaves alone.                                               *)
LEMMA CallFrame ==
  ASSUME Call
  PROVE  /\ calls # <<>> /\ UNCHANGED <<names, round>>
         /\ Head(calls).op # "sendOut" => UNCHANGED active
         /\ Head(calls).op \notin {"executeMove", "popExecution"} => UNCHANGED executing
         /\ Head(calls).op # "faint" => UNCHANGED fainted
         /\ Head(calls).op \in Mute => calls' = <<>> \o Tail(calls)
         /\ Head(calls).op = "executeMove" <=> ExecuteMove
<1>1. CASE ExecuteMove
  BY <1>1 DEF ExecuteMove, First, body, Mute
<1>2. CASE UseMove
  BY <1>2 DEF UseMove, First, body, ExecuteMove, Mute
<1>3. CASE PopExecution
  BY <1>3 DEF PopExecution, First, body, ExecuteMove, Mute, Calls
<1>4. CASE SecondaryEffect
  BY <1>4 DEF SecondaryEffect, First, body, ExecuteMove, Mute
<1>5. CASE UTurn
  BY <1>5 DEF UTurn, First, body, ExecuteMove, Mute
<1>6. CASE SetHp
  BY <1>6, Zenon DEF SetHp, First, body, ExecuteMove, Mute
<1>7. CASE InformDamaged
  BY <1>7 DEF InformDamaged, First, body, ExecuteMove, Mute
<1>8. CASE CheckDeath
  BY <1>8 DEF CheckDeath, First, body, ExecuteMove, Mute
<1>9. CASE Faint
  BY <1>9 DEF Faint, First, body, ExecuteMove, Mute, Calls
<1>10. CASE ApplyStatus
  BY <1>10 DEF ApplyStatus, First, body, ExecuteMove, Mute
<1>11. CASE InformEffectApplied
  BY <1>11 DEF InformEffectApplied, First, body, ExecuteMove, Mute
<1>12. CASE ReplaceAbility
  BY <1>12 DEF ReplaceAbility, First, body, ExecuteMove, Mute, Calls
<1>13. CASE ReplaceItem
  BY <1>13 DEF ReplaceItem, First, body, ExecuteMove, Mute, Calls
<1>14. CASE PassSticky
  BY <1>14 DEF PassSticky, First, body, ExecuteMove, Mute
<1>15. CASE ConsumeItem
  BY <1>15 DEF ConsumeItem, First, body, ExecuteMove, Mute, Calls
<1>16. CASE SwitchOutPokemon
  BY <1>16 DEF SwitchOutPokemon, First, body, ExecuteMove, Mute, Calls
<1>17. CASE SendOutPokemon
  BY <1>17 DEF SendOutPokemon, First, body, ExecuteMove, Mute, Calls
<1> QED
  BY <1>1, <1>2, <1>3, <1>4, <1>5, <1>6, <1>7, <1>8, <1>9, <1>10, <1>11, <1>12, <1>13,
     <1>14, <1>15, <1>16, <1>17 DEF Call

(* Which step makes the first call.                                        *)
LEMMA CallIs ==
  ASSUME Call
  PROVE  /\ Head(calls).op = "executeMove" => ExecuteMove
         /\ Head(calls).op = "use" => UseMove
         /\ Head(calls).op = "popExecution" => PopExecution
         /\ Head(calls).op = "secondary" => SecondaryEffect
         /\ Head(calls).op = "uturn" => UTurn
         /\ Head(calls).op = "setHp" => SetHp
         /\ Head(calls).op = "informDamaged" => InformDamaged
         /\ Head(calls).op = "checkHp" => CheckDeath
         /\ Head(calls).op = "faint" => Faint
         /\ Head(calls).op = "applyStatus" => ApplyStatus
         /\ Head(calls).op = "informEffectApplied" => InformEffectApplied
         /\ Head(calls).op = "setAbility" => ReplaceAbility
         /\ Head(calls).op = "setItem" => ReplaceItem
         /\ Head(calls).op = "passItem" => PassSticky
         /\ Head(calls).op = "consume" => ConsumeItem
         /\ Head(calls).op = "switchOut" => SwitchOutPokemon
         /\ Head(calls).op = "sendOut" => SendOutPokemon
<1>1. ExecuteMove => Head(calls).op = "executeMove"
  BY Zenon DEF ExecuteMove, First
<1>2. UseMove => Head(calls).op = "use"
  BY Zenon DEF UseMove, First
<1>3. PopExecution => Head(calls).op = "popExecution"
  BY Zenon DEF PopExecution, First
<1>4. SecondaryEffect => Head(calls).op = "secondary"
  BY Zenon DEF SecondaryEffect, First
<1>5. UTurn => Head(calls).op = "uturn"
  BY Zenon DEF UTurn, First
<1>6. SetHp => Head(calls).op = "setHp"
  BY Zenon DEF SetHp, First
<1>7. InformDamaged => Head(calls).op = "informDamaged"
  BY Zenon DEF InformDamaged, First
<1>8. CheckDeath => Head(calls).op = "checkHp"
  BY Zenon DEF CheckDeath, First
<1>9. Faint => Head(calls).op = "faint"
  BY Zenon DEF Faint, First
<1>10. ApplyStatus => Head(calls).op = "applyStatus"
  BY Zenon DEF ApplyStatus, First
<1>11. InformEffectApplied => Head(calls).op = "informEffectApplied"
  BY Zenon DEF InformEffectApplied, First
<1>12. ReplaceAbility => Head(calls).op = "setAbility"
  BY Zenon DEF ReplaceAbility, First
<1>13. ReplaceItem => Head(calls).op = "setItem"
  BY Zenon DEF ReplaceItem, First
<1>14. PassSticky => Head(calls).op = "passItem"
  BY Zenon DEF PassSticky, First
<1>15. ConsumeItem => Head(calls).op = "consume"
  BY Zenon DEF ConsumeItem, First
<1>16. SwitchOutPokemon => Head(calls).op = "switchOut"
  BY Zenon DEF SwitchOutPokemon, First
<1>17. SendOutPokemon => Head(calls).op = "sendOut"
  BY Zenon DEF SendOutPokemon, First
<1> QED
  BY <1>1, <1>2, <1>3, <1>4, <1>5, <1>6, <1>7, <1>8, <1>9,
     <1>10, <1>11, <1>12, <1>13, <1>14, <1>15, <1>16, <1>17 DEF Call

LEMMA NothingBehind ==
  ASSUME CallsInv, calls # <<>>, Head(calls).op \in {"executeMove", "popExecution"}
  PROVE  Tail(calls) = <<>>
<1>1. Tail(calls) \in Seq(Calling) /\ Ahead(Head(calls), Tail(calls))
  BY Begins
<1>2. \A b \in Entries(Tail(calls)) : FALSE
  BY <1>1 DEF Ahead, Follows
<1>3. Len(Tail(calls)) \in Nat /\ (Tail(calls) # <<>> => Len(Tail(calls)) # 0)
  BY <1>1, LenProperties, EmptySeq
<1>4. \A k \in 1 .. Len(Tail(calls)) : FALSE
  BY <1>2 DEF Entries
<1> QED
  BY <1>3, <1>4

LEMMA PlacedStays ==
  ASSUME UNCHANGED active, NEW d, Placed(d),
         d.op = "executeMove" => UNCHANGED fainted,
         d.op \in {"informDamaged", "passItem"} => UNCHANGED executing
  PROVE  Placed(d)'
BY DEF Placed, OnField

(* Every call but the first of a move.                                     *)
LEMMA CallKeeps ==
  ASSUME CallsInv, EffectsAssumption, Call, ~ExecuteMove
  PROVE  /\ Filed(calls)' /\ CallsPlaced' /\ SidesKept' /\ TicksStay'
         /\ OneMove' /\ PopsMatch' /\ UserStays'
<1> DEFINE c == Head(calls)
           rest == Tail(calls)
<1>1. /\ calls # <<>> /\ UNCHANGED <<names, round>>
      /\ c.op # "sendOut" => UNCHANGED active
      /\ c.op # "popExecution" => UNCHANGED executing
      /\ c.op # "faint" => UNCHANGED fainted
      /\ c.op \in Mute => calls' = <<>> \o rest
      /\ c.op # "executeMove"
  BY CallFrame
<1>2. /\ c \in Calling /\ rest \in Seq(Calling) /\ Ahead(c, rest) /\ Placed(c)
      /\ Filed(rest) /\ Entries(rest) \subseteq Calling
      /\ Entries(calls) = {c} \cup Entries(rest)
      /\ \A d \in Entries(rest) : Placed(d)
  BY <1>1, Begins
<1>3. PICK New \in SUBSET Calling : Given(New)
  BY CallGiven
<1>4. /\ Filed(calls') /\ Entries(calls') = New \cup Entries(rest)
      /\ \A d \in New : Brought(d, New)
  BY <1>3 DEF Given, Put
<1>5. c.op \in Mute => calls' = rest
  BY <1>1, <1>2, ConcatEmptySeq
<1>6. c.op = "popExecution" => rest = <<>>
  BY <1>1, NothingBehind
<1>7. \A d \in Entries(rest) : d.op # "executeMove" /\ (c.op = "sendOut" => d.op = "popExecution")
  BY <1>2 DEF Ahead, Follows
<1>8. SidesKept /\ TicksStay /\ OneMove /\ PopsMatch /\ UserStays
  BY DEF CallsInv
<1>9. \A d \in New : d.op \notin {"executeMove", "popExecution"} /\ Placed(d)
                     /\ (c.op \in Reactions => d.op \in Reactions)
  BY <1>4 DEF Brought, c
<1> HIDE DEF c, rest
<1>10. CallsPlaced'
  <2> SUFFICES ASSUME NEW d \in Entries(calls') PROVE Placed(d)'
    BY DEF CallsPlaced
  <2>1. CASE c.op = "sendOut"
    <3>1. d \in Entries(rest)
      BY <1>5, <2>1 DEF Mute
    <3>2. d.op = "popExecution"
      BY <1>7, <2>1, <3>1
    <3> QED
      BY <3>2 DEF Placed
  <2>2. CASE c.op = "popExecution"
    <3>1. calls' = <<>>
      BY <1>5, <1>6, <2>2 DEF Mute
    <3> QED
      BY <3>1, NothingWaits
  <2>3. CASE c.op \notin {"sendOut", "popExecution"}
    <3>1. UNCHANGED <<active, executing>> /\ Placed(d) /\ d.op # "executeMove"
      BY <1>1, <1>2, <1>4, <1>7, <1>9, <2>3
    <3> QED
      BY <3>1, PlacedStays
  <2> QED
    BY <2>1, <2>2, <2>3
<1>11. SidesKept'
  <2>1. CASE c.op = "sendOut"
    <3>1. SendOutPokemon
      BY <2>1, CallIs DEF c
    <3>2. active' = [active EXCEPT ![PartyOf[c.on]] = c.on]
      BY <3>1 DEF SendOutPokemon, c
    <3>3. active \in [{0, 1} -> Pokemon]
      BY DEF CallsInv, EffectsTypeOK
    <3> QED
      BY <1>8, <3>2, <3>3 DEF SidesKept
  <2>2. CASE c.op # "sendOut"
    BY <1>1, <1>8, <2>2 DEF SidesKept
  <2> QED
    BY <2>1, <2>2
<1>12. TicksStay'
  <2>1. UNCHANGED <<phase, ticks>>
    BY <1>1 DEF round
  <2> SUFFICES ASSUME phase = "ticks"
               PROVE  /\ \A t \in ticks : OnField(t.on)'
                      /\ \A d \in Entries(calls') : d.op \in Reactions
    BY <1>8, <2>1 DEF TicksStay
  <2>2. /\ \A t \in ticks : OnField(t.on)
        /\ \A d \in Entries(calls) : d.op \in Reactions
    BY <1>8 DEF TicksStay
  <2>3. c.op \in Reactions
    BY <1>2, <2>2
  <2>4. UNCHANGED active
    BY <1>1, <2>3 DEF Reactions
  <2> QED
    BY <1>2, <1>4, <1>9, <2>2, <2>3, <2>4 DEF OnField
<1>13. CASE c.op = "popExecution"
  <2>1. calls' = <<>>
    BY <1>5, <1>6, <1>13 DEF Mute
  <2>2. executing # <<>>
    BY <1>2, <1>8, <1>13 DEF PopsMatch
  <2>3. Len(executing) = 1 /\ executing \in Seq(Execution)
    BY <1>8, <2>2 DEF OneMove, CallsInv, EffectsTypeOK
  <2>4. PopExecution
    BY <1>13, CallIs DEF c
  <2>5. executing' = Tail(executing)
    BY <2>4 DEF PopExecution
  <2>6. executing' = <<>>
    <3>1. Tail(executing) \in Seq(Execution) /\ Len(Tail(executing)) = 0
      BY <2>2, <2>3, HeadTailProperties
    <3> QED
      BY <2>5, <3>1, EmptySeq
  <2>7. Entries(calls') = {}
    BY <2>1, NothingWaits
  <2> QED
    BY <1>4, <1>10, <1>11, <1>12, <2>6, <2>7 DEF OneMove, PopsMatch, UserStays
<1>14. CASE c.op # "popExecution"
  <2>1. UNCHANGED executing
    BY <1>1, <1>14
  <2>2. \A d \in Calling : d.op = "popExecution" =>
            (d \in Entries(calls') <=> d \in Entries(calls))
    BY <1>2, <1>4, <1>9, <1>14
  <2>3. Entries(calls) \subseteq Calling /\ Entries(calls') \subseteq Calling
    BY <1>2, <1>4
  <2>4. OneMove' /\ PopsMatch'
    BY <1>8, <2>1, <2>2, <2>3 DEF OneMove, PopsMatch
  <2>5. UserStays'
    <3> SUFFICES ASSUME executing # <<>>
                 PROVE  \/ OnField(executing[1].user)'
                        \/ \A d \in Entries(calls') : d.op = "popExecution"
      BY <2>1 DEF UserStays
    <3>1. OnField(executing[1].user)
      BY <1>2, <1>8, <1>14 DEF UserStays
    <3>2. CASE c.op = "sendOut"
      BY <1>5, <1>7, <3>2 DEF Mute
    <3>3. CASE c.op # "sendOut"
      BY <1>1, <2>1, <3>1, <3>3 DEF OnField
    <3> QED
      BY <3>2, <3>3
  <2> QED
    BY <1>4, <1>10, <1>11, <1>12, <2>4, <2>5
<1> QED
  BY <1>13, <1>14

(* The first call of a move finds nothing else in the air.                 *)
LEMMA ExecuteIs ==
  ASSUME CallsInv, ExecuteMove
  PROVE  LET c == Head(calls)
         IN  /\ calls # <<>> /\ c.op = "executeMove" /\ c \in Calling
             /\ c.user \in Pokemon /\ c.on \in Pokemon
             /\ OnField(c.user) /\ OnField(c.on) /\ ~fainted[c.user]
             /\ Entries(calls) = {c} /\ executing = <<>> /\ UNCHANGED <<active, fainted>>
             /\ \/ calls' = <<>> /\ executing' = <<>> /\ memory' = memory
                \/ /\ executing' = <<[user |-> c.user, move |-> c.move]>>
                   /\ memory' = [memory EXCEPT ![c.on] = @ \cup {c.user}]
                   /\ ~fainted[c.on]
                   /\ Filed(calls') /\ Pop \in Entries(calls')
                   /\ Entries(calls') \subseteq {Die(c.user), Use(c.user, c.on, c.move), Pop}
<1> DEFINE c == Head(calls)
           rest == Tail(calls)
           ex == <<[user |-> c.user, move |-> c.move]>>
           use == Use(c.user, c.on, c.move)
           die == Die(c.user)
<1>1. calls # <<>> /\ c.op = "executeMove"
  BY DEF ExecuteMove, First
<1>2. /\ c \in Calling /\ Placed(c) /\ Entries(calls) = {c} \cup Entries(rest)
      /\ rest = <<>>
  BY <1>1, Begins, NothingBehind
<1>3. c.user \in Pokemon /\ c.on \in Pokemon /\ c.move \in AllMoves
  BY <1>1, <1>2, CallFields
<1>4. OnField(c.user) /\ OnField(c.on) /\ ~fainted[c.user]
  BY <1>1, <1>2 DEF Placed
<1>5. Entries(calls) = {c}
  BY <1>2, NothingWaits
<1>6. executing = <<>>
  <2>1. OneMove
    BY DEF CallsInv
  <2> QED
    BY <1>1, <1>5, <2>1 DEF OneMove
<1>7. UNCHANGED <<active, fainted>>
  BY DEF ExecuteMove, body
<1>8. \/ fainted[c.on] /\ calls' = <<>> \o rest /\ executing' = executing /\ memory' = memory
      \/ /\ executing' = ex \o executing /\ ~fainted[c.on]
         /\ memory' = [memory EXCEPT ![c.on] = @ \cup {c.user}]
         /\ \/ calls' = (<<>> \o <<use, Pop>>) \o rest
            \/ calls' = (<<die>> \o <<use, Pop>>) \o rest
  BY DEF ExecuteMove, Calls
<1>9. /\ use \in Calling /\ use.op = "use" /\ Pop \in Calling /\ Pop.op = "popExecution"
      /\ die \in Calling /\ die.op = "faint"
  BY <1>3, CallsTyped DEF Use, Pop, Die
<1>10. ex \o executing = ex
  <2>1. ex \in Seq(Execution)
    BY <1>3 DEF Execution
  <2> HIDE DEF ex
  <2> QED
    BY <1>6, <2>1, ConcatEmptySeq
<1> HIDE DEF c, rest, ex, use, die
<1> DEFINE t == <<use, Pop>> \o <<>>
<1>11. Put(t, {use, Pop}, <<>>)
  <2>1. Filed(<<>>) /\ Ahead(use, <<>>) /\ Ahead(Pop, <<>>)
    BY NothingWaits DEF Filed, Ahead
  <2>2. Follows(use, Pop)
    BY <1>9 DEF Follows
  <2> QED
    BY <1>9, <2>1, <2>2, EmptySeq, PutPair
<1>12. t = <<use, Pop>> /\ t \in Seq(Calling) /\ Filed(t) /\ Entries(t) = {use, Pop}
  <2>1. <<use, Pop>> \in Seq(Calling)
    BY <1>9
  <2>2. t = <<use, Pop>>
    BY <2>1, ConcatEmptySeq
  <2> QED
    BY <1>11, <2>2, NothingWaits DEF Put
<1> HIDE DEF t
<1>13. Put(<<die>> \o t, {die} \cup {use, Pop}, <<>>)
  <2>1. Follows(die, use) /\ Follows(die, Pop)
    BY <1>9 DEF Follows
  <2>2. Ahead(die, t)
    BY <1>12, <2>1 DEF Ahead
  <2>3. Put(t, {use, Pop}, <<>>)
    BY <1>11 DEF t
  <2> QED
    BY <1>9, <2>2, <2>3, PutOne
<1>14. CASE calls' = (<<>> \o <<use, Pop>>) \o rest
  <2>1. calls' = t
    <3>1. <<>> \o t = t /\ t \o <<>> = t
      BY <1>12, ConcatEmptySeq
    <3> QED
      BY <1>2, <1>12, <1>14, <3>1
  <2> QED
    BY <1>1, <1>2, <1>3, <1>4, <1>5, <1>6, <1>7, <1>8, <1>10, <1>12, <2>1
       DEF c, rest, ex, use, die
<1>15. CASE calls' = (<<die>> \o <<use, Pop>>) \o rest
  <2> DEFINE s == <<die>> \o t
  <2>1. s \in Seq(Calling) /\ Filed(s) /\ Entries(s) = {die} \cup ({use, Pop} \cup {})
    BY <1>13, NothingWaits DEF Put
  <2>2. calls' = s
    <3>1. s \o <<>> = s
      BY <2>1, ConcatEmptySeq
    <3> QED
      BY <1>2, <1>12, <1>15, <3>1
  <2> HIDE DEF s
  <2>3. Filed(calls') /\ Pop \in Entries(calls') /\ Entries(calls') \subseteq {die, use, Pop}
    BY <2>1, <2>2
  <2> QED
    BY <1>1, <1>2, <1>3, <1>4, <1>5, <1>6, <1>7, <1>8, <1>10, <2>3
       DEF c, rest, ex, use, die
<1>16. CASE fainted[c.on] /\ calls' = <<>> \o rest /\ executing' = executing /\ memory' = memory
  <2>1. calls' = <<>>
    BY <1>2, <1>16, EmptySeq, ConcatEmptySeq
  <2> QED
    BY <1>1, <1>2, <1>3, <1>4, <1>5, <1>6, <1>7, <1>16, <2>1 DEF c
<1> QED
  BY <1>8, <1>14, <1>15, <1>16

LEMMA ExecuteFiles ==
  ASSUME CallsInv, ExecuteMove
  PROVE  /\ Filed(calls)' /\ CallsPlaced' /\ SidesKept' /\ TicksStay'
         /\ OneMove' /\ PopsMatch' /\ UserStays'
<1> DEFINE c == Head(calls)
           New == {Die(c.user), Use(c.user, c.on, c.move), Pop}
<1>1. /\ c.op = "executeMove" /\ c.user \in Pokemon /\ c.on \in Pokemon
      /\ OnField(c.user) /\ OnField(c.on)
      /\ Entries(calls) = {c} /\ executing = <<>> /\ UNCHANGED <<active, fainted>>
      /\ \/ calls' = <<>> /\ executing' = <<>>
         \/ /\ executing' = <<[user |-> c.user, move |-> c.move]>>
            /\ Filed(calls') /\ Pop \in Entries(calls') /\ Entries(calls') \subseteq New
  BY ExecuteIs
<1>2. UNCHANGED <<phase, ticks>>
  BY DEF ExecuteMove, round
<1>3. SidesKept /\ TicksStay
  BY DEF CallsInv
<1>4. SidesKept'
  BY <1>1, <1>3 DEF SidesKept
<1>5. phase # "ticks"
  BY <1>1, <1>3 DEF TicksStay, Reactions
<1>6. TicksStay'
  BY <1>2, <1>3, <1>5 DEF TicksStay
<1>7. ASSUME NEW d \in New PROVE Placed(d)' /\ d.op \in {"faint", "use", "popExecution"}
  <2>1. Placed(Die(c.user)) /\ Placed(Use(c.user, c.on, c.move)) /\ Placed(Pop)
    BY <1>1, PlacedAre
  <2>2. Placed(d) /\ d.op \in {"faint", "use", "popExecution"}
    BY <2>1 DEF Die, Use, Pop
  <2> QED
    BY <1>1, <2>2, PlacedStays
<1> HIDE DEF c, New
<1>8. CASE calls' = <<>> /\ executing' = <<>>
  <2>1. Filed(calls)' /\ Entries(calls') = {}
    BY <1>8, NothingWaits DEF Filed
  <2> QED
    BY <1>4, <1>6, <1>8, <2>1 DEF CallsPlaced, OneMove, PopsMatch, UserStays
<1>9. CASE /\ executing' = <<[user |-> c.user, move |-> c.move]>>
           /\ Filed(calls') /\ Pop \in Entries(calls') /\ Entries(calls') \subseteq New
  <2>1. CallsPlaced'
    BY <1>7, <1>9 DEF CallsPlaced
  <2>2. executing' # <<>> /\ Len(executing') = 1 /\ executing'[1].user = c.user
    BY <1>9
  <2>3. OneMove' /\ PopsMatch'
    BY <1>9, <2>2 DEF OneMove, PopsMatch, Pop
  <2>4. UserStays'
    BY <1>1, <2>2 DEF UserStays, OnField
  <2> QED
    BY <1>4, <1>6, <1>9, <2>1, <2>3, <2>4
<1> QED
  BY <1>1, <1>8, <1>9

-----------------------------------------------------------------------------
(* The steps of a turn begin when every call has returned.                 *)

LEMMA TurnCalls ==
  ASSUME CallsInv, EffectsAssumption,
         \/ \E p \in Pokemon : Act(p) \/ Replace(p)
         \/ BeginTick \/ Tick \/ EndTick \/ NextTurn
  PROVE  /\ calls = <<>> /\ ~Decided
         /\ UNCHANGED <<names, body, ability, item, memory, active, executing>>
         /\ \/ calls' = <<>>
            \/ \E p \in Pokemon, m \in Moves :
                 /\ phase = "actions" /\ OnField(p) /\ ~fainted[p]
                 /\ calls' = <<Execute(p, Foe(p), m)>>
            \/ \E p \in Pokemon : \E q \in Reserves(PartyOf[p]) :
                 /\ phase = "actions" /\ OnField(p) /\ ~fainted[p]
                 /\ calls' = <<SwitchOut(p), SendOut(q)>>
            \/ \E q \in Pokemon :
                 /\ phase = "replacements" /\ PartyOf[q] \in Due
                 /\ q \in Reserves(PartyOf[q]) /\ calls' = <<SendOut(q)>>
            \/ \E t \in ticks : phase = "ticks" /\ calls' = <<Hurt(t.on, 1)>>
<1>1. ASSUME NEW p \in Pokemon, Act(p)
      PROVE  /\ calls = <<>> /\ ~Decided
             /\ UNCHANGED <<names, body, ability, item, memory, active, executing>>
             /\ \/ calls' = <<>>
                \/ \E m \in Moves :
                     /\ phase = "actions" /\ OnField(p) /\ ~fainted[p]
                     /\ calls' = <<Execute(p, Foe(p), m)>>
                \/ \E q \in Reserves(PartyOf[p]) :
                     /\ phase = "actions" /\ OnField(p) /\ ~fainted[p]
                     /\ calls' = <<SwitchOut(p), SendOut(q)>>
  BY <1>1 DEF Act, Quiet, held
<1>2. ASSUME NEW q \in Pokemon, Replace(q)
      PROVE  /\ calls = <<>> /\ ~Decided
             /\ UNCHANGED <<names, body, ability, item, memory, active, executing>>
             /\ phase = "replacements" /\ PartyOf[q] \in Due
             /\ q \in Reserves(PartyOf[q]) /\ calls' = <<SendOut(q)>>
  BY <1>2 DEF Replace, Quiet, held
<1>3. CASE BeginTick \/ EndTick \/ NextTurn
  BY <1>3 DEF BeginTick, EndTick, NextTurn, Quiet, held
<1>4. CASE Tick
  <2>1. calls = <<>> /\ ~Decided /\ phase = "ticks"
        /\ UNCHANGED <<names, body, ability, item, memory, active, executing>>
    BY <1>4, Zenon DEF Tick, Quiet
  <2>2. PICK t \in ticks : calls' \in {<<>>, <<Hurt(t.on, 1)>>}
    BY <1>4 DEF Tick, Quiet
  <2> QED
    BY <2>1, <2>2
<1> QED
  BY <1>1, <1>2, <1>3, <1>4

LEMMA TurnFiles ==
  ASSUME CallsInv, EffectsAssumption,
         \/ \E p \in Pokemon : Act(p) \/ Replace(p)
         \/ BeginTick \/ Tick \/ EndTick \/ NextTurn
  PROVE  /\ Filed(calls)' /\ CallsPlaced' /\ SidesKept' /\ TicksStay'
         /\ OneMove' /\ PopsMatch' /\ UserStays'
<1>1. /\ calls = <<>> /\ UNCHANGED <<fainted, active, executing>>
  BY TurnCalls DEF body
<1>2. EffectsTypeOK /\ SidesKept /\ TicksStay /\ OneMove
  BY DEF CallsInv
<1>3. PartyOf \in [Pokemon -> {0, 1}] /\ Moves \subseteq AllMoves
  BY Zenon DEF EffectsAssumption
<1>4. executing = <<>> /\ executing' = <<>>
  BY <1>1, <1>2, NothingWaits DEF OneMove
<1>5. SidesKept'
  BY <1>1, <1>2 DEF SidesKept
<1>6. ASSUME Filed(calls'), \A d \in Entries(calls') : Placed(d) /\ d.op # "popExecution",
             phase = "ticks" => \A d \in Entries(calls') : d.op \in Reactions
      PROVE  /\ Filed(calls)' /\ CallsPlaced' /\ OneMove' /\ PopsMatch' /\ UserStays'
             /\ phase = "ticks" => \A d \in Entries(calls') : d.op \in Reactions
  <2>1. CallsPlaced'
    BY <1>1, <1>6, PlacedStays DEF CallsPlaced
  <2>2. OneMove' /\ PopsMatch' /\ UserStays'
    BY <1>4, <1>6 DEF OneMove, PopsMatch, UserStays
  <2> QED
    BY <1>6, <2>1, <2>2
<1> DEFINE Filing == /\ Filed(calls)' /\ CallsPlaced' /\ OneMove' /\ PopsMatch' /\ UserStays'
                     /\ phase = "ticks" => \A d \in Entries(calls') : d.op \in Reactions
<1>7. ASSUME NEW a \in Calling, Placed(a), calls' = <<a>>, a.op # "popExecution",
             phase = "ticks" => a.op \in Reactions
      PROVE  Filing
  <2>1. Filed(<<>>) /\ Ahead(a, <<>>)
    BY NothingWaits DEF Filed, Ahead
  <2>2. Put(<<a>> \o <<>>, {a}, <<>>)
    BY <1>7, <2>1, EmptySeq, PutSingle
  <2>3. <<a>> \o <<>> = <<a>>
    BY <1>7, ConcatEmptySeq
  <2>4. Filed(calls') /\ Entries(calls') = {a}
    BY <1>7, <2>2, <2>3, NothingWaits DEF Put
  <2> QED
    BY <1>6, <1>7, <2>4
<1>8. ASSUME NEW p \in Pokemon, NEW q \in Reserves(PartyOf[p]), OnField(p), phase = "actions",
             calls' = <<SwitchOut(p), SendOut(q)>>
      PROVE  Filing
  <2> DEFINE a == SwitchOut(p)
             b == SendOut(q)
  <2>1. a \in Calling /\ b \in Calling
    BY CallsTyped, ReservesAre DEF AllMoves
  <2>2. a.op = "switchOut" /\ a.on = p /\ b.op = "sendOut"
    BY DEF SwitchOut, SendOut
  <2>3. calls' = <<a, b>> /\ <<a, b>> \in Seq(Calling)
    BY <1>8, <2>1
  <2> HIDE DEF a, b
  <2>4. Filed(<<>>) /\ Ahead(a, <<>>) /\ Ahead(b, <<>>) /\ Follows(a, b)
    BY <2>2, NothingWaits DEF Filed, Ahead, Follows
  <2>5. Put(<<a, b>> \o <<>>, {a, b}, <<>>)
    BY <2>1, <2>4, EmptySeq, PutPair
  <2>6. <<a, b>> \o <<>> = <<a, b>>
    BY <2>3, ConcatEmptySeq
  <2>7. Filed(calls') /\ Entries(calls') = {a, b}
    BY <2>3, <2>5, <2>6, NothingWaits DEF Put
  <2>8. Placed(a) /\ Placed(b)
    BY <1>8, <2>2 DEF Placed
  <2> QED
    BY <1>6, <1>8, <2>2, <2>7, <2>8
<1>9. ASSUME NEW p \in Pokemon, NEW m \in Moves, OnField(p), ~fainted[p], phase = "actions",
             calls' = <<Execute(p, Foe(p), m)>>
      PROVE  Filing
  <2>1. Foe(p) \in Pokemon /\ OnField(Foe(p))
    <3>1. 1 - PartyOf[p] \in {0, 1}
      BY <1>3
    <3> QED
      BY <1>2, <3>1 DEF Foe, EffectsTypeOK, SidesKept, OnField
  <2> DEFINE a == Execute(p, Foe(p), m)
  <2>2. a \in Calling
    BY <1>3, <2>1, CallsTyped
  <2>3. a.op = "executeMove" /\ a.on = Foe(p) /\ a.user = p
    BY DEF Execute
  <2>4. calls' = <<a>>
    BY <1>9
  <2> HIDE DEF a
  <2>5. Placed(a)
    BY <1>9, <2>1, <2>3 DEF Placed
  <2> QED
    BY <1>7, <1>9, <2>2, <2>3, <2>4, <2>5
<1>10. ASSUME NEW q \in Pokemon, calls' = <<SendOut(q)>>, phase = "replacements"
       PROVE  Filing
  <2>1. SendOut(q) \in Calling
    BY CallsTyped DEF AllMoves
  <2>2. Placed(SendOut(q)) /\ SendOut(q).op = "sendOut"
    BY DEF SendOut, Placed
  <2> QED
    BY <1>7, <1>10, <2>1, <2>2
<1>11. ASSUME NEW t \in ticks, calls' = <<Hurt(t.on, 1)>>, phase = "ticks"
       PROVE  Filing
  <2>1. t.on \in Pokemon /\ OnField(t.on)
    BY <1>2, <1>11 DEF EffectsTypeOK, TicksStay
  <2>2. Hurt(t.on, 1) \in Calling
    BY <2>1, CallsTyped DEF AllMoves
  <2>3. Placed(Hurt(t.on, 1))
    BY <2>1, PlacedAre
  <2>4. Hurt(t.on, 1).op = "setHp"
    BY DEF Hurt
  <2>5. "setHp" \in Reactions
    BY DEF Reactions
  <2> QED
    BY <1>7, <1>11, <2>2, <2>3, <2>4, <2>5
<1>12. ASSUME calls' = <<>> PROVE Filing
  <2>1. Filed(calls') /\ Entries(calls') = {}
    BY <1>12, NothingWaits DEF Filed
  <2> QED
    BY <1>6, <2>1
<1> HIDE DEF Filing
<1>13. Filing
  BY <1>8, <1>9, <1>10, <1>11, <1>12, TurnCalls
<1>14. /\ phase' = "ticks" => \/ phase = "ticks" /\ ticks' \subseteq ticks
                              \/ calls' = <<>> /\ \A t \in ticks' : OnField(t.on)
       /\ phase' # "ticks" => ticks' = {}
  <2>1. ASSUME NEW p \in Pokemon, Act(p) \/ Replace(p)
        PROVE  phase' = phase /\ phase # "ticks" /\ ticks' = ticks
    BY <2>1 DEF Act, Replace, round
  <2>2. CASE BeginTick
    <3>1. phase' = "ticks" /\ calls' = <<>>
      BY <1>1, <2>2 DEF BeginTick
    <3>2. \A t \in ticks' : OnField(t.on)
      BY <2>2 DEF BeginTick
    <3> QED
      BY <3>1, <3>2
  <2>3. CASE Tick
    BY <2>3 DEF Tick
  <2>4. CASE EndTick \/ NextTurn
    BY <1>2, <2>4 DEF EndTick, NextTurn, TicksStay
  <2> QED
    BY <1>2, <2>1, <2>2, <2>3, <2>4 DEF TicksStay
<1>15. TicksStay'
  <2>1. phase' # "ticks" => ticks' = {}
    BY <1>14
  <2> SUFFICES ASSUME phase' = "ticks"
               PROVE  /\ \A t \in ticks' : OnField(t.on)'
                      /\ \A d \in Entries(calls') : d.op \in Reactions
    BY <2>1 DEF TicksStay
  <2>2. CASE phase = "ticks" /\ ticks' \subseteq ticks
    BY <1>1, <1>2, <1>13, <2>2 DEF Filing, TicksStay, OnField
  <2>3. CASE calls' = <<>> /\ \A t \in ticks' : OnField(t.on)
    BY <1>1, <2>3, NothingWaits DEF OnField
  <2> QED
    BY <1>14, <2>2, <2>3
<1> QED
  BY <1>5, <1>13, <1>15 DEF Filing

LEMMA InitCalls ==
  ASSUME EffectsAssumption, Init
  PROVE  CallsInv
<1>1. EffectsTypeOK
  BY InitTyped
<1>2. active = Leads /\ executing = <<>> /\ calls = <<>> /\ phase = "actions" /\ ticks = {}
  BY DEF Init
<1>3. \A i \in {0, 1} : PartyOf[Leads[i]] = i
  BY Zenon DEF EffectsAssumption
<1>4. Filed(calls) /\ Entries(calls) = {}
  BY <1>2, NothingWaits DEF Filed
<1> QED
  BY <1>1, <1>2, <1>3, <1>4
     DEF CallsInv, CallsPlaced, SidesKept, TicksStay, OneMove, PopsMatch, UserStays

LEMMA CallsKept ==
  ASSUME CallsInv, EffectsAssumption, [Next]_vars
  PROVE  CallsInv'
<1>1. EffectsTypeOK'
  BY TypesKept DEF CallsInv
<1>2. CASE UNCHANGED vars
  BY <1>1, <1>2 DEF vars, CallsInv, CallsPlaced, Placed, OnField, SidesKept, TicksStay, OneMove,
                    PopsMatch, UserStays
<1>3. CASE ExecuteMove
  BY <1>1, <1>3, ExecuteFiles DEF CallsInv
<1>4. CASE Call /\ ~ExecuteMove
  BY <1>1, <1>4, CallKeeps DEF CallsInv
<1>5. CASE \/ \E p \in Pokemon : Act(p) \/ Replace(p)
           \/ BeginTick \/ Tick \/ EndTick \/ NextTurn
  BY <1>1, <1>5, TurnFiles DEF CallsInv
<1> QED
  BY <1>2, <1>3, <1>4, <1>5 DEF Next

(* The inductive invariant behind what follows: calls wait behind each     *)
(* other in no other order than a move and its listeners make them, each   *)
(* is about pokemon that are on the field and the move that is executed,   *)
(* and when the effects tick nothing but their reactions waits             *)
(* (Pokemon::executeMove, sendMessage, BattleField::tickEffects).          *)
THEOREM CallsInvariant == Spec => []CallsInv
<1>1. Init => CallsInv
  BY EffectsAssumption, InitCalls
<1>2. CallsInv /\ [Next]_vars => CallsInv'
  BY EffectsAssumption, CallsKept
<1> QED
  BY <1>1, <1>2, PTL DEF Spec

-----------------------------------------------------------------------------
(* What a pokemon remembers.  One who is to be replaced has fainted, is    *)
(* forgotten, or is about to leave.                                        *)

Leaves(o, s) == \E c \in Entries(s) : c.op = "switchOut" /\ c.on = o
Going(o) == Leaves(o, calls)
Leaver(c) == active[PartyOf[c.on]]
Forgotten(o) == memory[o] = {} /\ \A r \in Pokemon : OnField(r) => o \notin memory[r]

LeaversForgotten ==
    \A c \in Entries(calls) : c.op = "sendOut" =>
        fainted[Leaver(c)] \/ Forgotten(Leaver(c)) \/ Going(Leaver(c))
RememberedAreThere ==
    \A p \in Pokemon : OnField(p) /\ ~fainted[p] =>
        \A q \in memory[p] : OnField(q) /\ ~fainted[q]
AbsentRememberNone ==
    \A p \in Pokemon : ~OnField(p) /\ ~fainted[p] => memory[p] = {}
MemInv == LeaversForgotten /\ RememberedAreThere /\ AbsentRememberNone

(* One is sent out when the other is about to leave, or long is.           *)
LEMMA SendOuts ==
  ASSUME CallsInv, EffectsAssumption, Call, NEW d \in Entries(calls'), d.op = "sendOut"
  PROVE  /\ UNCHANGED active /\ Head(calls).op # "sendOut" /\ d \in Calling
         /\ \/ d \in Entries(calls)
            \/ Leaves(Leaver(d), calls')
         /\ \A o : Going(o) =>
              Leaves(o, calls') \/ (Head(calls).op = "switchOut" /\ Head(calls).on = o)
<1> DEFINE c == Head(calls)
           rest == Tail(calls)
<1>1. ~ExecuteMove
  <2> SUFFICES ASSUME ExecuteMove PROVE FALSE
    OBVIOUS
  <2>1. calls' = <<>> \/ Entries(calls') \subseteq {Die(c.user), Use(c.user, c.on, c.move), Pop}
    BY ExecuteIs
  <2>2. d \in {Die(c.user), Use(c.user, c.on, c.move), Pop}
    BY <2>1, NothingWaits
  <2> QED
    BY <2>2 DEF Die, Use, Pop
<1>2. /\ calls # <<>> /\ (c.op # "sendOut" => UNCHANGED active)
      /\ c.op \in Mute => calls' = <<>> \o rest
  BY CallFrame
<1>3. /\ rest \in Seq(Calling) /\ Ahead(c, rest) /\ Entries(rest) \subseteq Calling
      /\ Entries(calls) = {c} \cup Entries(rest)
  BY <1>2, Begins
<1>4. PICK New \in SUBSET Calling : Given(New)
  BY <1>1, CallGiven
<1>5. /\ Entries(calls') = New \cup Entries(rest)
      /\ \A x \in New : Brought(x, New)
  BY <1>4 DEF Given, Put
<1>6. c.op # "sendOut"
  <2> SUFFICES ASSUME c.op = "sendOut" PROVE FALSE
    OBVIOUS
  <2>1. calls' = rest
    BY <1>2, <1>3, ConcatEmptySeq DEF Mute
  <2> QED
    BY <1>3, <2>1 DEF Ahead, Follows
<1>7. ASSUME NEW o, Going(o), ~(c.op = "switchOut" /\ c.on = o) PROVE Leaves(o, calls')
  <2>1. PICK x \in Entries(calls) : x.op = "switchOut" /\ x.on = o
    BY <1>7 DEF Going, Leaves
  <2>2. x \in Entries(calls')
    BY <1>3, <1>5, <1>7, <2>1
  <2> QED
    BY <2>1, <2>2 DEF Leaves
<1>8. CASE d \in Entries(rest)
  <2>1. d \in Calling /\ d \in Entries(calls) /\ UNCHANGED active
    BY <1>2, <1>3, <1>6, <1>8
  <2> QED
    BY <1>6, <1>7, <2>1
<1>9. CASE d \in New
  <2>1. PICK x \in New : x.op = "switchOut" /\ x.on = Leaver(d)
    BY <1>5, <1>9 DEF Brought, Leaver
  <2>2. Leaves(Leaver(d), calls')
    BY <1>5, <2>1 DEF Leaves
  <2> QED
    BY <1>2, <1>6, <1>7, <1>9, <2>2
<1> QED
  BY <1>5, <1>8, <1>9

LEMMA TurnSends ==
  ASSUME CallsInv, EffectsAssumption,
         \/ \E p \in Pokemon : Act(p) \/ Replace(p)
         \/ BeginTick \/ Tick \/ EndTick \/ NextTurn,
         NEW d \in Entries(calls'), d.op = "sendOut"
  PROVE  \/ fainted[Leaver(d)]
         \/ Leaves(Leaver(d), calls')
<1>1. calls' # <<>>
  BY NothingWaits
<1>2. ASSUME NEW a \in Calling, calls' = <<a>> PROVE d = a
  BY <1>2 DEF Entries
<1>3. ASSUME NEW p \in Pokemon, NEW q \in Reserves(PartyOf[p]), OnField(p),
             calls' = <<SwitchOut(p), SendOut(q)>>
      PROVE  Leaves(Leaver(d), calls')
  <2> DEFINE a == SwitchOut(p)
             b == SendOut(q)
  <2>1. a.op = "switchOut" /\ a.on = p /\ b.on = q
    BY DEF SwitchOut, SendOut
  <2>2. calls' = <<a, b>>
    BY <1>3
  <2>3. q \in Pokemon /\ PartyOf[q] = PartyOf[p]
    BY DEF Reserves
  <2> HIDE DEF a, b
  <2>4. a \in Entries(calls') /\ d \in {a, b}
    BY <2>2 DEF Entries
  <2>5. d = b
    BY <2>1, <2>4
  <2>6. Leaver(d) = p
    BY <1>3, <2>1, <2>3, <2>5 DEF Leaver, OnField
  <2> QED
    BY <2>1, <2>4, <2>6 DEF Leaves
<1>4. ASSUME NEW q \in Pokemon, PartyOf[q] \in Due, calls' = <<SendOut(q)>>
      PROVE  fainted[Leaver(d)]
  <2>1. d = SendOut(q)
    BY <1>4, CallsTyped, <1>2 DEF AllMoves
  <2>2. Leaver(d) = active[PartyOf[q]]
    BY <2>1 DEF SendOut, Leaver
  <2> QED
    BY <1>4, <2>2 DEF Due
<1>5. ASSUME NEW p \in Pokemon, NEW m \in Moves, calls' = <<Execute(p, Foe(p), m)>>
      PROVE  FALSE
  <2>1. d = Execute(p, Foe(p), m)
    BY <1>5 DEF Entries
  <2> QED
    BY <2>1 DEF Execute
<1>6. ASSUME NEW t \in ticks, calls' = <<Hurt(t.on, 1)>> PROVE FALSE
  <2>1. d = Hurt(t.on, 1)
    BY <1>6 DEF Entries
  <2> QED
    BY <2>1 DEF Hurt
<1> QED
  BY <1>1, <1>3, <1>4, <1>5, <1>6, TurnCalls

LEMMA MemoryKept ==
  ASSUME CallsInv, EffectsAssumption, MemInv, [Next]_vars
  PROVE  MemInv'
<1>1. /\ PartyOf \in [Pokemon -> {0, 1}] /\ active \in [{0, 1} -> Pokemon]
      /\ memory \in [Pokemon -> SUBSET Pokemon] /\ fainted \in [Pokemon -> BOOLEAN]
  <2>1. PartyOf \in [Pokemon -> {0, 1}]
    BY Zenon DEF EffectsAssumption
  <2> QED
    BY <2>1 DEF CallsInv, EffectsTypeOK
<1>2. LeaversForgotten /\ RememberedAreThere /\ AbsentRememberNone
  BY DEF MemInv
<1>3. CASE UNCHANGED vars
  BY <1>3 DEF vars, MemInv, LeaversForgotten, RememberedAreThere, AbsentRememberNone, OnField,
              Leaves, Going, Leaver, Forgotten
<1>4. ASSUME UNCHANGED <<memory, active, fainted>> PROVE RememberedAreThere' /\ AbsentRememberNone'
  BY <1>2, <1>4 DEF RememberedAreThere, AbsentRememberNone, OnField
<1>5. CASE \/ \E p \in Pokemon : Act(p) \/ Replace(p)
           \/ BeginTick \/ Tick \/ EndTick \/ NextTurn
  <2>1. UNCHANGED <<memory, active, fainted>>
    BY <1>5, TurnCalls DEF body
  <2>2. LeaversForgotten'
    BY <1>5, <2>1, TurnSends DEF LeaversForgotten, Leaver, Leaves, Going
  <2> QED
    BY <1>4, <2>1, <2>2 DEF MemInv
<1>6. CASE Call /\ UNCHANGED <<memory, active, fainted>> /\ Head(calls).op # "switchOut"
  <2>1. LeaversForgotten'
    <3> SUFFICES ASSUME NEW d \in Entries(calls'), d.op = "sendOut"
                 PROVE  \/ fainted[Leaver(d)] \/ Forgotten(Leaver(d))
                        \/ Leaves(Leaver(d), calls')
      BY <1>6 DEF LeaversForgotten, Leaver, Leaves, Going, Forgotten, OnField
    <3>1. \/ d \in Entries(calls)
          \/ Leaves(Leaver(d), calls')
      BY <1>6, SendOuts
    <3>2. \A o : Going(o) => Leaves(o, calls')
      BY <1>6, SendOuts
    <3>3. CASE d \in Entries(calls)
      <4>1. fainted[Leaver(d)] \/ Forgotten(Leaver(d)) \/ Going(Leaver(d))
        BY <1>2, <3>3 DEF LeaversForgotten
      <4> QED
        BY <3>2, <4>1
    <3> QED
      BY <3>1, <3>3
  <2> QED
    BY <1>4, <1>6, <2>1 DEF MemInv
<1>7. CASE ExecuteMove
  <2> DEFINE c == Head(calls)
  <2>1. /\ c.user \in Pokemon /\ c.on \in Pokemon /\ OnField(c.user) /\ ~fainted[c.user]
        /\ OnField(c.on) /\ UNCHANGED <<active, fainted>>
        /\ \/ calls' = <<>> /\ memory' = memory
           \/ /\ memory' = [memory EXCEPT ![c.on] = @ \cup {c.user}]
              /\ Entries(calls') \subseteq {Die(c.user), Use(c.user, c.on, c.move), Pop}
    BY <1>7, ExecuteIs
  <2>2. LeaversForgotten'
    BY <2>1, NothingWaits DEF LeaversForgotten, Die, Use, Pop
  <2> HIDE DEF c
  <2>3. memory' = memory \/ memory' = [memory EXCEPT ![c.on] = @ \cup {c.user}]
    BY <2>1
  <2>4. ASSUME NEW p \in Pokemon, OnField(p), ~fainted[p], NEW q \in memory'[p]
        PROVE  OnField(q) /\ ~fainted[q]
    BY <1>1, <1>2, <2>1, <2>3, <2>4 DEF RememberedAreThere
  <2>5. ASSUME NEW p \in Pokemon, ~OnField(p), ~fainted[p] PROVE memory'[p] = {}
    BY <1>1, <1>2, <2>1, <2>3, <2>5 DEF AbsentRememberNone
  <2>6. RememberedAreThere'
    BY <2>1, <2>4 DEF RememberedAreThere, OnField
  <2>7. AbsentRememberNone'
    BY <2>1, <2>5 DEF AbsentRememberNone, OnField
  <2> QED
    BY <2>2, <2>6, <2>7 DEF MemInv
<1>8. CASE Faint
  <2> DEFINE p == Head(calls).on
  <2>1. /\ fainted' = [fainted EXCEPT ![p] = TRUE] /\ memory' = Forget(p)
        /\ UNCHANGED active /\ Head(calls).op = "faint" /\ Call /\ calls # <<>>
    BY <1>8 DEF Faint, First, Call
  <2>2. p \in Pokemon
    BY <2>1, Begins, CallFields
  <2> HIDE DEF p
  <2>3. \A q \in Pokemon : memory'[q] = IF OnField(q) THEN memory[q] \ {p} ELSE memory[q]
    BY <2>1 DEF Forget
  <2>4. \A q \in Pokemon : fainted'[q] = (fainted[q] \/ q = p)
    BY <1>1, <2>1, <2>2
  <2>5. RememberedAreThere'
    <3>1. ASSUME NEW r \in Pokemon, OnField(r), ~fainted'[r], NEW q \in memory'[r]
          PROVE  OnField(q) /\ ~fainted'[q]
      <4>0. memory'[r] = memory[r] \ {p}
        BY <2>3, <3>1
      <4>1. ~fainted[r] /\ q \in memory[r] /\ q # p
        BY <2>4, <3>1, <4>0
      <4>2. q \in Pokemon /\ OnField(q) /\ ~fainted[q]
        BY <1>1, <1>2, <3>1, <4>1 DEF RememberedAreThere
      <4> QED
        BY <2>4, <4>1, <4>2
    <3> QED
      BY <2>1, <3>1 DEF RememberedAreThere, OnField
  <2>6. AbsentRememberNone'
    BY <1>2, <2>1, <2>3, <2>4 DEF AbsentRememberNone, OnField
  <2>7. LeaversForgotten'
    <3> SUFFICES ASSUME NEW d \in Entries(calls'), d.op = "sendOut"
                 PROVE  \/ fainted'[Leaver(d)]
                        \/ memory'[Leaver(d)] = {} /\ \A r \in Pokemon : OnField(r) =>
                                                        Leaver(d) \notin memory'[r]
                        \/ Leaves(Leaver(d), calls')
      BY <2>1 DEF LeaversForgotten, Leaver, Leaves, Going, Forgotten, OnField
    <3>1. /\ d \in Calling
          /\ \/ d \in Entries(calls)
             \/ Leaves(Leaver(d), calls')
          /\ \A o : Going(o) => Leaves(o, calls')
      BY <2>1, SendOuts
    <3>2. Leaver(d) \in Pokemon
      BY <1>1, <3>1, CallFields DEF Leaver
    <3>3. CASE d \in Entries(calls)
      <4>1. fainted[Leaver(d)] \/ Forgotten(Leaver(d)) \/ Going(Leaver(d))
        BY <1>2, <3>3 DEF LeaversForgotten
      <4>2. CASE fainted[Leaver(d)]
        BY <2>4, <3>2, <4>2
      <4>3. CASE Forgotten(Leaver(d))
        BY <2>3, <3>2, <4>3 DEF Forgotten
      <4>4. CASE Going(Leaver(d))
        BY <3>1, <4>4
      <4> QED
        BY <4>1, <4>2, <4>3, <4>4
    <3> QED
      BY <3>1, <3>3
  <2> QED
    BY <2>5, <2>6, <2>7 DEF MemInv
<1>9. CASE SwitchOutPokemon
  <2> DEFINE p == Head(calls).on
  <2>1. /\ memory' = [Forget(p) EXCEPT ![p] = {}]
        /\ UNCHANGED <<active, fainted>> /\ Head(calls).op = "switchOut" /\ Call /\ calls # <<>>
    BY <1>9 DEF SwitchOutPokemon, First, Call, body
  <2>2. p \in Pokemon
    BY <2>1, Begins, CallFields
  <2> HIDE DEF p
  <2>3. \A q \in Pokemon : memory'[q] = IF q = p THEN {}
                                        ELSE IF OnField(q) THEN memory[q] \ {p} ELSE memory[q]
    BY <2>1, <2>2 DEF Forget
  <2>4. RememberedAreThere'
    <3>1. ASSUME NEW r \in Pokemon, OnField(r), ~fainted[r], NEW q \in memory'[r]
          PROVE  OnField(q) /\ ~fainted[q]
      BY <1>2, <2>3, <3>1 DEF RememberedAreThere
    <3> QED
      BY <2>1, <3>1 DEF RememberedAreThere, OnField
  <2>5. AbsentRememberNone'
    BY <1>2, <2>1, <2>3 DEF AbsentRememberNone, OnField
  <2>6. LeaversForgotten'
    <3> SUFFICES ASSUME NEW d \in Entries(calls'), d.op = "sendOut"
                 PROVE  \/ fainted[Leaver(d)]
                        \/ memory'[Leaver(d)] = {} /\ \A r \in Pokemon : OnField(r) =>
                                                        Leaver(d) \notin memory'[r]
                        \/ Leaves(Leaver(d), calls')
      BY <2>1 DEF LeaversForgotten, Leaver, Leaves, Going, Forgotten, OnField
    <3>1. /\ d \in Calling
          /\ \/ d \in Entries(calls)
             \/ Leaves(Leaver(d), calls')
          /\ \A o : Going(o) => Leaves(o, calls') \/ o = p
      BY <2>1, SendOuts DEF p
    <3>2. Leaver(d) \in Pokemon
      BY <1>1, <3>1, CallFields DEF Leaver
    <3>3. CASE d \in Entries(calls)
      <4>1. fainted[Leaver(d)] \/ Forgotten(Leaver(d)) \/ Going(Leaver(d))
        BY <1>2, <3>3 DEF LeaversForgotten
      <4>2. CASE Forgotten(Leaver(d))
        BY <2>3, <3>2, <4>2 DEF Forgotten
      <4>3. CASE Leaver(d) = p
        BY <2>2, <2>3, <4>3
      <4>4. CASE Going(Leaver(d)) /\ Leaver(d) # p
        BY <3>1, <4>4
      <4> QED
        BY <4>1, <4>2, <4>3, <4>4
    <3> QED
      BY <3>1, <3>3
  <2> QED
    BY <2>4, <2>5, <2>6 DEF MemInv
<1>10. CASE SendOutPokemon
  <2> DEFINE c == Head(calls)
             q == c.on
             o == active[PartyOf[q]]
  <2>1. /\ active' = [active EXCEPT ![PartyOf[q]] = q] /\ UNCHANGED <<memory, fainted>>
        /\ c.op = "sendOut" /\ Call /\ calls # <<>>
    BY <1>10 DEF SendOutPokemon, First, Call, body
  <2>2. q \in Pokemon /\ Ahead(c, Tail(calls)) /\ Entries(calls) = {c} \cup Entries(Tail(calls))
    BY <2>1, Begins, CallFields
  <2>3. ~Going(o)
    BY <2>1, <2>2 DEF Ahead, Follows, Going, Leaves
  <2>4. fainted[o] \/ Forgotten(o)
    BY <1>2, <2>1, <2>2, <2>3 DEF LeaversForgotten, Leaver
  <2>5. LeaversForgotten'
    <3> SUFFICES ASSUME NEW d \in Entries(calls'), d.op = "sendOut" PROVE FALSE
      BY DEF LeaversForgotten
    <3> QED
      BY <2>1, SendOuts
  <2> HIDE DEF c, q
  <2>6. o \in Pokemon /\ PartyOf[q] \in {0, 1}
    BY <1>1, <2>2
  <2>7. \A r \in Pokemon : OnField(r)' <=> (r = q \/ (OnField(r) /\ r # o))
    <3> SUFFICES ASSUME NEW r \in Pokemon
                 PROVE  active'[PartyOf[r]] = r <=> (r = q \/ (active[PartyOf[r]] = r /\ r # o))
      BY DEF OnField
    <3>1. PartyOf[r] \in {0, 1}
      BY <1>1
    <3>2. CASE PartyOf[r] = PartyOf[q]
      BY <1>1, <2>1, <2>6, <3>2
    <3>3. CASE PartyOf[r] # PartyOf[q]
      <4>1. SidesKept
        BY DEF CallsInv
      <4>2. PartyOf[o] = PartyOf[q]
        BY <2>6, <4>1 DEF SidesKept
      <4> QED
        BY <1>1, <2>1, <2>6, <3>1, <3>3, <4>2
    <3> QED
      BY <3>2, <3>3
  <2>8. OnField(o)
    <3>1. SidesKept
      BY DEF CallsInv
    <3> QED
      BY <2>6, <3>1 DEF SidesKept, OnField
  <2> HIDE DEF o
  <2>9. RememberedAreThere'
    <3> SUFFICES ASSUME NEW r \in Pokemon, OnField(r)', ~fainted[r], NEW m \in memory[r]
                 PROVE  OnField(m)' /\ ~fainted[m]
      BY <2>1 DEF RememberedAreThere
    <3>1. m \in Pokemon
      BY <1>1
    <3>2. OnField(r)
      BY <1>2, <2>7 DEF AbsentRememberNone
    <3>3. OnField(m) /\ ~fainted[m]
      BY <1>2, <3>2 DEF RememberedAreThere
    <3>4. m # o
      BY <2>4, <3>2, <3>3 DEF Forgotten
    <3> QED
      BY <2>7, <3>1, <3>3, <3>4
  <2>10. AbsentRememberNone'
    <3> SUFFICES ASSUME NEW r \in Pokemon, ~OnField(r)', ~fainted[r] PROVE memory[r] = {}
      BY <2>1 DEF AbsentRememberNone
    <3> QED
      BY <1>2, <2>4, <2>7 DEF AbsentRememberNone, Forgotten
  <2> QED
    BY <2>5, <2>9, <2>10 DEF MemInv
<1>11. ASSUME Call, ~ExecuteMove, ~Faint, ~SwitchOutPokemon, ~SendOutPokemon
       PROVE  UNCHANGED <<memory, active, fainted>> /\ Head(calls).op # "switchOut"
  <2>1. Head(calls).op \notin {"switchOut", "sendOut", "faint"}
    BY <1>11, CallIs
  <2>2. UNCHANGED <<active, fainted>>
    BY <1>11, <2>1, CallFrame
  <2>3. UNCHANGED memory
    BY <1>11, Zenon DEF Call, UseMove, PopExecution, SecondaryEffect, UTurn, SetHp,
       InformDamaged, CheckDeath, ApplyStatus, InformEffectApplied, ReplaceAbility,
       ReplaceItem, PassSticky, ConsumeItem
  <2> QED
    BY <2>1, <2>2, <2>3
<1> QED
  BY <1>3, <1>5, <1>6, <1>7, <1>8, <1>9, <1>10, <1>11 DEF Next

(* Nobody on the field who has not fainted remembers one who left it or    *)
(* fainted, whatever dragged him away in the middle of a move; who is off  *)
(* the field remembers nobody (Pokemon::clearMemory, m_memory).            *)
THEOREM MemoryOnFieldHolds == Spec => []MemoryOnField
<1>1. Init => MemInv
  <2> SUFFICES ASSUME Init PROVE MemInv
    OBVIOUS
  <2>1. memory = [p \in Pokemon |-> {}] /\ Entries(calls) = {}
    BY NothingWaits DEF Init
  <2> QED
    BY <2>1 DEF MemInv, LeaversForgotten, RememberedAreThere, AbsentRememberNone
<1>2. CallsInv /\ MemInv /\ [Next]_vars => MemInv'
  BY EffectsAssumption, MemoryKept
<1>3. MemInv => MemoryOnField
  BY DEF MemInv, RememberedAreThere, AbsentRememberNone, MemoryOnField
<1> QED
  BY <1>1, <1>2, <1>3, CallsInvariant, PTL DEF Spec

-----------------------------------------------------------------------------
(* What the steps do to lists of effects, as far as what follows sees it.  *)

LEMMA DisposeSets ==
  ASSUME NEW list \in Seq(Effect), NEW i
  PROVE  /\ Dispose(list, i) \in Seq(Effect)
         /\ Tags(Dispose(list, i)) = Tags(list)
         /\ Living(Dispose(list, i)) = {y \in Living(list) : y.id # i}
<1> DEFINE n == Len(list)
           t == Dispose(list, i)
           now(y) == IF y.id = i THEN [y EXCEPT !.gone = TRUE] ELSE y
<1>1. n \in Nat /\ DOMAIN list = 1 .. n /\ ToSet(list) = {list[k] : k \in 1 .. n}
      /\ ToSet(list) \subseteq Effect
  BY ListSets
<1>2. t \in Seq(Effect)
  BY DisposeTyped
<1>3. t = [k \in 1 .. n |-> now(list[k])]
  BY <1>1 DEF Dispose
<1>4. ToSet(t) = {now(list[k]) : k \in 1 .. n}
  <2>1. DOMAIN t = 1 .. n
    BY <1>3
  <2> HIDE DEF n, now, t
  <2>2. ToSet(t) = {t[k] : k \in 1 .. n}
    BY <2>1 DEF ToSet
  <2> QED
    BY <1>3, <2>2
<1>5. ASSUME NEW y \in Effect
      PROVE  /\ now(y).id = y.id /\ now(y).kind = y.kind
             /\ now(y).gone = (y.gone \/ y.id = i)
             /\ y.id # i => now(y) = y
  BY DEF Effect
<1> HIDE DEF n, t, now
<1>6. ASSUME NEW x \in ToSet(t) PROVE \E y \in ToSet(list) : x = now(y)
  BY <1>1, <1>4
<1>7. ASSUME NEW y \in ToSet(list) PROVE now(y) \in ToSet(t)
  BY <1>1, <1>4
<1>8. Tags(t) = Tags(list)
  <2>1. ASSUME NEW x \in ToSet(t) PROVE <<x.id, x.kind>> \in Tags(list)
    BY <1>1, <1>5, <1>6 DEF Tags
  <2>2. ASSUME NEW y \in ToSet(list) PROVE <<y.id, y.kind>> \in Tags(t)
    BY <1>1, <1>5, <1>7 DEF Tags
  <2>3. Tags(t) \subseteq Tags(list)
    BY <2>1 DEF Tags
  <2>4. Tags(list) \subseteq Tags(t)
    BY <2>2 DEF Tags
  <2> QED
    BY <2>3, <2>4
<1>9. Living(t) = {y \in Living(list) : y.id # i}
  <2>1. ASSUME NEW x \in Living(t) PROVE x \in Living(list) /\ x.id # i
    <3>1. PICK y \in ToSet(list) : x = now(y)
      BY <1>6 DEF Living
    <3>2. ~x.gone
      BY DEF Living
    <3> QED
      BY <1>1, <1>5, <3>1, <3>2 DEF Living
  <2>2. ASSUME NEW y \in Living(list), y.id # i PROVE y \in Living(t)
    <3>1. y \in ToSet(list) /\ ~y.gone
      BY DEF Living
    <3>2. now(y) = y
      BY <1>1, <1>5, <2>2, <3>1
    <3> QED
      BY <1>7, <3>1, <3>2 DEF Living
  <2> QED
    BY <2>1, <2>2
<1> QED
  BY <1>2, <1>8, <1>9 DEF t

(* A new object for a kind: its identity is on no list entry.              *)
LEMMA FreshTag ==
  ASSUME NEW list \in Seq(Effect), NEW i \in Nat, NEW j \in Nat
  PROVE  /\ Fresh(list, {i, j}) \in Nat \ {0} /\ Fresh(list, {i, j}) \notin {i, j}
         /\ \A t \in Tags(list) : t[1] # Fresh(list, {i, j})
<1>1. ASSUME NEW t \in Tags(list) PROVE t[1] # Fresh(list, {i, j})
  <2>1. PICK e \in ToSet(list) : t = <<e.id, e.kind>>
    BY DEF Tags
  <2>2. PICK k \in 1 .. Len(list) : e = list[k]
    BY <2>1, ListSets
  <2> QED
    BY <2>1, <2>2, FreshId
<1> QED
  BY <1>1, FreshId

(* What stays of a list when the object k is replaced by one of a kind, if *)
(* none of that kind is in the way.                                        *)
Others(list, k) == {y \in Living(list) : y.id # k}

Obstructed(list, k, kind) == kind = None \/ \E y \in Others(list, k) : y.kind = kind
Entry(i, kind) == [id |-> i, kind |-> kind, gone |-> FALSE]

(* The list and the identity that a replacement leaves.                    *)
NewList(list, i, j, k, kind) == Replaced(list, {i, j}, k, kind).list
NewId(list, i, j, k, kind) == Replaced(list, {i, j}, k, kind).id

LEMMA ReplacedIs ==
  ASSUME NEW list \in Seq(Effect), NEW i \in Nat, NEW j \in Nat, NEW k,
         NEW kind \in (Possible \ Statuses) \cup {None}
  PROVE  /\ Obstructed(list, k, kind) =>
              /\ NewList(list, i, j, k, kind) = Dispose(list, k)
              /\ NewId(list, i, j, k, kind) = 0
         /\ ~Obstructed(list, k, kind) =>
              /\ NewList(list, i, j, k, kind) =
                   Append(Dispose(list, k), Entry(Fresh(list, {i, j}), kind))
              /\ NewId(list, i, j, k, kind) = Fresh(list, {i, j})
<1> DEFINE rest == Dispose(list, k)
<1>1. Living(rest) = Others(list, k)
  BY DisposeSets DEF Others
<1>2. kind # None => Lock(kind) = 0
  BY DEF Lock
<1> HIDE DEF rest
<1>3. (kind = None \/ Blocked(rest, kind)) <=> Obstructed(list, k, kind)
  BY <1>1, <1>2 DEF Blocked, Has, Obstructed
<1> QED
  BY <1>3 DEF Replaced, Entry, NewList, NewId, rest

LEMMA ReplacedBlocked ==
  ASSUME NEW list \in Seq(Effect), NEW i \in Nat, NEW j \in Nat, NEW k,
         NEW kind \in (Possible \ Statuses) \cup {None}, Obstructed(list, k, kind)
  PROVE  /\ NewId(list, i, j, k, kind) = 0
         /\ Tags(NewList(list, i, j, k, kind)) = Tags(list)
         /\ Living(NewList(list, i, j, k, kind)) = Others(list, k)
<1>1. NewId(list, i, j, k, kind) = 0 /\ NewList(list, i, j, k, kind) = Dispose(list, k)
  BY ReplacedIs
<1> QED
  BY <1>1, DisposeSets DEF Others

(* What a new entry adds.                                                  *)
Adds(list, k, kind, new, fresh) ==
    /\ fresh \in Nat \ {0} /\ \A t \in Tags(list) : t[1] # fresh
    /\ Tags(new) = Tags(list) \cup {<<fresh, kind>>}
    /\ Living(new) = Others(list, k) \cup {Entry(fresh, kind)}

LEMMA ReplacedFree ==
  ASSUME NEW list \in Seq(Effect), NEW i \in Nat, NEW j \in Nat, NEW k,
         NEW kind \in (Possible \ Statuses) \cup {None}, ~Obstructed(list, k, kind)
  PROVE  /\ NewId(list, i, j, k, kind) \notin {i, j}
         /\ Adds(list, k, kind, NewList(list, i, j, k, kind), NewId(list, i, j, k, kind))
<1> DEFINE rest == Dispose(list, k)
           fresh == Fresh(list, {i, j})
           obj == Entry(fresh, kind)
<1>1. NewList(list, i, j, k, kind) = Append(rest, obj) /\ NewId(list, i, j, k, kind) = fresh
  BY ReplacedIs
<1>2. rest \in Seq(Effect) /\ Tags(rest) = Tags(list) /\ Living(rest) = Others(list, k)
  BY DisposeSets DEF Others
<1>3. /\ fresh \in Nat \ {0} /\ fresh \notin {i, j} /\ \A t \in Tags(list) : t[1] # fresh
  BY FreshTag
<1>4. obj \in Effect /\ obj.id = fresh /\ obj.kind = kind /\ ~obj.gone
  BY <1>3 DEF Effect, Entry, Obstructed
<1> HIDE DEF rest, fresh, obj
<1>5. /\ Tags(Append(rest, obj)) = Tags(list) \cup {<<fresh, kind>>}
      /\ Living(Append(rest, obj)) = Others(list, k) \cup {obj}
  BY <1>2, <1>4, AppendSets
<1> QED
  BY <1>1, <1>3, <1>5 DEF obj, Adds

(* What switchOut does to the list, when one identity stands for one kind: *)
(* the entries that it writes are entries of the list, and items that are  *)
(* alive are written.                                                      *)
LEMMA LeaveFits ==
  ASSUME NEW list \in Seq(Effect), Consistent(list), NEW m \in 1 .. Len(list),
         NEW v \in Rearranged(Len(list)), v.to <= m,
         \A k \in 1 .. Len(list) : Fits(v.list[k], list)
  PROVE  LET w == Leave(v, m)
         IN  /\ \A k \in 1 .. Len(list) : Fits(w.list[k], list)
             /\ \A k \in 1 .. Len(list) : v.list[k].kind \in Items /\ ~v.list[k].gone /\ k # v.to
                    => w.list[k] = v.list[k]
             /\ v.list[m].kind \in Items => w.to = v.to + 1 /\ w.list[v.to] = v.list[m]
             /\ w.to \in {v.to, v.to + 1}
<1> DEFINE n == Len(list)
           e == v.list[m]
           w == Leave(v, m)
           special == {x \in Living(v.list) : Lock(x.kind) = 2}
           i == (CHOOSE x \in special : TRUE).id
           leaves == IsActive(v.list, e) /\ e.kind \notin Items \cup Statuses
           curing == e.kind = "NaturalCure" /\ special # {}
<1>1. /\ n \in Nat /\ v.list \in [1 .. n -> Effect] /\ v.to \in Nat \ {0} /\ v.to \in 1 .. n
      /\ v = [list |-> v.list, to |-> v.to] /\ m \in 1 .. n
  BY LenProperties DEF Rearranged
<1>2. w = IF leaves
          THEN [v EXCEPT !.list = IF curing THEN Dispose(v.list, i) ELSE v.list]
          ELSE [list |-> [v.list EXCEPT ![v.to] = e], to |-> v.to + 1]
  BY DEF Leave
<1>3. ASSUME curing
      PROVE  \A k \in 1 .. n : v.list[k].kind \in Items => v.list[k].id # i
  <2>1. PICK x \in special : x.id = i
    BY <1>3
  <2> HIDE DEF i
  <2>2. x \in Living(v.list) /\ x.kind \in Statuses
    BY DEF Lock
  <2>3. PICK l \in 1 .. n : x = v.list[l]
    BY <1>1, <2>2 DEF Living, ToSet
  <2> SUFFICES ASSUME NEW k \in 1 .. n, v.list[k].kind \in Items, v.list[k].id = i PROVE FALSE
    OBVIOUS
  <2>4. <<i, x.kind>> \in Tags(list) /\ <<i, v.list[k].kind>> \in Tags(list)
    BY <2>1, <2>3 DEF Fits
  <2>5. x.kind = v.list[k].kind
    BY <2>4 DEF Consistent
  <2> QED
    BY <2>2, <2>5 DEF Items, Statuses
<1> HIDE DEF n, e, w, special, i, leaves, curing
<1>4. CASE leaves /\ curing
  <2>1. w = [list |-> Dispose(v.list, i), to |-> v.to]
    BY <1>1, <1>2, <1>4
  <2>2. \A k \in 1 .. n : w.list[k] = IF v.list[k].id = i THEN [v.list[k] EXCEPT !.gone = TRUE]
                                      ELSE v.list[k]
    BY <1>1, <2>1 DEF Dispose
  <2>3. ASSUME NEW k \in 1 .. n PROVE Fits(w.list[k], list)
    <3>1. v.list[k] \in Effect /\ Fits(v.list[k], list)
      BY <1>1 DEF n
    <3>2. w.list[k].id = v.list[k].id /\ w.list[k].kind = v.list[k].kind
          /\ (~w.list[k].gone => w.list[k] = v.list[k])
      BY <2>2, <3>1 DEF Effect
    <3> QED
      BY <3>1, <3>2 DEF Fits
  <2>4. v.list[m].kind \notin Items
    BY <1>4 DEF leaves, e
  <2>5. \A k \in 1 .. n : v.list[k].kind \in Items => w.list[k] = v.list[k]
    BY <1>3, <1>4, <2>2
  <2>6. w.to = v.to
    BY <2>1
  <2> QED
    BY <2>3, <2>4, <2>5, <2>6 DEF n, w
<1>5. CASE leaves /\ ~curing
  <2>1. w = [list |-> v.list, to |-> v.to]
    BY <1>1, <1>2, <1>5
  <2>2. v.list[m].kind \notin Items
    BY <1>5 DEF leaves, e
  <2> QED
    BY <2>1, <2>2 DEF w
<1>6. CASE ~leaves
  <2>1. w = [list |-> [v.list EXCEPT ![v.to] = e], to |-> v.to + 1]
    BY <1>2, <1>6
  <2>2. \A k \in 1 .. n : w.list[k] = IF k = v.to THEN e ELSE v.list[k]
    BY <1>1, <2>1
  <2>3. Fits(e, list)
    BY <1>1 DEF n, e
  <2>4. \A k \in 1 .. n : Fits(w.list[k], list)
    BY <2>2, <2>3 DEF n
  <2> QED
    BY <1>1, <2>1, <2>2, <2>4 DEF n, w, e
<1> QED
  BY <1>4, <1>5, <1>6

LEMMA LeftSets ==
  ASSUME NEW list \in Seq(Effect), Consistent(list)
  PROVE  /\ Left(list) \in Seq(Effect) /\ Tags(Left(list)) \subseteq Tags(list)
         /\ Living(Left(list)) \subseteq Living(list)
         /\ \A y \in Living(list) : y.kind \in Items => y \in Living(Left(list))
<1>1. PICK iter : LeftFrom(iter, list)
  BY LeftStages
<1> DEFINE n == Len(list)
           last == iter[1 .. n]
           Kept(k) == list[k].kind \in Items /\ ~list[k].gone
           Fitting(s) == \A k \in 1 .. n : Fits(iter[s].list[k], list)
           Unseen(s) == \A k \in 1 .. n :
                          Kept(k) /\ (\A j \in s : j < k) => iter[s].list[k] = list[k]
           Written(s) == \A k \in s : Kept(k) =>
                           \E j \in 1 .. n : j < iter[s].to /\ iter[s].list[j] = list[k]
           Good == {s \in SUBSET (1 .. n) : Fitting(s) /\ Unseen(s) /\ Written(s)}
<1>2. /\ n \in Nat /\ ToSet(list) = {list[k] : k \in 1 .. n} /\ list \in [1 .. n -> Effect]
  BY ListSets
<1>3. iter[{}].list = list
  BY <1>1 DEF LeftFrom
<1>4. {} \in Good
  <2>1. ASSUME NEW k \in 1 .. n PROVE Fits(list[k], list)
    BY <1>2 DEF Fits, Tags
  <2> HIDE DEF n
  <2> QED
    BY <1>3, <2>1
<1>5. ASSUME NEW s \in SUBSET (1 .. n), s # {}, s \ {Max(s)} \in Good
      PROVE  s \in Good
  <2> DEFINE m == Max(s)
             r == s \ {m}
             v == iter[r]
             w == iter[s]
  <2>1. m \in s /\ m \in 1 .. n /\ r \in SUBSET (1 .. (m - 1)) /\ r \in SUBSET (1 .. n)
    BY <1>2, <1>5, MaxOf
  <2>2. v \in Rearranged(n) /\ v.to <= m /\ w = Leave(v, m)
    BY <1>1, <1>5, <2>1 DEF LeftFrom
  <2>3. Fitting(r) /\ Unseen(r) /\ Written(r)
    BY <1>5
  <2>4. v.to \in Nat \ {0} /\ v.to \in 1 .. n /\ \A k \in 1 .. n : Fits(v.list[k], list)
    <3>1. v.to \in Nat \ {0}
      BY <2>2 DEF Rearranged
    <3>2. \A k \in 1 .. n : Fits(v.list[k], list)
      BY <2>3
    <3> HIDE DEF m, v, n
    <3> QED
      BY <1>2, <2>1, <2>2, <3>1, <3>2
  <2>5. /\ \A k \in 1 .. n : Fits(w.list[k], list)
        /\ \A k \in 1 .. n : v.list[k].kind \in Items /\ ~v.list[k].gone /\ k # v.to
               => w.list[k] = v.list[k]
        /\ v.list[m].kind \in Items => w.to = v.to + 1 /\ w.list[v.to] = v.list[m]
        /\ w.to \in {v.to, v.to + 1}
    <3> HIDE DEF m, r, v, w
    <3> QED
      BY <2>1, <2>2, <2>4, LeaveFits
  <2>6. \A j \in r : j < m
    BY <1>2, <2>1
  <2>7. Kept(m) => v.list[m] = list[m]
    BY <2>1, <2>3, <2>6
  <2> HIDE DEF m, r, v, w, n
  <2>8. Unseen(s)
    <3> SUFFICES ASSUME NEW k \in 1 .. n, Kept(k), \A j \in s : j < k
                 PROVE  w.list[k] = list[k]
      BY DEF w
    <3>1. v.list[k] = list[k]
      BY <2>3 DEF v, r
    <3>2. m < k /\ k # v.to
      BY <1>2, <2>1, <2>2, <2>4
    <3> QED
      BY <2>5, <3>1, <3>2
  <2>9. Written(s)
    <3> SUFFICES ASSUME NEW k \in s, Kept(k)
                 PROVE  \E j \in 1 .. n : j < w.to /\ w.list[j] = list[k]
      BY DEF w
    <3>1. CASE k = m
      <4>1. v.to < v.to + 1
        BY <2>4
      <4> QED
        BY <2>4, <2>5, <2>7, <3>1, <4>1
    <3>2. CASE k # m
      <4>1. PICK j \in 1 .. n : j < v.to /\ v.list[j] = list[k]
        BY <2>3, <3>2 DEF v, r
      <4>2. w.list[j] = v.list[j]
        BY <1>2, <2>4, <2>5, <4>1
      <4>3. j < w.to
        BY <1>2, <2>4, <2>5, <4>1
      <4> QED
        BY <4>1, <4>2, <4>3
    <3> QED
      BY <3>1, <3>2
  <2>10. Fitting(s)
    BY <2>5 DEF w
  <2> HIDE DEF Fitting, Unseen, Written
  <2> QED
    BY <1>5, <2>8, <2>9, <2>10
<1>6. 1 .. n \in Good
  <2> HIDE DEF Good, n
  <2> QED
    BY <1>2, <1>4, <1>5, FoldInduction
<1>7. /\ last.list \in [1 .. n -> Effect] /\ last.to \in Nat \ {0} /\ last.to <= n + 1
      /\ Left(list) = SubSeq(last.list, 1, last.to - 1)
      /\ \A k \in 1 .. n : Fits(last.list[k], list)
      /\ \A k \in 1 .. n : Kept(k) => \E j \in 1 .. n : j < last.to /\ last.list[j] = list[k]
  BY <1>1, <1>6 DEF LeftFrom, Rearranged
<1> HIDE DEF last, n, Kept
<1> DEFINE t == Left(list)
<1>8. /\ t \in Seq(Effect) /\ Len(t) = last.to - 1
      /\ \A j \in 1 .. (last.to - 1) : t[j] = last.list[j]
  <2>1. t \in Seq(Effect)
    BY LeftTyped
  <2>2. last.to - 1 \in Nat /\ \A j \in 1 .. (last.to - 1) : last.list[j] \in Effect
    BY <1>2, <1>7
  <2> QED
    BY <1>7, <2>1, <2>2, SubSeqProperties
<1>9. ToSet(t) = {last.list[j] : j \in 1 .. (last.to - 1)}
  BY <1>8, ListSets
<1>10. 1 .. (last.to - 1) \subseteq 1 .. n
  BY <1>2, <1>7
<1> HIDE DEF t
<1>11. \A x \in ToSet(t) : Fits(x, list)
  BY <1>7, <1>9, <1>10
<1>12. Tags(t) \subseteq Tags(list) /\ Living(t) \subseteq Living(list)
  BY <1>11 DEF Tags, Living, Fits
<1>13. ASSUME NEW y \in Living(list), y.kind \in Items PROVE y \in Living(t)
  <2>1. PICK k \in 1 .. n : y = list[k]
    BY <1>2 DEF Living
  <2>2. Kept(k)
    BY <1>13, <2>1 DEF Kept, Living
  <2>3. PICK j \in 1 .. n : j < last.to /\ last.list[j] = list[k]
    BY <1>7, <2>2
  <2>4. j \in 1 .. (last.to - 1)
    BY <1>2, <1>7, <2>3
  <2>5. y \in ToSet(t)
    BY <1>9, <2>1, <2>3, <2>4
  <2> QED
    BY <2>5 DEF Living
<1> QED
  BY <1>8, <1>12, <1>13 DEF t

(* A list on which each identity stands for one kind, with one living      *)
(* ability, the one that a points to, and i pointing elsewhere.            *)
Sane(list, a, i) ==
    /\ Consistent(list) /\ a # 0 /\ a # i
    /\ \E e \in Living(list) :
         /\ e.kind \in Abilities /\ e.id = a
         /\ \A x \in Living(list) : x.kind \in Abilities => x = e
Barbs(list) == {y \in Living(list) : y.kind = "StickyBarb"}

LEMMA LivingTags ==
  ASSUME NEW list, NEW x \in Living(list)
  PROVE  <<x.id, x.kind>> \in Tags(list) /\ x \in ToSet(list) /\ ~x.gone
BY DEF Living, Tags

LEMMA KindsApart ==
  /\ Abilities \cap Items = {} /\ Abilities \cap Caught = {} /\ Abilities \cap Statuses = {}
  /\ Items \cap Caught = {} /\ Items \cap Statuses = {}
  /\ Berries \subseteq Items /\ "StickyBarb" \in Items /\ "StickyBarb" \notin Berries
BY DEF Abilities, Items, Caught, Statuses, Berries

(* It stays so if the ability stays and at most one that is no ability     *)
(* comes in, with an identity of its own.                                  *)
LEMMA SaneKept ==
  ASSUME NEW list, NEW new, NEW a, NEW i, NEW j, Sane(list, a, i), j # a, NEW e,
         e.kind \notin Abilities, \A t \in Tags(list) : t[1] # e.id,
         Tags(new) \subseteq Tags(list) \cup {<<e.id, e.kind>>},
         Living(new) \subseteq Living(list) \cup {e},
         \A x \in Living(list) : x.kind \in Abilities => x \in Living(new)
  PROVE  Sane(new, a, j)
<1>1. Consistent(list) /\ a # 0
  BY DEF Sane
<1>2. PICK g \in Living(list) : /\ g.kind \in Abilities /\ g.id = a
                                /\ \A x \in Living(list) : x.kind \in Abilities => x = g
  BY DEF Sane
<1>3. Consistent(new)
  <2> SUFFICES ASSUME NEW x \in Tags(new), NEW y \in Tags(new), x[1] = y[1] PROVE x[2] = y[2]
    BY DEF Consistent
  <2>1. CASE x \in Tags(list) /\ y \in Tags(list)
    BY <1>1, <2>1 DEF Consistent
  <2>2. CASE x = <<e.id, e.kind>> /\ y = <<e.id, e.kind>>
    BY <2>2
  <2>3. ~(x = <<e.id, e.kind>> /\ y \in Tags(list))
    OBVIOUS
  <2>4. ~(y = <<e.id, e.kind>> /\ x \in Tags(list))
    OBVIOUS
  <2> QED
    BY <2>1, <2>2, <2>3, <2>4
<1> QED
  BY <1>1, <1>2, <1>3 DEF Sane

LEMMA SaneShrinks ==
  ASSUME NEW list, NEW new, NEW a, NEW i, Sane(list, a, i),
         Tags(new) \subseteq Tags(list), Living(new) \subseteq Living(list),
         \A x \in Living(list) : x.kind \in Abilities => x \in Living(new)
  PROVE  Sane(new, a, i)
<1>1. Consistent(list) /\ a # 0 /\ a # i
  BY DEF Sane
<1>2. PICK g \in Living(list) : /\ g.kind \in Abilities /\ g.id = a
                                /\ \A x \in Living(list) : x.kind \in Abilities => x = g
  BY DEF Sane
<1>3. Consistent(new)
  BY <1>1 DEF Consistent
<1> QED
  BY <1>1, <1>2, <1>3 DEF Sane

(* Pokemon::applyStatus.                                                   *)
LEMMA Catches ==
  ASSUME NEW list \in Seq(Effect), NEW a \in Nat, NEW i \in Nat, Sane(list, a, i),
         NEW kind \in Caught
  PROVE  LET new == Append(list, [id |-> Fresh(list, {a, i}), kind |-> kind, gone |-> FALSE])
         IN  Sane(new, a, i) /\ Barbs(new) = Barbs(list) /\ Tags(list) \subseteq Tags(new)
<1> DEFINE e == [id |-> Fresh(list, {a, i}), kind |-> kind, gone |-> FALSE]
           new == Append(list, e)
<1>1. Fresh(list, {a, i}) \in Nat /\ \A t \in Tags(list) : t[1] # Fresh(list, {a, i})
  BY FreshTag
<1>2. e \in Effect /\ e.id = Fresh(list, {a, i}) /\ e.kind = kind /\ ~e.gone
  BY <1>1 DEF Effect, Possible, Caught
<1>3. kind \notin Abilities /\ kind # "StickyBarb"
  BY KindsApart
<1> HIDE DEF e
<1>4. Tags(new) = Tags(list) \cup {<<e.id, e.kind>>} /\ Living(new) = Living(list) \cup {e}
  BY <1>2, AppendSets
<1> HIDE DEF new
<1>5. i # a
  BY DEF Sane
<1>6. Sane(new, a, i)
  BY <1>1, <1>2, <1>3, <1>4, <1>5, SaneKept
<1>7. Barbs(new) = Barbs(list)
  BY <1>2, <1>3, <1>4 DEF Barbs
<1> QED
  BY <1>4, <1>6, <1>7 DEF new, e

(* Pokemon::removeStatus of one that is neither an ability nor a barb.     *)
LEMMA Sheds ==
  ASSUME NEW list \in Seq(Effect), NEW a, NEW i, Sane(list, a, i),
         NEW j, NEW k, <<j, k>> \in Tags(list), k \notin Abilities, k # "StickyBarb"
  PROVE  LET new == Dispose(list, j)
         IN  Sane(new, a, i) /\ Barbs(new) = Barbs(list) /\ Tags(new) = Tags(list)
<1> DEFINE new == Dispose(list, j)
<1>1. Tags(new) = Tags(list) /\ Living(new) = {y \in Living(list) : y.id # j}
  BY DisposeSets
<1> HIDE DEF new
<1>2. \A x \in Living(list) : x.id = j => x.kind = k
  <2> SUFFICES ASSUME NEW x \in Living(list), x.id = j PROVE x.kind = k
    OBVIOUS
  <2>1. <<j, x.kind>> \in Tags(list)
    BY LivingTags
  <2> QED
    BY <2>1 DEF Sane, Consistent
<1>3. \A x \in Living(list) : x.kind \in Abilities => x \in Living(new)
  BY <1>1, <1>2
<1>4. Sane(new, a, i)
  BY <1>1, <1>3, SaneShrinks
<1>5. Barbs(new) = Barbs(list)
  BY <1>1, <1>2 DEF Barbs
<1> QED
  BY <1>1, <1>4, <1>5 DEF new

(* Pokemon::removeStatuses.                                                *)
LEMMA Swept ==
  ASSUME NEW list \in Seq(Effect), NEW a, NEW i, Sane(list, a, i)
  PROVE  Sane(Unremoved(list), a, i) /\ Barbs(Unremoved(list)) = Barbs(list)
<1> DEFINE new == Unremoved(list)
<1>1. ToSet(new) = Living(list)
  BY UnremovedTyped
<1> HIDE DEF new
<1>2. Living(new) = Living(list)
  BY <1>1 DEF Living
<1>3. Tags(new) \subseteq Tags(list)
  BY <1>1 DEF Tags, Living
<1>4. Sane(new, a, i)
  BY <1>2, <1>3, SaneShrinks
<1>5. Barbs(new) = Barbs(list)
  BY <1>2 DEF Barbs
<1> QED
  BY <1>4, <1>5 DEF new

(* Pokemon::setAbility: the new one is never blocked, on the list or on    *)
(* what switchOut leaves of it.                                            *)
LEMMA Renewed ==
  ASSUME None \notin Abilities,
         NEW list \in Seq(Effect), NEW a \in Nat, NEW i \in Nat, Sane(list, a, i),
         NEW rest \in Seq(Effect), Tags(rest) \subseteq Tags(list),
         Living(rest) \subseteq Living(list),
         \A y \in Living(list) : y.kind \in Items => y \in Living(rest),
         NEW kind \in Abilities
  PROVE  LET new == NewList(rest, a, i, a, kind)
         IN  /\ Sane(new, NewId(rest, a, i, a, kind), i) /\ Barbs(new) = Barbs(list)
             /\ Tags(rest) \subseteq Tags(new)
             /\ \E e \in Living(new) : e.kind = kind
<1> DEFINE fresh == NewId(rest, a, i, a, kind)
           new == NewList(rest, a, i, a, kind)
           obj == Entry(fresh, kind)
<1>1. Consistent(list)
  BY DEF Sane
<1>2. PICK g \in Living(list) : /\ g.kind \in Abilities /\ g.id = a
                                /\ \A x \in Living(list) : x.kind \in Abilities => x = g
  BY DEF Sane
<1>3. \A y \in Others(rest, a) : y \in Living(list) /\ y.kind \notin Abilities
  BY <1>2 DEF Others
<1>4. kind # None /\ kind \in (Possible \ Statuses) \cup {None}
  BY KindsApart DEF Possible
<1>5. ~Obstructed(rest, a, kind)
  BY <1>3, <1>4 DEF Obstructed
<1>6. /\ fresh \in Nat \ {0} /\ fresh \notin {a, i}
      /\ \A t \in Tags(rest) : t[1] # fresh
      /\ Tags(new) = Tags(rest) \cup {<<fresh, kind>>}
      /\ Living(new) = Others(rest, a) \cup {obj}
  <2>1. fresh \notin {a, i} /\ Adds(rest, a, kind, new, fresh)
    BY <1>4, <1>5, ReplacedFree
  <2> HIDE DEF fresh, new
  <2> QED
    BY <2>1 DEF Adds
<1>7. obj.id = fresh /\ obj.kind = kind
  BY DEF Entry
<1> HIDE DEF obj, fresh, new
<1>8. Consistent(new)
  <2> SUFFICES ASSUME NEW x \in Tags(new), NEW y \in Tags(new), x[1] = y[1]
               PROVE  x[2] = y[2]
    BY DEF Consistent
  <2>1. CASE x \in Tags(rest) /\ y \in Tags(rest)
    BY <1>1, <2>1 DEF Consistent
  <2>2. CASE x = <<fresh, kind>> /\ y = <<fresh, kind>>
    BY <2>2
  <2>3. ~(x = <<fresh, kind>> /\ y \in Tags(rest))
    BY <1>6
  <2>4. ~(y = <<fresh, kind>> /\ x \in Tags(rest))
    BY <1>6
  <2> QED
    BY <1>6, <2>1, <2>2, <2>3, <2>4
<1>9. Sane(new, fresh, i)
  <2>1. obj \in Living(new)
    BY <1>6
  <2>2. \A x \in Living(new) : x.kind \in Abilities => x = obj
    BY <1>3, <1>6
  <2>3. fresh # 0 /\ fresh # i
    BY <1>6
  <2> QED
    BY <1>7, <1>8, <2>1, <2>2, <2>3 DEF Sane
<1>10. Barbs(new) = Barbs(list)
  <2>1. kind # "StickyBarb"
    BY KindsApart
  <2>2. \A y \in Barbs(list) : y \in Living(rest) /\ y.id # a
    <3> SUFFICES ASSUME NEW y \in Barbs(list) PROVE y \in Living(rest) /\ y.id # a
      OBVIOUS
    <3>1. y \in Living(list) /\ y.kind \in Items /\ y.kind = "StickyBarb"
      BY KindsApart DEF Barbs
    <3>2. <<y.id, y.kind>> \in Tags(list) /\ <<g.id, g.kind>> \in Tags(list)
      BY <1>2, <3>1, LivingTags
    <3>3. y.id = a => y.kind = g.kind
      BY <1>1, <1>2, <3>2 DEF Consistent
    <3> QED
      BY <1>2, <3>1, <3>3, KindsApart
  <2>3. \A y : y \in Barbs(new) => y \in Barbs(list)
    BY <1>3, <1>6, <1>7, <2>1 DEF Barbs
  <2>4. \A y : y \in Barbs(list) => y \in Barbs(new)
    BY <1>6, <2>2 DEF Barbs, Others
  <2> QED
    BY <2>3, <2>4
<1>11. \E e \in Living(new) : e.kind = kind
  BY <1>6, <1>7
<1> QED
  BY <1>6, <1>9, <1>10, <1>11 DEF fresh, new

(* Pokemon::setItem, of one whose barbs are what i points to.              *)
LEMMA ItemSet ==
  ASSUME None \notin Abilities, None \notin Items,
         NEW list \in Seq(Effect), NEW a \in Nat, NEW i \in Nat, Sane(list, a, i),
         NEW kind \in {"StickyBarb", None}, \A y \in Barbs(list) : y.id = i
  PROVE  LET new == NewList(list, a, i, i, kind)
             fresh == NewId(list, a, i, i, kind)
         IN  /\ Sane(new, a, fresh) /\ Tags(list) \subseteq Tags(new)
             /\ kind = None => Barbs(new) = {}
             /\ kind # None => Barbs(new) # {}
             /\ \A y \in Barbs(new) : y.id = fresh
<1> DEFINE fresh == NewId(list, a, i, i, kind)
           new == NewList(list, a, i, i, kind)
           obj == Entry(fresh, kind)
<1>1. a # 0 /\ a # i /\ Consistent(list)
  BY DEF Sane
<1>2. kind \in (Possible \ Statuses) \cup {None} /\ kind \notin Abilities /\ None # "StickyBarb"
  BY KindsApart DEF Possible
<1>3. \A y \in Others(list, i) : y \in Living(list) /\ y.kind # "StickyBarb"
  BY DEF Others, Barbs
<1>4. \A x \in Living(list) : x.kind \in Abilities => x \in Others(list, i)
  BY <1>1 DEF Sane, Others
<1>5. CASE kind = None
  <2>1. fresh = 0 /\ Tags(new) = Tags(list) /\ Living(new) = Others(list, i)
    <3>1. Obstructed(list, i, kind)
      BY <1>5 DEF Obstructed
    <3> QED
      BY <1>2, <3>1, ReplacedBlocked
  <2>2. \A x \in Living(new) : x \in Living(list)
    BY <1>3, <2>1
  <2>3. Sane(new, a, i)
    BY <1>4, <2>1, <2>2, SaneShrinks
  <2>4. Sane(new, a, fresh)
    BY <1>1, <2>1, <2>3 DEF Sane
  <2>5. Barbs(new) = {}
    BY <1>3, <2>1 DEF Barbs
  <2> QED
    BY <1>5, <2>1, <2>4, <2>5
<1>6. CASE kind # None
  <2>1. ~Obstructed(list, i, kind)
    BY <1>3, <1>6 DEF Obstructed
  <2>2. /\ fresh \in Nat \ {0} /\ fresh \notin {a, i}
        /\ \A t \in Tags(list) : t[1] # fresh
        /\ Tags(new) = Tags(list) \cup {<<fresh, kind>>}
        /\ Living(new) = Others(list, i) \cup {obj}
    <3>1. fresh \notin {a, i} /\ Adds(list, i, kind, new, fresh)
      BY <1>2, <2>1, ReplacedFree
    <3> HIDE DEF fresh, new
    <3> QED
      BY <3>1 DEF Adds
  <2>3. obj.id = fresh /\ obj.kind = kind
    BY DEF Entry
  <2> HIDE DEF obj, fresh, new
  <2>4. Sane(new, a, fresh)
    <3>1. \A x \in Living(list) : x.kind \in Abilities => x \in Living(new)
      BY <1>4, <2>2
    <3>2. Living(new) \subseteq Living(list) \cup {obj}
      BY <1>3, <2>2
    <3> QED
      BY <1>2, <2>2, <2>3, <3>1, <3>2, SaneKept
  <2>5. \A y \in Barbs(new) : y = obj
    BY <1>3, <2>2 DEF Barbs
  <2>6. obj \in Barbs(new)
    BY <1>6, <2>2, <2>3 DEF Barbs
  <2> QED
    BY <1>6, <2>2, <2>3, <2>4, <2>5, <2>6 DEF fresh, new
<1> QED
  BY <1>5, <1>6

-----------------------------------------------------------------------------
(* Abilities and items.  Every pokemon's list stays sane; one who leaves   *)
(* the field has, or is about to have, its own ability again; a berry that *)
(* is eaten is one; and barbs are what m_item points to, with the one that *)
(* is being handed on counted once.                                        *)

AllSane == \A p \in Pokemon : Sane(effects[p], ability[p], item[p])
BarbsHeld == \A p \in Pokemon : \A y \in Barbs(effects[p]) : y.id = item[p]
MealsThere ==
    \A c \in Entries(calls) : c.op = "consume" =>
        \E k \in Berries : <<c.id, k>> \in Tags(effects[c.on])

Well(q) ==
    /\ Sane(effects'[q], ability'[q], item'[q])
    /\ Barbs(effects'[q]) = Barbs(effects[q])
Grows(q) == Tags(effects[q]) \subseteq Tags(effects'[q])

LEMMA ListsAre ==
  ASSUME CallsInv
  PROVE  /\ effects \in [Pokemon -> Seq(Effect)]
         /\ ability \in [Pokemon -> Nat] /\ item \in [Pokemon -> Nat]
         /\ name \in [Pokemon -> Abilities] /\ fainted \in [Pokemon -> BOOLEAN]
         /\ active \in [{0, 1} -> Pokemon]
BY DEF CallsInv, EffectsTypeOK

LEMMA HeldAlone ==
  ASSUME AllSane, UNCHANGED held, NEW q \in Pokemon
  PROVE  Well(q) /\ Grows(q)
BY DEF held, AllSane, Well, Grows

LEMMA CatchStep ==
  ASSUME CallsInv, AllSane, ApplyStatus, NEW q \in Pokemon
  PROVE  Well(q) /\ Grows(q)
<1> DEFINE c == Head(calls)
           p == c.on
<1>1. c.op = "applyStatus" /\ calls # <<>> /\ UNCHANGED <<ability, item>>
  BY DEF ApplyStatus, First
<1>2. p \in Pokemon /\ c.kind \in Caught
  BY <1>1, Begins, CallFields
<1>3. \/ UNCHANGED effects
      \/ effects' = [effects EXCEPT ![p] = Append(@, Object(p, c.kind))]
  BY DEF ApplyStatus
<1> HIDE DEF c, p
<1>4. CASE q # p \/ UNCHANGED effects
  <2>1. effects'[q] = effects[q]
    BY <1>3, <1>4, ListsAre
  <2> QED
    BY <1>1, <2>1 DEF AllSane, Well, Grows
<1>5. CASE q = p /\ effects' = [effects EXCEPT ![p] = Append(@, Object(p, c.kind))]
  <2> DEFINE list == effects[p]
             new == Append(list, [id |-> Fresh(list, {ability[p], item[p]}),
                                  kind |-> c.kind, gone |-> FALSE])
  <2>1. effects'[q] = new
    BY <1>2, <1>5, ListsAre DEF Object, Pointers
  <2>2. /\ list \in Seq(Effect) /\ ability[p] \in Nat /\ item[p] \in Nat
        /\ Sane(list, ability[p], item[p])
    BY <1>2, ListsAre DEF AllSane
  <2>3. /\ Sane(new, ability[p], item[p]) /\ Barbs(new) = Barbs(list)
        /\ Tags(list) \subseteq Tags(new)
    BY <1>2, <2>2, Catches
  <2> HIDE DEF new
  <2> QED
    BY <1>1, <1>5, <2>1, <2>3 DEF Well, Grows
<1> QED
  BY <1>3, <1>4, <1>5

LEMMA AbilityStep ==
  ASSUME CallsInv, EffectsAssumption, AllSane, ReplaceAbility, NEW q \in Pokemon
  PROVE  Well(q) /\ Grows(q)
<1> DEFINE c == Head(calls)
           p == c.on
           new == NewList(effects[p], ability[p], item[p], ability[p], c.kind)
           fresh == NewId(effects[p], ability[p], item[p], ability[p], c.kind)
<1>1. c.op = "setAbility" /\ calls # <<>> /\ UNCHANGED item
  BY DEF ReplaceAbility, First
<1>2. p \in Pokemon /\ c.kind \in Abilities
  BY <1>1, Begins, CallFields
<1>3. /\ effects' = [effects EXCEPT ![p] = new]
      /\ ability' = [ability EXCEPT ![p] = fresh]
  BY DEF ReplaceAbility, Pointers, NewList, NewId
<1>4. None \notin Abilities
  BY Zenon DEF EffectsAssumption
<1>5. /\ effects[p] \in Seq(Effect) /\ ability[p] \in Nat /\ item[p] \in Nat
      /\ Sane(effects[p], ability[p], item[p])
  BY <1>2, ListsAre DEF AllSane
<1>6. /\ Sane(new, fresh, item[p]) /\ Barbs(new) = Barbs(effects[p])
      /\ Tags(effects[p]) \subseteq Tags(new)
  BY <1>2, <1>4, <1>5, Renewed
<1> HIDE DEF c, p, new, fresh
<1>7. CASE q = p
  <2>1. effects'[q] = new /\ ability'[q] = fresh /\ item'[q] = item[p]
    BY <1>1, <1>2, <1>3, <1>7, ListsAre
  <2> QED
    BY <1>6, <1>7, <2>1 DEF Well, Grows
<1>8. CASE q # p
  <2>1. effects'[q] = effects[q] /\ ability'[q] = ability[q] /\ item'[q] = item[q]
    BY <1>1, <1>3, <1>8, ListsAre
  <2> QED
    BY <2>1 DEF AllSane, Well, Grows
<1> QED
  BY <1>7, <1>8

LEMMA LeaveStep ==
  ASSUME CallsInv, EffectsAssumption, AllSane, SwitchOutPokemon, NEW q \in Pokemon
  PROVE  /\ Well(q)
         /\ q # Head(calls).on => effects'[q] = effects[q]
         /\ q = Head(calls).on => \E e \in Living(effects'[q]) : e.kind = name[q]
<1> DEFINE c == Head(calls)
           p == c.on
           rest == Left(effects[p])
           new == NewList(rest, ability[p], item[p], ability[p], name[p])
           fresh == NewId(rest, ability[p], item[p], ability[p], name[p])
<1>1. c.op = "switchOut" /\ calls # <<>> /\ UNCHANGED item
  BY DEF SwitchOutPokemon, First
<1>2. p \in Pokemon /\ name[p] \in Abilities
  BY <1>1, Begins, CallFields, ListsAre
<1>3. /\ effects' = [effects EXCEPT ![p] = new]
      /\ ability' = [ability EXCEPT ![p] = fresh]
  BY DEF SwitchOutPokemon, Pointers, NewList, NewId
<1>4. None \notin Abilities
  BY Zenon DEF EffectsAssumption
<1>5. /\ effects[p] \in Seq(Effect) /\ ability[p] \in Nat /\ item[p] \in Nat
      /\ Sane(effects[p], ability[p], item[p])
  BY <1>2, ListsAre DEF AllSane
<1>6. /\ rest \in Seq(Effect) /\ Tags(rest) \subseteq Tags(effects[p])
      /\ Living(rest) \subseteq Living(effects[p])
      /\ \A y \in Living(effects[p]) : y.kind \in Items => y \in Living(rest)
  BY <1>5, LeftSets DEF Sane
<1> HIDE DEF rest
<1>7. /\ Sane(new, fresh, item[p]) /\ Barbs(new) = Barbs(effects[p])
      /\ \E e \in Living(new) : e.kind = name[p]
  BY <1>2, <1>4, <1>5, <1>6, Renewed, SMTT(30)
<1> HIDE DEF c, p, new, fresh
<1>8. CASE q = p
  <2>1. effects'[q] = new /\ ability'[q] = fresh /\ item'[q] = item[p]
    BY <1>1, <1>2, <1>3, <1>8, ListsAre
  <2> QED
    BY <1>7, <1>8, <2>1 DEF Well, p, c
<1>9. CASE q # p
  <2>1. effects'[q] = effects[q] /\ ability'[q] = ability[q] /\ item'[q] = item[q]
    BY <1>1, <1>3, <1>9, ListsAre
  <2> QED
    BY <1>9, <2>1 DEF AllSane, Well, p, c
<1> QED
  BY <1>8, <1>9

LEMMA ShedStep ==
  ASSUME CallsInv, AllSane, UNCHANGED <<ability, item>>,
         NEW p \in Pokemon, NEW j, NEW k, <<j, k>> \in Tags(effects[p]),
         k \notin Abilities, k # "StickyBarb",
         effects' = [effects EXCEPT ![p] = Dispose(@, j)], NEW q \in Pokemon
  PROVE  Well(q) /\ Grows(q)
<1> DEFINE new == Dispose(effects[p], j)
<1>1. effects[p] \in Seq(Effect) /\ Sane(effects[p], ability[p], item[p])
  BY ListsAre DEF AllSane
<1>2. /\ Sane(new, ability[p], item[p]) /\ Barbs(new) = Barbs(effects[p])
      /\ Tags(new) = Tags(effects[p])
  BY <1>1, Sheds
<1>3. effects'[q] = IF q = p THEN new ELSE effects[q]
  BY ListsAre
<1> HIDE DEF new
<1> QED
  BY <1>2, <1>3 DEF AllSane, Well, Grows

LEMMA EatStep ==
  ASSUME CallsInv, AllSane, MealsThere, ConsumeItem, NEW q \in Pokemon
  PROVE  Well(q) /\ Grows(q)
<1> DEFINE c == Head(calls)
           p == c.on
<1>1. c.op = "consume" /\ calls # <<>> /\ UNCHANGED <<ability, item>>
  BY DEF ConsumeItem, First
<1>2. p \in Pokemon /\ c \in Entries(calls)
  BY <1>1, Begins, CallFields
<1>3. effects' = effects \/ effects' = [effects EXCEPT ![p] = Dispose(@, c.id)]
  BY DEF ConsumeItem
<1>4. PICK k \in Berries : <<c.id, k>> \in Tags(effects[p])
  BY <1>1, <1>2 DEF MealsThere
<1>5. k \notin Abilities /\ k # "StickyBarb"
  BY KindsApart
<1> HIDE DEF c, p
<1>6. CASE effects' = effects
  BY <1>1, <1>6, HeldAlone DEF held
<1>7. CASE effects' = [effects EXCEPT ![p] = Dispose(@, c.id)]
  BY <1>1, <1>2, <1>4, <1>5, <1>7, ShedStep
<1> QED
  BY <1>3, <1>6, <1>7

LEMMA TickStep ==
  ASSUME CallsInv, AllSane, Tick, NEW q \in Pokemon
  PROVE  Well(q)
<1>1. UNCHANGED <<ability, item>>
  BY DEF Tick
<1>2. PICK t \in ticks :
        \/ UNCHANGED effects
        \/ LET cured == {e \in Living(effects[t.on]) : e.kind = "Paralysis"}
           IN  /\ cured # {}
               /\ effects' = [effects EXCEPT
                                ![t.on] = Dispose(@, (CHOOSE e \in cured : TRUE).id)]
  BY DEF Tick
<1>3. CASE UNCHANGED effects
  BY <1>1, <1>3, HeldAlone DEF held
<1>4. CASE ~UNCHANGED effects
  <2> DEFINE cured == {e \in Living(effects[t.on]) : e.kind = "Paralysis"}
             x == CHOOSE e \in cured : TRUE
  <2>1. cured # {} /\ effects' = [effects EXCEPT ![t.on] = Dispose(@, x.id)]
    BY <1>2, <1>4
  <2>2. x \in cured
    BY <2>1
  <2> HIDE DEF x
  <2>3. x \in Living(effects[t.on]) /\ x.kind = "Paralysis"
    BY <2>2
  <2>4. <<x.id, "Paralysis">> \in Tags(effects[t.on])
    BY <2>3, LivingTags
  <2>5. "Paralysis" \notin Abilities
    BY DEF Abilities
  <2>6. t.on \in Pokemon
    BY DEF CallsInv, EffectsTypeOK
  <2> QED
    BY <1>1, <2>1, <2>4, <2>5, <2>6, ShedStep
<1> QED
  BY <1>3, <1>4

LEMMA SweepStep ==
  ASSUME CallsInv, AllSane, EndTick, NEW q \in Pokemon
  PROVE  Well(q)
<1>1. UNCHANGED <<ability, item>>
  BY DEF EndTick
<1>2. effects'[q] \in {Unremoved(effects[q]), effects[q]}
  BY DEF EndTick
<1>3. effects[q] \in Seq(Effect) /\ Sane(effects[q], ability[q], item[q])
  BY ListsAre DEF AllSane
<1> QED
  BY <1>1, <1>2, <1>3, Swept DEF Well

LEMMA ItemStep ==
  ASSUME CallsInv, EffectsAssumption, AllSane, BarbsHeld, ReplaceItem, NEW q \in Pokemon
  PROVE  LET c == Head(calls)
         IN  /\ Sane(effects'[q], ability'[q], item'[q]) /\ Grows(q)
             /\ \A y \in Barbs(effects'[q]) : y.id = item'[q]
             /\ q # c.on => Barbs(effects'[q]) = Barbs(effects[q])
             /\ q = c.on => (Barbs(effects'[q]) = {} <=> c.kind = None)
<1> DEFINE c == Head(calls)
           p == c.on
           new == NewList(effects[p], ability[p], item[p], item[p], c.kind)
           fresh == NewId(effects[p], ability[p], item[p], item[p], c.kind)
<1>1. c.op = "setItem" /\ calls # <<>> /\ UNCHANGED ability
  BY DEF ReplaceItem, First
<1>2. p \in Pokemon /\ c.kind \in {"StickyBarb", None}
  BY <1>1, Begins, CallFields
<1>3. /\ effects' = [effects EXCEPT ![p] = new]
      /\ item' = [item EXCEPT ![p] = fresh]
  BY DEF ReplaceItem, Pointers, NewList, NewId
<1>4. None \notin Abilities /\ None \notin Items
  BY Zenon DEF EffectsAssumption
<1>5. /\ effects[p] \in Seq(Effect) /\ ability[p] \in Nat /\ item[p] \in Nat
      /\ Sane(effects[p], ability[p], item[p])
      /\ \A y \in Barbs(effects[p]) : y.id = item[p]
  BY <1>2, ListsAre DEF AllSane, BarbsHeld
<1>6. /\ Sane(new, ability[p], fresh) /\ Tags(effects[p]) \subseteq Tags(new)
      /\ Barbs(new) = {} <=> c.kind = None
      /\ \A y \in Barbs(new) : y.id = fresh
  BY <1>2, <1>4, <1>5, ItemSet
<1> HIDE DEF c, p, new, fresh
<1>7. CASE q = p
  <2>1. effects'[q] = new /\ ability'[q] = ability[p] /\ item'[q] = fresh
    BY <1>1, <1>2, <1>3, <1>7, ListsAre
  <2> QED
    BY <1>6, <1>7, <2>1 DEF Grows, p, c
<1>8. CASE q # p
  <2>1. effects'[q] = effects[q] /\ ability'[q] = ability[q] /\ item'[q] = item[q]
    BY <1>1, <1>3, <1>8, ListsAre
  <2> QED
    BY <1>8, <2>1 DEF AllSane, BarbsHeld, Grows, p, c
<1> QED
  BY <1>7, <1>8

(* The calls that change what a pokemon holds.                             *)
Changing == {"applyStatus", "setAbility", "setItem", "consume", "switchOut"}

LEMMA HeldSteps ==
  ASSUME Call
  PROVE  /\ Head(calls).op \notin Changing => UNCHANGED held
         /\ calls # <<>>
<1>1. calls # <<>>
  BY CallFrame
<1>2. CASE ApplyStatus \/ ReplaceAbility \/ ReplaceItem \/ ConsumeItem \/ SwitchOutPokemon
  BY <1>1, <1>2, Zenon DEF ApplyStatus, ReplaceAbility, ReplaceItem, ConsumeItem,
     SwitchOutPokemon, First, Changing
<1>3. CASE ExecuteMove \/ UseMove \/ PopExecution \/ SecondaryEffect \/ UTurn
  BY <1>1, <1>3, Zenon DEF ExecuteMove, UseMove, PopExecution, SecondaryEffect, UTurn
<1>4. CASE SetHp \/ InformDamaged \/ CheckDeath \/ Faint
  BY <1>1, <1>4, Zenon DEF SetHp, InformDamaged, CheckDeath, Faint
<1>5. CASE InformEffectApplied \/ PassSticky \/ SendOutPokemon
  BY <1>1, <1>5, Zenon DEF InformEffectApplied, PassSticky, SendOutPokemon
<1> QED
  BY <1>2, <1>3, <1>4, <1>5 DEF Call

LEMMA CallBooks ==
  ASSUME CallsInv, EffectsAssumption, AllSane, MealsThere, Call,
         Head(calls).op # "setItem", NEW q \in Pokemon
  PROVE  Well(q) /\ (Head(calls).op # "switchOut" => Grows(q))
<1>1. CASE Head(calls).op \notin Changing
  BY <1>1, HeldSteps, HeldAlone
<1>2. CASE Head(calls).op = "applyStatus"
  BY <1>2, CallIs, CatchStep
<1>3. CASE Head(calls).op = "setAbility"
  BY <1>3, CallIs, AbilityStep
<1>4. CASE Head(calls).op = "consume"
  BY <1>4, CallIs, EatStep
<1>5. CASE Head(calls).op = "switchOut"
  BY <1>5, CallIs, LeaveStep
<1> QED
  BY <1>1, <1>2, <1>3, <1>4, <1>5 DEF Changing

LEMMA TurnBooks ==
  ASSUME CallsInv, EffectsAssumption, AllSane,
         \/ \E p \in Pokemon : Act(p) \/ Replace(p)
         \/ BeginTick \/ Tick \/ EndTick \/ NextTurn,
         NEW q \in Pokemon
  PROVE  Well(q) /\ UNCHANGED item
<1>1. UNCHANGED item
  BY TurnCalls
<1>2. ASSUME NEW p \in Pokemon, Act(p) \/ Replace(p) PROVE UNCHANGED held
  BY <1>2 DEF Act, Replace
<1>3. CASE BeginTick \/ NextTurn
  <2>1. UNCHANGED held
    BY <1>3 DEF BeginTick, NextTurn
  <2> QED
    BY <1>1, <2>1, HeldAlone
<1>4. CASE Tick
  BY <1>1, <1>4, TickStep
<1>5. CASE EndTick
  BY <1>1, <1>5, SweepStep
<1> QED
  BY <1>1, <1>2, <1>3, <1>4, <1>5, HeldAlone

(* What a step of the turn calls.                                          *)
LEMMA TurnOps ==
  ASSUME CallsInv, EffectsAssumption,
         \/ \E p \in Pokemon : Act(p) \/ Replace(p)
         \/ BeginTick \/ Tick \/ EndTick \/ NextTurn,
         NEW d \in Entries(calls')
  PROVE  d.op \in {"executeMove", "switchOut", "sendOut", "setHp"}
<1>1. calls' # <<>>
  BY NothingWaits
<1>2. ASSUME NEW a, calls' = <<a>> PROVE d = a
  BY <1>2 DEF Entries
<1>3. ASSUME NEW a, NEW b, calls' = <<a, b>> PROVE d = a \/ d = b
  BY <1>3 DEF Entries
<1>4. ASSUME NEW p \in Pokemon, NEW m \in Moves, calls' = <<Execute(p, Foe(p), m)>>
      PROVE  d.op = "executeMove"
  BY <1>2, <1>4 DEF Execute
<1>5. ASSUME NEW p \in Pokemon, NEW q \in Reserves(PartyOf[p]),
             calls' = <<SwitchOut(p), SendOut(q)>>
      PROVE  d.op \in {"switchOut", "sendOut"}
  BY <1>3, <1>5 DEF SwitchOut, SendOut
<1>6. ASSUME NEW q \in Pokemon, calls' = <<SendOut(q)>> PROVE d.op = "sendOut"
  BY <1>2, <1>6 DEF SendOut
<1>7. ASSUME NEW t \in ticks, calls' = <<Hurt(t.on, 1)>> PROVE d.op = "setHp"
  BY <1>2, <1>7 DEF Hurt
<1> QED
  BY <1>1, <1>4, <1>5, <1>6, <1>7, TurnCalls

(* Nothing happens to the effects of those who are off the field.          *)
LEMMA AwayAlone ==
  ASSUME CallsInv, EffectsAssumption, Next, NEW q \in Pokemon, ~OnField(q)
  PROVE  effects'[q] = effects[q]
<1> DEFINE c == Head(calls)
<1>1. ASSUME Call PROVE effects'[q] = effects[q]
  <2>1. CASE c.op \notin Changing
    BY <1>1, <2>1, HeldSteps DEF held
  <2>2. CASE c.op \in Changing
    <3>1. calls # <<>>
      BY <1>1, CallFrame
    <3>2. c.op \notin {"popExecution", "sendOut"}
      BY <2>2 DEF Changing
    <3>3. OnField(c.on)
      BY <3>1, <3>2, Begins DEF Placed
    <3>4. q # c.on
      BY <3>3
    <3>5. \E new : effects' \in {effects, [effects EXCEPT ![c.on] = new]}
      <4>1. CASE c.op = "applyStatus"
        BY <1>1, <4>1, CallIs DEF ApplyStatus
      <4>2. CASE c.op = "setAbility"
        BY <1>1, <4>2, CallIs DEF ReplaceAbility
      <4>3. CASE c.op = "setItem"
        BY <1>1, <4>3, CallIs DEF ReplaceItem
      <4>4. CASE c.op = "consume"
        BY <1>1, <4>4, CallIs DEF ConsumeItem
      <4>5. CASE c.op = "switchOut"
        BY <1>1, <4>5, CallIs DEF SwitchOutPokemon
      <4> QED
        BY <2>2, <4>1, <4>2, <4>3, <4>4, <4>5 DEF Changing
    <3> HIDE DEF c
    <3> QED
      BY <3>4, <3>5, ListsAre
  <2> QED
    BY <2>1, <2>2
<1>2. ASSUME NEW p \in Pokemon, Act(p) \/ Replace(p) PROVE effects' = effects
  BY <1>2 DEF Act, Replace, held
<1>3. CASE BeginTick \/ NextTurn
  BY <1>3 DEF BeginTick, NextTurn, held
<1>4. CASE Tick
  <2>1. PICK t \in ticks : \E new : effects' \in {effects, [effects EXCEPT ![t.on] = new]}
    BY <1>4 DEF Tick
  <2>2. phase = "ticks"
    BY <1>4 DEF Tick
  <2>3. OnField(t.on)
    BY <2>2 DEF CallsInv, TicksStay
  <2> QED
    BY <2>1, <2>3, ListsAre
<1>5. CASE EndTick
  BY <1>5 DEF EndTick
<1> QED
  BY <1>1, <1>2, <1>3, <1>4, <1>5 DEF Next

Own(p) == \E e \in Living(effects[p]) : e.kind = name[p]
OwnAway == \A p \in Pokemon : ~OnField(p) /\ ~fainted[p] => Own(p)
LeaversOwn ==
    \A c \in Entries(calls) : c.op = "sendOut" =>
        fainted[Leaver(c)] \/ Own(Leaver(c)) \/ Going(Leaver(c))

(* What a call step adds to those behind the first one.                    *)
LEMMA Behinds ==
  ASSUME CallsInv, EffectsAssumption, Call, NEW d \in Entries(calls'),
         d.op \in {"consume", "passItem", "setItem"}
  PROVE  /\ d \in Calling
         /\ \/ d \in Entries(Tail(calls)) /\ Follows(Head(calls), d)
            \/ /\ Head(calls).op \notin Mute
               /\ \E New \in SUBSET Entries(calls') : d \in New /\ Brought(d, New)
<1> DEFINE c == Head(calls)
<1>1. calls # <<>> /\ (c.op \in Mute => calls' = <<>> \o Tail(calls))
  BY CallFrame
<1>2. /\ Tail(calls) \in Seq(Calling) /\ Ahead(c, Tail(calls))
      /\ Entries(Tail(calls)) \subseteq Calling
  BY <1>1, Begins
<1>3. ~ExecuteMove
  <2> SUFFICES ASSUME ExecuteMove PROVE FALSE
    OBVIOUS
  <2>1. calls' = <<>> \/ Entries(calls') \subseteq {Die(c.user), Use(c.user, c.on, c.move), Pop}
    BY ExecuteIs
  <2>2. d \in {Die(c.user), Use(c.user, c.on, c.move), Pop}
    BY <2>1, NothingWaits
  <2> QED
    BY <2>2 DEF Die, Use, Pop
<1>4. PICK New \in SUBSET Calling : Given(New)
  BY <1>3, CallGiven
<1>5. /\ Entries(calls') = New \cup Entries(Tail(calls))
      /\ \A x \in New : Brought(x, New)
  BY <1>4 DEF Given, Put
<1>6. CASE d \in Entries(Tail(calls))
  BY <1>2, <1>6 DEF Ahead
<1>7. CASE d \notin Entries(Tail(calls))
  <2>1. d \in New /\ Brought(d, New) /\ New \in SUBSET Entries(calls')
    BY <1>5, <1>7
  <2>2. c.op \notin Mute
    BY <1>1, <1>2, <1>7, ConcatEmptySeq
  <2> QED
    BY <2>1, <2>2
<1> QED
  BY <1>6, <1>7

LEMMA MealsKept ==
  ASSUME CallsInv, EffectsAssumption, AllSane, BarbsHeld, MealsThere, Next
  PROVE  MealsThere'
<1> SUFFICES ASSUME NEW d \in Entries(calls'), d.op = "consume"
             PROVE  \E k \in Berries : <<d.id, k>> \in Tags(effects'[d.on])
  BY DEF MealsThere
<1>1. CASE Call
  <2> DEFINE c == Head(calls)
  <2>1. /\ d \in Calling
        /\ \/ d \in Entries(Tail(calls)) /\ Follows(c, d)
           \/ /\ c.op \notin Mute
              /\ \E New \in SUBSET Entries(calls') : d \in New /\ Brought(d, New)
    BY <1>1, Behinds
  <2>2. d.on \in Pokemon
    BY <2>1, CallFields
  <2>3. calls # <<>> /\ Entries(calls) = {c} \cup Entries(Tail(calls))
    BY <1>1, CallFrame, Begins
  <2>4. \E k \in Berries : <<d.id, k>> \in Tags(effects[d.on])
    <3>1. CASE d \in Entries(Tail(calls))
      BY <2>3, <3>1 DEF MealsThere
    <3>2. CASE \E New \in SUBSET Entries(calls') : d \in New /\ Brought(d, New)
      BY <3>2 DEF Brought, Tags
    <3> QED
      BY <2>1, <3>1, <3>2
  <2>5. c.op # "switchOut"
    BY <2>1 DEF Follows, Mute
  <2>6. Grows(d.on)
    BY <1>1, <2>2, <2>5, CallBooks, ItemStep, CallIs
  <2> QED
    BY <2>4, <2>6 DEF Grows
<1>2. CASE \/ \E p \in Pokemon : Act(p) \/ Replace(p)
           \/ BeginTick \/ Tick \/ EndTick \/ NextTurn
  <2>1. d.op \in {"executeMove", "switchOut", "sendOut", "setHp"}
    BY <1>2, TurnOps
  <2> QED
    BY <2>1
<1> QED
  BY <1>1, <1>2 DEF Next

LEMMA OwnKept ==
  ASSUME CallsInv, EffectsAssumption, AllSane, OwnAway, LeaversOwn, Next
  PROVE  OwnAway' /\ LeaversOwn'
<1>1. /\ PartyOf \in [Pokemon -> {0, 1}] /\ active \in [{0, 1} -> Pokemon]
      /\ fainted \in [Pokemon -> BOOLEAN] /\ SidesKept
  <2>1. PartyOf \in [Pokemon -> {0, 1}]
    BY Zenon DEF EffectsAssumption
  <2> QED
    BY <2>1, ListsAre DEF CallsInv
<1>2. UNCHANGED name
  BY CallFrame, TurnCalls DEF Next, names
<1>3. ASSUME NEW q \in Pokemon, ~OnField(q), Own(q)
      PROVE  Own(q)'
  BY <1>2, <1>3, AwayAlone DEF Own
<1>4. ASSUME UNCHANGED active, \A q \in Pokemon : fainted[q] => fainted'[q]
      PROVE  OwnAway'
  <2> SUFFICES ASSUME NEW q \in Pokemon, ~OnField(q), ~fainted'[q] PROVE Own(q)'
    BY <1>4 DEF OwnAway, OnField
  <2> QED
    BY <1>3, <1>4 DEF OwnAway
<1>5. CASE \/ \E p \in Pokemon : Act(p) \/ Replace(p)
           \/ BeginTick \/ Tick \/ EndTick \/ NextTurn
  <2>1. UNCHANGED <<active, fainted>>
    BY <1>5, TurnCalls DEF body
  <2>2. LeaversOwn'
    BY <1>5, <2>1, TurnSends DEF LeaversOwn, Leaver, Leaves, Going
  <2> QED
    BY <1>4, <2>1, <2>2
<1>6. CASE Call
  <2> DEFINE c == Head(calls)
  <2>1. /\ calls # <<>> /\ (c.op # "sendOut" => UNCHANGED active)
        /\ (c.op # "faint" => UNCHANGED fainted)
    BY <1>6, CallFrame
  <2>2. /\ c \in Calling /\ Ahead(c, Tail(calls))
        /\ Entries(calls) = {c} \cup Entries(Tail(calls))
    BY <2>1, Begins
  <2>3. \A q \in Pokemon : fainted[q] => fainted'[q]
    <3>1. CASE c.op # "faint"
      BY <2>1, <3>1
    <3>2. CASE c.op = "faint"
      <4>1. fainted' = [fainted EXCEPT ![c.on] = TRUE]
        BY <1>6, <3>2, CallIs DEF Faint
      <4> HIDE DEF c
      <4> QED
        BY <1>1, <4>1
    <3> QED
      BY <3>1, <3>2
  <2>4. ASSUME NEW d \in Entries(calls'), d.op = "sendOut"
        PROVE  /\ UNCHANGED active /\ Leaver(d) \in Pokemon /\ c.op # "sendOut"
               /\ \/ Leaves(Leaver(d), calls')
                  \/ c.op = "switchOut" /\ d \in Entries(calls)
               /\ \A o : Going(o) => Leaves(o, calls') \/ (c.op = "switchOut" /\ c.on = o)
    <3>1. /\ UNCHANGED active /\ d \in Calling /\ c.op # "sendOut"
          /\ (d \in Entries(calls) \/ Leaves(Leaver(d), calls'))
          /\ \A o : Going(o) => Leaves(o, calls') \/ (c.op = "switchOut" /\ c.on = o)
      BY <1>6, <2>4, SendOuts
    <3>2. Leaver(d) \in Pokemon
      BY <1>1, <2>4, <3>1, CallFields DEF Leaver
    <3>3. d \in Entries(calls) => c.op = "switchOut"
      BY <2>2, <2>4, <3>1 DEF Ahead, Follows
    <3> QED
      BY <3>1, <3>2, <3>3
  <2>5. LeaversOwn'
    <3> SUFFICES ASSUME NEW d \in Entries(calls'), d.op = "sendOut"
                 PROVE  \/ fainted'[Leaver(d)] \/ Leaves(Leaver(d), calls')
                        \/ \E e \in Living(effects'[Leaver(d)]) : e.kind = name[Leaver(d)]
      BY <1>2, <2>4 DEF LeaversOwn, Leaver, Leaves, Going, Own
    <3> DEFINE o == Leaver(d)
    <3>1. o \in Pokemon
      BY <2>4
    <3>2. CASE c.op = "switchOut" /\ d \in Entries(calls)
      <4>1. fainted[o] \/ Own(o) \/ Going(o)
        BY <3>2 DEF LeaversOwn
      <4>2. SwitchOutPokemon
        BY <1>6, <3>2, CallIs
      <4>3. CASE fainted[o]
        BY <2>3, <3>1, <4>3
      <4> HIDE DEF o
      <4>7. /\ o # c.on => effects'[o] = effects[o]
            /\ o = c.on => \E e \in Living(effects'[o]) : e.kind = name[o]
        BY <3>1, <4>2, LeaveStep
      <4>4. CASE o = c.on
        BY <4>4, <4>7 DEF o
      <4>5. CASE Own(o) /\ o # c.on
        <5>1. \E e \in Living(effects'[o]) : e.kind = name[o]
          BY <4>5, <4>7 DEF Own
        <5> QED
          BY <5>1 DEF o
      <4>6. CASE Going(o) /\ o # c.on
        BY <2>4, <4>6 DEF o
      <4> QED
        BY <4>1, <4>3, <4>4, <4>5, <4>6
    <3> HIDE DEF o
    <3> QED
      BY <2>4, <3>2 DEF o
  <2>6. CASE c.op # "sendOut"
    BY <1>4, <2>1, <2>3, <2>5, <2>6
  <2>7. CASE c.op = "sendOut"
    <3> DEFINE q == c.on
               o == active[PartyOf[q]]
    <3>1. active' = [active EXCEPT ![PartyOf[q]] = q] /\ UNCHANGED <<fainted, effects>>
      BY <1>6, <2>7, CallIs DEF SendOutPokemon, body, held
    <3>2. q \in Pokemon /\ o \in Pokemon /\ PartyOf[q] \in {0, 1} /\ PartyOf[o] = PartyOf[q]
      BY <1>1, <2>2, <2>7, CallFields DEF SidesKept
    <3>3. ~Going(o)
      BY <2>2, <2>7 DEF Ahead, Follows, Going, Leaves
    <3>4. fainted[o] \/ Own(o)
      BY <2>2, <2>7, <3>3 DEF LeaversOwn, Leaver
    <3> SUFFICES ASSUME NEW r \in Pokemon, ~OnField(r)', ~fainted[r] PROVE Own(r)'
      BY <2>5, <3>1 DEF OwnAway
    <3> HIDE DEF c, q
    <3>5. r = o \/ ~OnField(r)
      <4>1. PartyOf[r] \in {0, 1} /\ active'[PartyOf[r]] # r
        BY <1>1 DEF OnField
      <4>2. CASE PartyOf[r] = PartyOf[q]
        BY <4>2 DEF OnField
      <4>3. CASE PartyOf[r] # PartyOf[q]
        BY <1>1, <3>1, <3>2, <4>1, <4>3 DEF OnField
      <4> QED
        BY <4>2, <4>3
    <3>6. Own(r)
      BY <3>4, <3>5 DEF OwnAway
    <3> QED
      BY <1>2, <3>1, <3>6 DEF Own
  <2> QED
    BY <2>5, <2>6, <2>7
<1> QED
  BY <1>5, <1>6 DEF Next

(* Sticky Barbs.  One that is handed on is with both for a moment.         *)
Bearers == {p \in Pokemon : Barbs(effects[p]) # {}}
Holders == {p \in Pokemon : itemName[p] = "StickyBarb"}
Offered == \E c \in Entries(calls) : c.op = "setItem" /\ c.kind # None
Taken == \E c \in Entries(calls) : c.op = "setItem" /\ c.kind = None
PassersBear == \A c \in Entries(calls) : c.op = "passItem" => c.on \in Bearers
HandedOver ==
    \A c \in Entries(calls) : c.op = "setItem" =>
        IF c.kind = None THEN c.on \in Bearers ELSE c.on \notin Bearers /\ Taken
BarbsCounted ==
    Cardinality(Bearers) = Cardinality(Holders) + (IF Taken /\ ~Offered THEN 1 ELSE 0)
ItemsInv == PassersBear /\ HandedOver /\ BarbsCounted

LEMMA BearersStay ==
  ASSUME CallsInv, EffectsAssumption, AllSane, MealsThere, Next,
         Call => Head(calls).op # "setItem"
  PROVE  Bearers' = Bearers
<1>1. \A q \in Pokemon : Barbs(effects'[q]) = Barbs(effects[q])
  <2>1. CASE Call
    BY <2>1, CallBooks DEF Well
  <2>2. CASE \/ \E p \in Pokemon : Act(p) \/ Replace(p)
             \/ BeginTick \/ Tick \/ EndTick \/ NextTurn
    BY <2>2, TurnBooks DEF Well
  <2> QED
    BY <2>1, <2>2 DEF Next
<1> QED
  BY <1>1 DEF Bearers

LEMMA BearersFinite ==
  ASSUME EffectsAssumption
  PROVE  IsFiniteSet(Bearers) /\ Cardinality(Bearers) \in Nat
<1>1. IsFiniteSet(Pokemon)
  BY Zenon DEF EffectsAssumption
<1>2. Bearers \subseteq Pokemon
  BY DEF Bearers
<1> QED
  BY <1>1, <1>2, FS_Subset, FS_CardinalityType

(* Where a call about an item comes from.                                  *)
LEMMA ItemCalls ==
  ASSUME CallsInv, EffectsAssumption, Call, NEW d \in Entries(calls')
  PROVE  LET c == Head(calls)
         IN  /\ d.op = "passItem" =>
                  /\ d.on \in Pokemon /\ c.op # "setItem"
                  /\ d \in Entries(calls) \/ Barbs(effects[d.on]) # {}
             /\ d.op = "setItem" /\ c.op = "setItem" =>
                  /\ d \in Entries(Tail(calls)) /\ c.on # d.on
                  /\ c.kind # None /\ d.kind = None
             /\ d.op = "setItem" /\ c.op # "setItem" =>
                  /\ c.op = "passItem" /\ d \in HandOn(c)
                  /\ HandOn(c) \subseteq Entries(calls') /\ ~Holds(c.user)
<1> DEFINE c == Head(calls)
<1>1. Entries(calls) = {c} \cup Entries(Tail(calls))
  BY Begins, CallFrame
<1>2. ASSUME d.op = "passItem"
      PROVE  /\ d.on \in Pokemon /\ c.op # "setItem"
             /\ d \in Entries(calls) \/ Barbs(effects[d.on]) # {}
  <2>1. d \in Calling
    BY <1>2, Behinds
  <2>2. CASE d \in Entries(Tail(calls)) /\ Follows(c, d)
    BY <1>1, <1>2, <2>1, <2>2, CallFields DEF Follows, Blows
  <2>3. CASE /\ c.op \notin Mute
             /\ \E New \in SUBSET Entries(calls') : d \in New /\ Brought(d, New)
    <3>1. Has(effects[d.on], "StickyBarb")
      BY <1>2, <2>3 DEF Brought
    <3> QED
      BY <1>2, <2>1, <2>3, <3>1, CallFields DEF Has, Barbs, Mute
  <2> QED
    BY <1>2, <2>2, <2>3, Behinds
<1>3. ASSUME d.op = "setItem"
      PROVE  \/ /\ c.op = "setItem" /\ d \in Entries(Tail(calls)) /\ c.on # d.on
                /\ c.kind # None /\ d.kind = None
             \/ /\ c.op = "passItem" /\ d \in HandOn(c)
                /\ HandOn(c) \subseteq Entries(calls') /\ ~Holds(c.user)
  <2>1. CASE d \in Entries(Tail(calls)) /\ Follows(c, d)
    BY <1>3, <2>1 DEF Follows
  <2>2. CASE /\ c.op \notin Mute
             /\ \E New \in SUBSET Entries(calls') : d \in New /\ Brought(d, New)
    <3>1. PICK New \in SUBSET Entries(calls') : d \in New /\ Brought(d, New)
      BY <2>2
    <3>2. c.op = "passItem" /\ New = HandOn(c) /\ ~Holds(c.user)
      BY <1>3, <3>1 DEF Brought
    <3> HIDE DEF c
    <3> QED
      BY <3>1, <3>2
  <2> QED
    BY <1>3, <2>1, <2>2, Behinds
<1> HIDE DEF c
<1> QED
  BY <1>2, <1>3 DEF c

LEMMA BarbsMove ==
  ASSUME CallsInv, EffectsAssumption, AllSane, BarbsHeld, ReplaceItem
  PROVE  LET c == Head(calls)
         IN  /\ c.on \in Pokemon
             /\ Bearers' = IF c.kind = None THEN Bearers \ {c.on} ELSE Bearers \cup {c.on}
<1> DEFINE p == Head(calls).on
           k == Head(calls).kind
<1>1. p \in Pokemon
  BY Begins, CallFields DEF ReplaceItem, First
<1>2. \A q \in Pokemon : /\ q # p => Barbs(effects'[q]) = Barbs(effects[q])
                         /\ q = p => (Barbs(effects'[q]) = {} <=> k = None)
  BY ItemStep
<1> HIDE DEF p, k
<1>3. Bearers' = IF k = None THEN Bearers \ {p} ELSE Bearers \cup {p}
  BY <1>1, <1>2 DEF Bearers
<1> QED
  BY <1>1, <1>3 DEF p, k

LEMMA ItemsKeptOn ==
  ASSUME CallsInv, EffectsAssumption, AllSane, BarbsHeld, MealsThere, ItemsInv, Next
  PROVE  ItemsInv'
<1>1. /\ IsFiniteSet(Bearers) /\ Cardinality(Bearers) \in Nat
      /\ IsFiniteSet(Holders) /\ Cardinality(Holders) \in Nat
  <2>1. IsFiniteSet(Pokemon)
    BY Zenon DEF EffectsAssumption
  <2>2. Holders \subseteq Pokemon
    BY DEF Holders
  <2> QED
    BY <2>1, <2>2, BearersFinite, FS_Subset, FS_CardinalityType
<1>2. Holders' = Holders
  <2>1. UNCHANGED itemName
    BY CallFrame, TurnCalls DEF Next, names
  <2> QED
    BY <2>1 DEF Holders
<1>3. "StickyBarb" # None
  <2>1. None \notin Items
    BY Zenon DEF EffectsAssumption
  <2> QED
    BY <2>1 DEF Items
<1>4. CASE \/ \E p \in Pokemon : Act(p) \/ Replace(p)
           \/ BeginTick \/ Tick \/ EndTick \/ NextTurn
  <2>1. \A d \in Entries(calls') : d.op \in {"executeMove", "switchOut", "sendOut", "setHp"}
    BY <1>4, TurnOps
  <2>2. Entries(calls) = {}
    BY <1>4, TurnCalls, NothingWaits
  <2>3. Bearers' = Bearers
    <3>1. ~Call
      BY <2>2, CallFrame, Begins
    <3> QED
      BY <3>1, BearersStay
  <2>4. ~Taken /\ ~Taken'
    BY <2>1, <2>2 DEF Taken
  <2>5. PassersBear' /\ HandedOver'
    BY <2>1 DEF PassersBear, HandedOver
  <2>6. BarbsCounted'
    BY <1>2, <2>3, <2>4 DEF BarbsCounted, ItemsInv
  <2> QED
    BY <2>5, <2>6 DEF ItemsInv
<1>5. CASE Call /\ Head(calls).op # "setItem"
  <2> DEFINE c == Head(calls)
  <2>1. /\ c \in Calling /\ Entries(calls) = {c} \cup Entries(Tail(calls))
        /\ \A d \in Entries(Tail(calls)) : d.op # "setItem"
    BY <1>5, CallFrame, Begins DEF Ahead, Follows
  <2>2. Bearers' = Bearers
    BY <1>5, BearersStay
  <2>3. ~Taken /\ ~Offered
    BY <1>5, <2>1 DEF Taken, Offered
  <2>4. PassersBear'
    <3> SUFFICES ASSUME NEW d \in Entries(calls'), d.op = "passItem" PROVE d.on \in Bearers
      BY <2>2 DEF PassersBear
    <3>1. d.on \in Pokemon /\ (d \in Entries(calls) \/ Barbs(effects[d.on]) # {})
      BY <1>5, ItemCalls
    <3> QED
      BY <3>1 DEF PassersBear, Bearers, ItemsInv
  <2>5. ASSUME NEW d \in Entries(calls'), d.op = "setItem"
        PROVE  /\ d \in HandOn(c) /\ HandOn(c) \subseteq Entries(calls')
               /\ c.on \in Bearers /\ c.user \notin Bearers /\ Taken' /\ Offered'
    <3>1. /\ c.op = "passItem" /\ d \in HandOn(c)
          /\ HandOn(c) \subseteq Entries(calls') /\ ~Holds(c.user)
      BY <1>5, <2>5, ItemCalls
    <3>2. c.on \in Bearers
      BY <2>1, <3>1 DEF PassersBear, ItemsInv
    <3>3. c.user \notin Bearers
      BY <3>1 DEF Bearers, BarbsHeld, Holds, Barbs
    <3>4. Taken' /\ Offered'
      BY <1>3, <3>1 DEF Taken, Offered, HandOn, SetItem
    <3> QED
      BY <3>1, <3>2, <3>3, <3>4
  <2>6. HandedOver'
    <3> SUFFICES ASSUME NEW d \in Entries(calls'), d.op = "setItem"
                 PROVE  IF d.kind = None THEN d.on \in Bearers
                        ELSE d.on \notin Bearers /\ Taken'
      BY <2>2 DEF HandedOver
    <3> HIDE DEF c
    <3> QED
      BY <1>3, <2>5 DEF HandOn, SetItem
  <2>7. Taken' => Offered'
    BY <2>5 DEF Taken
  <2>8. BarbsCounted'
    BY <1>2, <2>2, <2>3, <2>7 DEF BarbsCounted, ItemsInv
  <2> QED
    BY <2>4, <2>6, <2>8 DEF ItemsInv
<1>6. CASE Call /\ Head(calls).op = "setItem"
  <2> DEFINE c == Head(calls)
  <2>1. /\ c \in Calling /\ Entries(calls) = {c} \cup Entries(Tail(calls))
        /\ Ahead(c, Tail(calls)) /\ c \in Entries(calls)
    BY <1>6, CallFrame, Begins
  <2>2. /\ c.on \in Pokemon
        /\ Bearers' = IF c.kind = None THEN Bearers \ {c.on} ELSE Bearers \cup {c.on}
    BY <1>6, CallIs, BarbsMove
  <2>3. ASSUME NEW d \in Entries(calls')
        PROVE  /\ d.op # "passItem"
               /\ d.op = "setItem" => /\ d \in Entries(calls) /\ c.on # d.on
                                      /\ c.kind # None /\ d.kind = None
    BY <1>6, <2>1, ItemCalls
  <2>4. Entries(Tail(calls)) \subseteq Entries(calls')
    <3>1. calls' = <<>> \o Tail(calls)
      BY <1>6, CallFrame DEF Mute
    <3>2. calls' = Tail(calls)
      BY <1>6, <3>1, CallFrame, Begins, ConcatEmptySeq
    <3> QED
      BY <3>2
  <2>5. PassersBear' /\ ~Offered'
    BY <2>3 DEF PassersBear, Offered
  <2>6. IF c.kind = None THEN c.on \in Bearers ELSE c.on \notin Bearers /\ Taken
    BY <1>6, <2>1 DEF HandedOver, ItemsInv
  <2>7. CASE c.kind = None
    <3>1. ~Taken'
      BY <2>3, <2>7 DEF Taken
    <3>2. HandedOver'
      BY <2>3, <2>7 DEF HandedOver
    <3>3. Taken /\ ~Offered
      <4>1. \A d \in Entries(Tail(calls)) : d.op # "setItem"
        BY <2>1, <2>7 DEF Ahead, Follows
      <4> QED
        BY <1>6, <2>1, <2>7, <4>1 DEF Taken, Offered
    <3>4. Cardinality(Bearers') = Cardinality(Bearers) - 1
      BY <1>1, <2>2, <2>6, <2>7, FS_RemoveElement
    <3>5. BarbsCounted'
      BY <1>1, <1>2, <3>1, <3>3, <3>4 DEF BarbsCounted, ItemsInv
    <3> QED
      BY <2>5, <3>2, <3>5 DEF ItemsInv
  <2>8. CASE c.kind # None
    <3>1. Offered
      BY <1>6, <2>1, <2>8 DEF Offered
    <3>2. Taken'
      BY <2>1, <2>4, <2>6, <2>8 DEF Taken
    <3>3. HandedOver'
      <4> SUFFICES ASSUME NEW d \in Entries(calls'), d.op = "setItem"
                   PROVE  d.kind = None /\ d.on \in Bearers'
        BY DEF HandedOver
      <4>1. d \in Entries(calls) /\ d.kind = None
        BY <2>3
      <4>2. d.on \in Bearers
        BY <4>1 DEF HandedOver, ItemsInv
      <4> QED
        BY <2>2, <2>8, <4>1, <4>2
    <3>4. Cardinality(Bearers') = Cardinality(Bearers) + 1
      BY <1>1, <2>2, <2>6, <2>8, FS_AddElement
    <3>5. BarbsCounted'
      BY <1>1, <1>2, <2>5, <3>1, <3>2, <3>4 DEF BarbsCounted, ItemsInv
    <3> QED
      BY <2>5, <3>3, <3>5 DEF ItemsInv
  <2> QED
    BY <2>7, <2>8
<1> QED
  BY <1>4, <1>5, <1>6 DEF Next

(* Pokemon::initialise: the ability, and the item if there is one.         *)
LEMMA StartSets ==
  ASSUME NEW a \in Effect, NEW t \in Seq(Effect)
  PROVE  ToSet(<<a>> \o t) = {a} \cup ToSet(t)
<1> DEFINE s == <<a>>
           u == s \o t
           n == Len(t)
<1>1. s \in Seq(Effect) /\ Len(s) = 1 /\ s[1] = a
  OBVIOUS
<1> HIDE DEF s
<1>2. /\ u \in Seq(Effect) /\ Len(u) = 1 + n /\ n \in Nat
      /\ \A i \in 1 .. 1 + n : u[i] = IF i <= 1 THEN s[i] ELSE t[i - 1]
  <2>1. Len(t) \in Nat
    BY LenProperties
  <2>2. /\ s \o t \in Seq(Effect) /\ Len(s \o t) = Len(s) + Len(t)
        /\ \A i \in 1 .. Len(s) + Len(t) :
              (s \o t)[i] = IF i <= Len(s) THEN s[i] ELSE t[i - Len(s)]
    BY <1>1, ConcatProperties
  <2> QED
    BY <1>1, <2>1, <2>2
<1>3. /\ ToSet(u) = {u[i] : i \in 1 .. 1 + n}
      /\ ToSet(t) = {t[i] : i \in 1 .. n}
  BY <1>2, ListSets
<1> HIDE DEF u, n
<1>4. \A i \in 1 .. 1 + n : u[i] \in {a} \cup ToSet(t)
  BY <1>1, <1>2, <1>3
<1>5. a \in ToSet(u)
  BY <1>1, <1>2, <1>3
<1>6. ASSUME NEW i \in 1 .. n PROVE t[i] \in ToSet(u)
  <2>1. i + 1 \in 1 .. 1 + n /\ u[i + 1] = t[i]
    BY <1>2
  <2> QED
    BY <1>3, <2>1
<1> QED
  BY <1>3, <1>4, <1>5, <1>6 DEF u, s

LEMMA NoSets == ToSet(<<>>) = {}
  BY DEF ToSet

LEMMA StartLists ==
  ASSUME EffectsAssumption, Init, NEW p \in Pokemon
  PROVE  /\ Sane(effects[p], ability[p], item[p]) /\ Own(p)
         /\ Barbs(effects[p]) = IF itemName[p] = "StickyBarb"
                                THEN {Entry(2, "StickyBarb")} ELSE {}
         /\ itemName[p] = "StickyBarb" => item[p] = 2
         /\ \A x \in Living(effects[p]) : x.kind \in Abilities \cup Items
<1> DEFINE a == Entry(1, name[p])
           b == Entry(2, itemName[p])
           with == IF itemName[p] = None THEN <<>> ELSE <<b>>
           list == <<a>> \o with
<1>1. EffectsTypeOK /\ None \notin Items /\ Holdings \subseteq [Pokemon -> Items \cup {None}]
  BY Zenon, InitTyped DEF EffectsAssumption
<1>2. /\ effects[p] = list /\ ability[p] = 1 /\ item[p] = IF itemName[p] = None THEN 0 ELSE 2
  BY DEF Init, Entry
<1>3. name[p] \in Abilities /\ itemName[p] \in Items \cup {None}
  BY <1>1 DEF Init, EffectsTypeOK
<1>4. itemName[p] # None => itemName[p] \in Carried
  BY <1>1 DEF Carried, Init
<1>5. a \in Effect /\ (itemName[p] # None => b \in Effect)
  BY <1>3, <1>4 DEF Entry, Effect, Possible
<1>6. a.id = 1 /\ a.kind = name[p] /\ ~a.gone /\ b.id = 2 /\ b.kind = itemName[p] /\ ~b.gone
  BY DEF Entry
<1> HIDE DEF a, b
<1>7. with \in Seq(Effect) /\ ToSet(with) = IF itemName[p] = None THEN {} ELSE {b}
  <2>1. itemName[p] # None => <<b>> \in Seq(Effect) /\ ToSet(<<b>>) = {b}
    BY <1>5 DEF ToSet
  <2> QED
    BY <2>1, NoSets, EmptySeq
<1> HIDE DEF with
<1>8. ToSet(list) = {a} \cup (IF itemName[p] = None THEN {} ELSE {b})
  BY <1>5, <1>7, StartSets
<1>9. list \in Seq(Effect)
  BY <1>5, <1>7, ConcatProperties
<1> HIDE DEF list
<1>10. Living(list) = {a} \cup (IF itemName[p] = None THEN {} ELSE {b})
  BY <1>6, <1>8 DEF Living
<1>11. name[p] \notin Items /\ (itemName[p] # None => itemName[p] \notin Abilities)
  BY <1>3, KindsApart
<1>12. Consistent(list)
  <2>1. Tags(list) \subseteq {<<1, name[p]>>, <<2, itemName[p]>>}
    BY <1>6, <1>8 DEF Tags
  <2> QED
    BY <2>1 DEF Consistent
<1>13. Sane(list, 1, item[p])
  <2>1. a \in Living(list) /\ \A x \in Living(list) : x.kind \in Abilities => x = a
    BY <1>6, <1>10, <1>11
  <2> QED
    BY <1>2, <1>3, <1>6, <1>12, <2>1 DEF Sane
<1>14. \E e \in Living(list) : e.kind = name[p]
  BY <1>6, <1>10
<1>15. "StickyBarb" # None /\ name[p] # "StickyBarb"
  BY <1>1, <1>11, KindsApart
<1>16. Barbs(list) = IF itemName[p] = "StickyBarb" THEN {b} ELSE {}
  BY <1>6, <1>10, <1>15 DEF Barbs
<1>17. \A x \in Living(list) : x.kind \in Abilities \cup Items
  BY <1>3, <1>6, <1>10
<1> QED
  BY <1>2, <1>13, <1>14, <1>15, <1>16, <1>17 DEF Own, b

(* What the books keep from step to step.                                  *)
BooksInv ==
    /\ AllSane /\ BarbsHeld /\ MealsThere
    /\ OwnAway /\ LeaversOwn
    /\ ItemsInv

LEMMA InitBooks ==
  ASSUME EffectsAssumption, Init
  PROVE  BooksInv
<1>1. Entries(calls) = {}
  BY NothingWaits DEF Init
<1>2. AllSane /\ OwnAway
  BY StartLists DEF AllSane, OwnAway
<1>3. \A p \in Pokemon :
          /\ Barbs(effects[p]) = IF itemName[p] = "StickyBarb"
                                 THEN {Entry(2, "StickyBarb")} ELSE {}
          /\ itemName[p] = "StickyBarb" => item[p] = 2
  BY StartLists
<1>4. BarbsHeld
  BY <1>3 DEF BarbsHeld, Entry
<1>5. Bearers = Holders
  BY <1>3 DEF Bearers, Holders
<1>6. Cardinality(Bearers) \in Nat
  BY BearersFinite
<1>7. ItemsInv
  BY <1>1, <1>5, <1>6 DEF ItemsInv, PassersBear, HandedOver, BarbsCounted, Taken, Offered
<1> QED
  BY <1>1, <1>2, <1>4, <1>7 DEF BooksInv, MealsThere, LeaversOwn

LEMMA ItemAlone ==
  ASSUME Call, Head(calls).op # "setItem"
  PROVE  UNCHANGED item
<1>1. CASE Head(calls).op \notin Changing
  BY <1>1, HeldSteps DEF held
<1>2. CASE Head(calls).op = "applyStatus"
  BY <1>2, CallIs DEF ApplyStatus
<1>3. CASE Head(calls).op = "setAbility"
  BY <1>3, CallIs DEF ReplaceAbility
<1>4. CASE Head(calls).op = "consume"
  BY <1>4, CallIs DEF ConsumeItem
<1>5. CASE Head(calls).op = "switchOut"
  BY <1>5, CallIs DEF SwitchOutPokemon
<1> QED
  BY <1>1, <1>2, <1>3, <1>4, <1>5 DEF Changing

LEMMA BooksKept ==
  ASSUME CallsInv, EffectsAssumption, BooksInv, [Next]_vars
  PROVE  BooksInv'
<1>1. CASE UNCHANGED vars
  <2>1. /\ UNCHANGED <<effects, ability, item, calls, fainted, name, itemName, active>>
    BY <1>1 DEF vars
  <2>2. AllSane' /\ BarbsHeld' /\ MealsThere'
    BY <2>1 DEF BooksInv, AllSane, BarbsHeld, MealsThere
  <2>3. OwnAway' /\ LeaversOwn'
    BY <2>1 DEF BooksInv, OwnAway, LeaversOwn, Own, OnField, Leaver, Going, Leaves
  <2>4. Bearers' = Bearers /\ Holders' = Holders /\ Taken' = Taken /\ Offered' = Offered
    BY <2>1 DEF Bearers, Holders, Taken, Offered
  <2>5. ItemsInv'
    BY <2>1, <2>4 DEF BooksInv, ItemsInv, PassersBear, HandedOver, BarbsCounted
  <2> QED
    BY <2>2, <2>3, <2>5 DEF BooksInv
<1>2. CASE Next
  <2>1. ASSUME NEW q \in Pokemon
        PROVE  /\ Sane(effects'[q], ability'[q], item'[q])
               /\ \A y \in Barbs(effects'[q]) : y.id = item'[q]
    <3>1. CASE Call /\ Head(calls).op = "setItem"
      BY <3>1, CallIs, ItemStep DEF BooksInv
    <3>2. CASE Call /\ Head(calls).op # "setItem"
      BY <3>2, CallBooks, ItemAlone DEF BooksInv, BarbsHeld, Well
    <3>3. CASE \/ \E p \in Pokemon : Act(p) \/ Replace(p)
               \/ BeginTick \/ Tick \/ EndTick \/ NextTurn
      BY <3>3, TurnBooks DEF BooksInv, BarbsHeld, Well
    <3> QED
      BY <1>2, <3>1, <3>2, <3>3 DEF Next
  <2>2. AllSane' /\ BarbsHeld'
    BY <2>1 DEF AllSane, BarbsHeld
  <2>3. MealsThere'
    BY <1>2, MealsKept DEF BooksInv
  <2>4. OwnAway' /\ LeaversOwn'
    BY <1>2, OwnKept DEF BooksInv
  <2>5. ItemsInv'
    BY <1>2, ItemsKeptOn DEF BooksInv
  <2> QED
    BY <2>2, <2>3, <2>4, <2>5 DEF BooksInv
<1> QED
  BY <1>1, <1>2

(* The inductive invariant behind the next two: identities stand for one   *)
(* kind each, m_ability for the one living ability, m_item for a Sticky    *)
(* Barb where there is one; who is off the field or about to leave it has  *)
(* his own ability; and where a Sticky Barb is handed on one more bears it *)
(* than holds it, until the call that takes it away (Pokemon::switchOut,   *)
(* setAbility, setItem, and the script of the item).                       *)
THEOREM BooksInvariant == Spec => []BooksInv
<1>1. Init => BooksInv
  BY EffectsAssumption, InitBooks
<1>2. CallsInv /\ BooksInv /\ [Next]_vars => BooksInv'
  BY EffectsAssumption, BooksKept
<1> QED
  BY <1>1, <1>2, CallsInvariant, PTL DEF Spec

(* An unfainted pokemon has one ability, the one m_ability points to, and  *)
(* off the field its own, whatever replaced or silenced it on the field    *)
(* (Pokemon::setAbility and switchOut, switchOutPredicate).                *)
THEOREM AbilityAgreesHolds == Spec => []AbilityAgrees
<1>1. CallsInv /\ BooksInv => AbilityAgrees
  <2> SUFFICES ASSUME CallsInv, BooksInv, NEW p \in Pokemon, ~fainted[p]
               PROVE  \E e \in Living(effects[p]) :
                        /\ {x \in Living(effects[p]) : x.kind \in Abilities} = {e}
                        /\ e.id = ability[p]
                        /\ ~OnField(p) => e.kind = name[p]
    BY DEF AbilityAgrees
  <2>1. PICK g \in Living(effects[p]) :
                /\ g.kind \in Abilities /\ g.id = ability[p]
                /\ \A x \in Living(effects[p]) : x.kind \in Abilities => x = g
    BY DEF BooksInv, AllSane, Sane
  <2>2. ~OnField(p) => g.kind = name[p]
    <3>1. name[p] \in Abilities
      BY ListsAre
    <3>2. ~OnField(p) => Own(p)
      BY DEF BooksInv, OwnAway
    <3> QED
      BY <2>1, <3>1, <3>2 DEF Own
  <2>3. {x \in Living(effects[p]) : x.kind \in Abilities} = {g}
    BY <2>1
  <2> QED
    BY <2>1, <2>2, <2>3
<1> QED
  BY <1>1, CallsInvariant, BooksInvariant, PTL

(* When every call has returned there are as many Sticky Barbs as at the   *)
(* start, each held by the pokemon it is on (Pokemon::setItem, and         *)
(* informDamaged of the script).                                           *)
THEOREM ItemsKeptHolds == Spec => []ItemsKept
<1>1. BooksInv => ItemsKept
  <2> DEFINE bearers == {p \in Pokemon : Has(effects[p], "StickyBarb")}
  <2> SUFFICES ASSUME BooksInv, calls = <<>>
               PROVE  /\ Cardinality(bearers) = Cardinality(Holders)
                      /\ \A p \in bearers :
                           \E e \in Living(effects[p]) : e.id = item[p] /\ e.kind = "StickyBarb"
    BY DEF ItemsKept, Holders
  <2>1. bearers = Bearers
    BY DEF Bearers, Has, Barbs
  <2>2. Entries(calls) = {}
    BY NothingWaits
  <2>3. ~Taken
    BY <2>2 DEF Taken
  <2>4. Cardinality(Holders) \in Nat
    <3>1. IsFiniteSet(Pokemon) /\ Holders \subseteq Pokemon
      BY Zenon, EffectsAssumption DEF EffectsAssumption, Holders
    <3> QED
      BY <3>1, FS_Subset, FS_CardinalityType
  <2>5. Cardinality(Bearers) = Cardinality(Holders)
    BY <2>3, <2>4 DEF BooksInv, ItemsInv, BarbsCounted
  <2>6. \A p \in bearers :
            \E e \in Living(effects[p]) : e.id = item[p] /\ e.kind = "StickyBarb"
    BY <2>1 DEF BooksInv, BarbsHeld, Bearers, Barbs
  <2> QED
    BY <2>1, <2>5, <2>6
<1> QED
  BY <1>1, BooksInvariant, PTL

(* The three together: what abilities, memories and items say of a battle  *)
(* agrees whenever every call has returned, in whatever order effects      *)
(* answered each other, fainted, switched and replaced pokemon.            *)
THEOREM BooksAgreeHolds == Spec => []BooksAgree
BY AbilityAgreesHolds, MemoryOnFieldHolds, ItemsKeptHolds, PTL DEF BooksAgree

-----------------------------------------------------------------------------
(* Spectators.  The statuses that a pokemon has; what has happened to one  *)
(* that was not revealed, which is nothing; what a spectator who watches   *)
(* has been told.                                                          *)
Suffered(p) == StatusesOf(Living(effects[p]))
Sight == [hp : Int, down : BOOLEAN, status : SUBSET Statuses]
Sights == [on : [{0, 1} -> Pokemon], of : [Pokemon -> Sight]]
Untouched == \A p \in Pokemon : p \notin revealed =>
    hp[p] = MaxHp /\ ~fainted[p] /\ Suffered(p) = {}
KnowsOf(p) ==
    /\ view.of[p].down = fainted[p]
    /\ ~fainted[p] => view.of[p].hp = hp[p] /\ Suffered(p) \subseteq view.of[p].status
WatchInv ==
    /\ view \in Sights /\ revealed \subseteq Pokemon
    /\ \A p \in Pokemon : OnField(p) => p \in revealed
    /\ Untouched
    /\ watching => view.on = active /\ \A p \in Pokemon : KnowsOf(p)

(* Only applyStatus and switchOut give a pokemon a status.                 *)
LEMMA ReplacedShrinks ==
  ASSUME NEW list \in Seq(Effect), NEW i \in Nat, NEW j \in Nat, NEW k,
         NEW kind \in (Possible \ Statuses) \cup {None}
  PROVE  StatusesOf(Living(NewList(list, i, j, k, kind))) \subseteq StatusesOf(Living(list))
<1>1. CASE Obstructed(list, k, kind)
  BY <1>1, ReplacedBlocked DEF StatusesOf, Others
<1>2. CASE ~Obstructed(list, k, kind)
  <2> DEFINE new == NewList(list, i, j, k, kind)
             fresh == NewId(list, i, j, k, kind)
  <2>1. Living(new) = Others(list, k) \cup {Entry(fresh, kind)}
    BY <1>2, ReplacedFree DEF Adds
  <2>2. Entry(fresh, kind).kind \notin Statuses
    BY <1>2 DEF Entry, Obstructed
  <2> HIDE DEF new, fresh
  <2>3. StatusesOf(Living(new)) \subseteq StatusesOf(Living(list))
    BY <2>1, <2>2 DEF StatusesOf, Others
  <2> QED
    BY <2>3 DEF new
<1> QED
  BY <1>1, <1>2

LEMMA DisposeShrinks ==
  ASSUME NEW list \in Seq(Effect), NEW i
  PROVE  StatusesOf(Living(Dispose(list, i))) \subseteq StatusesOf(Living(list))
<1>1. Living(Dispose(list, i)) = {y \in Living(list) : y.id # i}
  BY DisposeSets
<1> QED
  BY <1>1 DEF StatusesOf

LEMMA StatusesShrink ==
  ASSUME CallsInv, EffectsAssumption, Call,
         Head(calls).op \notin {"applyStatus", "switchOut"}, NEW q \in Pokemon
  PROVE  Suffered(q)' \subseteq Suffered(q)
<1> DEFINE c == Head(calls)
           p == c.on
<1>1. CASE c.op \notin Changing
  BY <1>1, HeldSteps DEF held, Suffered
<1>2. ASSUME NEW new, effects' = [effects EXCEPT ![p] = new],
             StatusesOf(Living(new)) \subseteq Suffered(p)
      PROVE  Suffered(q)' \subseteq Suffered(q)
  <2>1. effects'[q] = IF q = p THEN new ELSE effects[q]
    BY <1>2, ListsAre
  <2> HIDE DEF p
  <2> QED
    BY <1>2, <2>1 DEF Suffered
<1>3. c \in Calling /\ calls # <<>>
  BY HeldSteps, Begins
<1>4. CASE c.op = "setAbility"
  <2>1. p \in Pokemon /\ c.kind \in (Possible \ Statuses) \cup {None}
    <3>1. p \in Pokemon /\ c.kind \in Abilities
      BY <1>3, <1>4, CallFields
    <3> QED
      BY <3>1, KindsApart DEF Possible
  <2> DEFINE new == NewList(effects[p], ability[p], item[p], ability[p], c.kind)
  <2>2. effects' = [effects EXCEPT ![p] = new]
    BY <1>4, CallIs DEF ReplaceAbility, Pointers, NewList
  <2>3. /\ effects[p] \in Seq(Effect) /\ ability[p] \in Nat /\ item[p] \in Nat
    BY <2>1, ListsAre
  <2>4. StatusesOf(Living(new)) \subseteq Suffered(p)
    BY <2>1, <2>3, ReplacedShrinks DEF Suffered
  <2> HIDE DEF new, p
  <2> QED
    BY <1>2, <2>2, <2>4
<1>5. CASE c.op = "setItem"
  <2>1. p \in Pokemon /\ c.kind \in (Possible \ Statuses) \cup {None}
    <3>1. p \in Pokemon /\ c.kind \in {"StickyBarb", None}
      BY <1>3, <1>5, CallFields
    <3> QED
      BY <3>1, KindsApart DEF Possible
  <2> DEFINE new == NewList(effects[p], ability[p], item[p], item[p], c.kind)
  <2>2. effects' = [effects EXCEPT ![p] = new]
    BY <1>5, CallIs DEF ReplaceItem, Pointers, NewList
  <2>3. /\ effects[p] \in Seq(Effect) /\ ability[p] \in Nat /\ item[p] \in Nat
    BY <2>1, ListsAre
  <2>4. StatusesOf(Living(new)) \subseteq Suffered(p)
    BY <2>1, <2>3, ReplacedShrinks DEF Suffered
  <2> HIDE DEF new, p
  <2> QED
    BY <1>2, <2>2, <2>4
<1>6. CASE c.op = "consume"
  <2>1. p \in Pokemon
    BY <1>3, <1>6, CallFields
  <2> DEFINE new == Dispose(effects[p], c.id)
  <2>2. effects' = effects \/ effects' = [effects EXCEPT ![p] = new]
    BY <1>6, CallIs DEF ConsumeItem
  <2>3. effects[p] \in Seq(Effect)
    BY <2>1, ListsAre
  <2>4. StatusesOf(Living(new)) \subseteq Suffered(p)
    BY <2>3, DisposeShrinks DEF Suffered
  <2>5. CASE effects' = effects
    BY <2>5 DEF Suffered
  <2>6. CASE effects' = [effects EXCEPT ![p] = new]
    <3> HIDE DEF new, p
    <3> QED
      BY <1>2, <2>4, <2>6
  <2> QED
    BY <2>2, <2>5, <2>6
<1> QED
  BY <1>1, <1>4, <1>5, <1>6 DEF Changing

LEMMA HpAlone ==
  ASSUME Call, Head(calls).op \notin {"setHp", "faint"}
  PROVE  UNCHANGED hp
<1>1. CASE ExecuteMove
  BY <1>1 DEF ExecuteMove, body
<1>2. CASE UseMove
  BY <1>2 DEF UseMove, body
<1>3. CASE PopExecution
  BY <1>3 DEF PopExecution, body
<1>4. CASE SecondaryEffect
  BY <1>4 DEF SecondaryEffect, body
<1>5. CASE UTurn
  BY <1>5 DEF UTurn, body
<1>6. CASE SetHp \/ Faint
  BY <1>6 DEF SetHp, Faint, First
<1>7. CASE InformDamaged
  BY <1>7 DEF InformDamaged, body
<1>8. CASE CheckDeath
  BY <1>8 DEF CheckDeath, body
<1>9. CASE ApplyStatus
  BY <1>9 DEF ApplyStatus, body
<1>10. CASE InformEffectApplied
  BY <1>10 DEF InformEffectApplied, body
<1>11. CASE ReplaceAbility
  BY <1>11 DEF ReplaceAbility, body
<1>12. CASE ReplaceItem
  BY <1>12 DEF ReplaceItem, body
<1>13. CASE PassSticky
  BY <1>13 DEF PassSticky, body
<1>14. CASE ConsumeItem
  BY <1>14 DEF ConsumeItem, body
<1>15. CASE SwitchOutPokemon
  BY <1>15 DEF SwitchOutPokemon, body
<1>16. CASE SendOutPokemon
  BY <1>16 DEF SendOutPokemon, body
<1> QED
  BY <1>1, <1>2, <1>3, <1>4, <1>5, <1>6, <1>7, <1>8, <1>9, <1>10, <1>11, <1>12,
     <1>13, <1>14, <1>15, <1>16, Zenon DEF Call

(* What a message changes of what is known.                                *)
LEMMA SightFields ==
  ASSUME EffectsAssumption, view \in Sights, NEW p \in Pokemon
  PROVE  /\ PartyOf[p] \in {0, 1}
         /\ view.on \in [{0, 1} -> Pokemon] /\ view.of \in [Pokemon -> Sight]
         /\ view = [on |-> view.on, of |-> view.of] /\ view.of[p] \in Sight
<1>1. PartyOf \in [Pokemon -> {0, 1}]
  BY Zenon DEF EffectsAssumption
<1>2. /\ view.on \in [{0, 1} -> Pokemon] /\ view.of \in [Pokemon -> Sight]
      /\ view = [on |-> view.on, of |-> view.of]
  BY DEF Sights
<1> QED
  BY <1>1, <1>2

LEMMA HealthSays ==
  ASSUME EffectsAssumption, view \in Sights, NEW p \in Pokemon, view.on[PartyOf[p]] = p,
         NEW n \in Int
  PROVE  /\ Health(p, n) \in Sights /\ Health(p, n).on = view.on
         /\ Health(p, n).of = [view.of EXCEPT ![p] = [@ EXCEPT !.hp = n]]
<1>1. [view.of[p] EXCEPT !.hp = n] \in Sight
  BY SightFields DEF Sight
<1> QED
  BY <1>1, SightFields DEF Health, Sights

LEMMA FaintedSays ==
  ASSUME EffectsAssumption, view \in Sights, NEW p \in Pokemon, view.on[PartyOf[p]] = p
  PROVE  /\ Fainted(p) \in Sights /\ Fainted(p).on = view.on
         /\ Fainted(p).of = [view.of EXCEPT ![p] = [@ EXCEPT !.down = TRUE]]
<1>1. [view.of[p] EXCEPT !.down = TRUE] \in Sight
  BY SightFields DEF Sight
<1> QED
  BY <1>1, SightFields DEF Fainted, Sights

LEMMA SentOutSays ==
  ASSUME EffectsAssumption, view \in Sights, NEW p \in Pokemon
  PROVE  /\ SentOut(p) \in Sights /\ SentOut(p).of = view.of
         /\ SentOut(p).on = [view.on EXCEPT ![PartyOf[p]] = p]
BY SightFields DEF SentOut, Sights

LEMMA ChangedSays ==
  ASSUME EffectsAssumption, view \in Sights, NEW p \in Pokemon, NEW new
  PROVE  /\ Changed(p, new) \in Sights /\ Changed(p, new).on = view.on
         /\ \E status \in SUBSET Statuses :
              /\ Changed(p, new).of = [view.of EXCEPT ![p] = [@ EXCEPT !.status = status]]
              /\ Suffered(p) \subseteq view.of[p].status => StatusesOf(Living(new)) \subseteq status
<1> DEFINE before == StatusesOf(Living(effects[p]))
           after == StatusesOf(Living(new))
           status == (view.of[p].status \ (before \ after)) \cup (after \ before)
<1>1. /\ status \in SUBSET Statuses
      /\ Suffered(p) \subseteq view.of[p].status => after \subseteq status
  BY SightFields DEF Sight, Suffered, StatusesOf
<1>2. Changed(p, new) = [view EXCEPT !.of[p].status = status]
  BY SightFields DEF Changed
<1> HIDE DEF status
<1>3. [view.of[p] EXCEPT !.status = status] \in Sight
  BY <1>1, SightFields DEF Sight
<1>4. /\ Changed(p, new) \in Sights /\ Changed(p, new).on = view.on
      /\ Changed(p, new).of = [view.of EXCEPT ![p] = [@ EXCEPT !.status = status]]
  BY <1>2, <1>3, SightFields DEF Sights
<1> QED
  BY <1>1, <1>4

(* What a step that is about one pokemon has to keep.                      *)
LEMMA OneTold ==
  ASSUME CallsInv, WatchInv, NEW p \in Pokemon, OnField(p), view' \in Sights,
         UNCHANGED <<active, revealed, watching>>,
         \A q \in Pokemon : q # p =>
           hp'[q] = hp[q] /\ fainted'[q] = fainted[q] /\ Suffered(q)' \subseteq Suffered(q),
         watching => /\ view'.on = view.on /\ KnowsOf(p)'
                     /\ \A q \in Pokemon : q # p => view'.of[q] = view.of[q]
  PROVE  WatchInv'
<1>1. revealed' \subseteq Pokemon /\ \A q \in Pokemon : OnField(q)' => q \in revealed'
  BY DEF WatchInv, OnField
<1>2. Untouched'
  <2> SUFFICES ASSUME NEW q \in Pokemon, q \notin revealed
               PROVE  hp'[q] = MaxHp /\ ~fainted'[q] /\ Suffered(q)' = {}
    BY DEF Untouched
  <2>1. q # p
    BY DEF WatchInv
  <2>2. hp[q] = MaxHp /\ ~fainted[q] /\ Suffered(q) = {}
    BY DEF WatchInv, Untouched
  <2> QED
    BY <2>1, <2>2
<1>3. ASSUME watching PROVE view'.on = active' /\ \A q \in Pokemon : KnowsOf(q)'
  <2>1. view'.on = active'
    BY <1>3 DEF WatchInv
  <2>2. ASSUME NEW q \in Pokemon, q # p PROVE KnowsOf(q)'
    <3>1. KnowsOf(q)
      BY <1>3 DEF WatchInv
    <3> QED
      BY <1>3, <2>2, <3>1 DEF KnowsOf
  <2> QED
    BY <1>3, <2>1, <2>2
<1> QED
  BY <1>1, <1>2, <1>3 DEF WatchInv

(* A step that tells nothing, and does no harm.                            *)
LEMMA NothingTold ==
  ASSUME WatchInv, UNCHANGED <<view, active, revealed, watching, hp, fainted>>,
         \A q \in Pokemon : Suffered(q)' \subseteq Suffered(q)
  PROVE  WatchInv'
<1>1. \A q \in Pokemon : OnField(q)' => q \in revealed
  BY DEF WatchInv, OnField
<1>2. Untouched'
  <2> SUFFICES ASSUME NEW q \in Pokemon, q \notin revealed
               PROVE  hp'[q] = MaxHp /\ ~fainted'[q] /\ Suffered(q)' = {}
    BY DEF Untouched
  <2>1. hp[q] = MaxHp /\ ~fainted[q] /\ Suffered(q) = {}
    BY DEF WatchInv, Untouched
  <2>2. Suffered(q)' \subseteq Suffered(q)
    OBVIOUS
  <2> QED
    BY <2>1, <2>2
<1>3. ASSUME watching, NEW q \in Pokemon PROVE KnowsOf(q)'
  <2>1. KnowsOf(q)
    BY <1>3 DEF WatchInv
  <2>2. Suffered(q)' \subseteq Suffered(q)
    OBVIOUS
  <2> QED
    BY <2>1, <2>2 DEF KnowsOf
<1> QED
  BY <1>1, <1>2, <1>3 DEF WatchInv

LEMMA HealthTold ==
  ASSUME CallsInv, EffectsAssumption, WatchInv, SetHp, hp' \in [Pokemon -> Int],
         view' = IF watching THEN Message ELSE view, UNCHANGED <<revealed, watching>>
  PROVE  WatchInv'
<1> DEFINE c == Head(calls)
<1>1. c.op = "setHp" /\ calls # <<>> /\ UNCHANGED <<fainted, active, effects>>
  BY DEF SetHp, First, held
<1>2. c.on \in Pokemon /\ OnField(c.on)
  BY <1>1, Begins, CallFields DEF Placed
<1> PICK p \in Pokemon : p = c.on /\ OnField(p)
  BY <1>2
<1>3. UNCHANGED hp \/ \E m : hp' = [hp EXCEPT ![p] = m]
  BY DEF SetHp
<1>4. hp \in [Pokemon -> Int]
  BY DEF CallsInv, EffectsTypeOK
<1>5. Message = IF hp' # hp THEN Health(p, hp'[p]) ELSE view
  BY <1>1 DEF Message
<1> HIDE DEF c
<1>6. CASE UNCHANGED hp
  BY <1>1, <1>5, <1>6, NothingTold DEF Suffered
<1>7. CASE hp' # hp
  <2> DEFINE n == hp'[p]
  <2>1. n \in Int /\ \A q \in Pokemon : q # p => hp'[q] = hp[q]
    BY <1>2, <1>3, <1>4, <1>7
  <2>2. ASSUME watching
        PROVE  /\ view' \in Sights /\ view'.on = view.on
               /\ view'.of = [view.of EXCEPT ![p] = [@ EXCEPT !.hp = n]]
    <3>1. view \in Sights /\ view.on[PartyOf[p]] = p /\ view' = Health(p, n)
      BY <1>5, <1>7, <2>2 DEF WatchInv, OnField
    <3> HIDE DEF n
    <3> QED
      BY <2>1, <3>1, HealthSays
  <2> HIDE DEF n
  <2>3. view' \in Sights
    BY <2>2 DEF WatchInv
  <2>4. ASSUME watching
        PROVE  /\ view'.on = view.on /\ KnowsOf(p)'
               /\ \A q \in Pokemon : q # p => view'.of[q] = view.of[q]
    <3>1. view.of \in [Pokemon -> Sight] /\ KnowsOf(p)
      BY <1>2, <2>4 DEF WatchInv, Sights
    <3>2. /\ view'.of[p] = [view.of[p] EXCEPT !.hp = n] /\ view.of[p] \in Sight
          /\ \A q \in Pokemon : q # p => view'.of[q] = view.of[q]
      BY <1>2, <2>2, <2>4, <3>1
    <3>3. /\ view'.of[p].hp = n /\ view'.of[p].down = view.of[p].down
          /\ view'.of[p].status = view.of[p].status
      BY <3>2 DEF Sight
    <3>4. KnowsOf(p)'
      BY <1>1, <3>1, <3>3 DEF KnowsOf, Suffered, n
    <3> QED
      BY <2>2, <2>4, <3>2, <3>4
  <2>5. \A q \in Pokemon : Suffered(q)' \subseteq Suffered(q)
    BY <1>1 DEF Suffered
  <2> QED
    BY <1>1, <1>2, <2>1, <2>3, <2>4, <2>5, OneTold
<1> QED
  BY <1>6, <1>7

LEMMA FaintTold ==
  ASSUME CallsInv, EffectsAssumption, WatchInv, Faint,
         view' = IF watching THEN Message ELSE view, UNCHANGED <<revealed, watching>>
  PROVE  WatchInv'
<1> DEFINE c == Head(calls)
<1>1. c.op = "faint" /\ calls # <<>> /\ UNCHANGED <<active, effects>>
  BY DEF Faint, First, held
<1>2. c.on \in Pokemon /\ OnField(c.on)
  BY <1>1, Begins, CallFields DEF Placed
<1> PICK p \in Pokemon : p = c.on /\ OnField(p)
  BY <1>2
<1>3. fainted' = [fainted EXCEPT ![p] = TRUE] /\ \E m : hp' = [hp EXCEPT ![p] = m]
  BY DEF Faint
<1>4. hp \in [Pokemon -> Int] /\ fainted \in [Pokemon -> BOOLEAN]
  BY DEF CallsInv, EffectsTypeOK
<1>5. Message = Fainted(p)
  BY <1>1 DEF Message
<1> HIDE DEF c
<1>6. /\ \A q \in Pokemon : q # p => hp'[q] = hp[q] /\ fainted'[q] = fainted[q]
      /\ fainted'[p] = TRUE
  BY <1>3, <1>4
<1>7. ASSUME watching
      PROVE  /\ view' \in Sights /\ view'.on = view.on
             /\ view'.of = [view.of EXCEPT ![p] = [@ EXCEPT !.down = TRUE]]
  <2>1. view \in Sights /\ view.on[PartyOf[p]] = p /\ view' = Fainted(p)
    BY <1>5, <1>7 DEF WatchInv, OnField
  <2> QED
    BY <2>1, FaintedSays
<1>8. view' \in Sights
  BY <1>7 DEF WatchInv
<1>9. ASSUME watching
      PROVE  /\ view'.on = view.on /\ KnowsOf(p)'
             /\ \A q \in Pokemon : q # p => view'.of[q] = view.of[q]
  <2>1. view.of \in [Pokemon -> Sight]
    BY DEF WatchInv, Sights
  <2>2. /\ view'.of[p] = [view.of[p] EXCEPT !.down = TRUE] /\ view.of[p] \in Sight
        /\ \A q \in Pokemon : q # p => view'.of[q] = view.of[q]
    BY <1>7, <1>9, <2>1
  <2>3. view'.of[p].down = TRUE
    BY <2>2 DEF Sight
  <2>4. KnowsOf(p)'
    BY <1>6, <2>3 DEF KnowsOf
  <2> QED
    BY <1>7, <1>9, <2>2, <2>4
<1>10. \A q \in Pokemon : Suffered(q)' \subseteq Suffered(q)
  BY <1>1 DEF Suffered
<1> QED
  BY <1>1, <1>6, <1>8, <1>9, <1>10, OneTold

LEMMA EntryTold ==
  ASSUME CallsInv, EffectsAssumption, WatchInv, SendOutPokemon,
         view' = IF watching THEN Message ELSE view,
         revealed' = revealed \cup {Head(calls).on}, UNCHANGED watching
  PROVE  WatchInv'
<1> DEFINE c == Head(calls)
<1>1. c.op = "sendOut" /\ calls # <<>> /\ UNCHANGED <<hp, fainted, effects>>
  BY DEF SendOutPokemon, First, held, body
<1>2. c.on \in Pokemon
  BY <1>1, Begins, CallFields
<1> PICK p \in Pokemon : p = c.on
  BY <1>2
<1>3. active' = [active EXCEPT ![PartyOf[p]] = p] /\ revealed' = revealed \cup {p}
  BY DEF SendOutPokemon
<1>4. Message = SentOut(p)
  BY <1>1 DEF Message
<1>5. active \in [{0, 1} -> Pokemon] /\ PartyOf \in [Pokemon -> {0, 1}]
  <2>1. PartyOf \in [Pokemon -> {0, 1}]
    BY Zenon DEF EffectsAssumption
  <2> QED
    BY <2>1, ListsAre
<1> HIDE DEF c
<1>6. /\ view \in Sights /\ SentOut(p) \in Sights /\ SentOut(p).of = view.of
      /\ SentOut(p).on = [view.on EXCEPT ![PartyOf[p]] = p]
  BY SentOutSays DEF WatchInv
<1>7. revealed' \subseteq Pokemon /\ \A q \in Pokemon : OnField(q)' => q \in revealed'
  <2> SUFFICES ASSUME NEW q \in Pokemon, OnField(q)' PROVE q \in revealed'
    BY <1>3 DEF WatchInv
  <2>1. active'[PartyOf[q]] = q
    BY DEF OnField
  <2>2. q = p \/ active[PartyOf[q]] = q
    BY <1>3, <1>5, <2>1
  <2> QED
    BY <1>3, <2>2 DEF WatchInv, OnField
<1>8. Untouched'
  BY <1>1, <1>3 DEF WatchInv, Untouched, Suffered
<1>9. view' \in Sights
  BY <1>4, <1>6
<1>10. ASSUME watching PROVE view'.on = active' /\ \A q \in Pokemon : KnowsOf(q)'
  <2>1. view' = SentOut(p) /\ view.on = active
    BY <1>4, <1>10 DEF WatchInv
  <2>2. view'.on = active' /\ view'.of = view.of
    BY <1>3, <1>6, <2>1
  <2>3. \A q \in Pokemon : KnowsOf(q)'
    BY <1>1, <1>10, <2>2 DEF WatchInv, KnowsOf, Suffered
  <2> QED
    BY <2>2, <2>3
<1> QED
  BY <1>7, <1>8, <1>9, <1>10 DEF WatchInv

(* A change of what p suffers, if he is on the field or loses a status.    *)
LEMMA ChangeTold ==
  ASSUME CallsInv, EffectsAssumption, WatchInv, NEW p \in Pokemon, NEW new,
         effects' = [effects EXCEPT ![p] = new],
         OnField(p) \/ StatusesOf(Living(new)) \subseteq Suffered(p),
         view' = IF watching THEN Changed(p, new) ELSE view,
         UNCHANGED <<hp, fainted, active, revealed, watching>>
  PROVE  WatchInv'
<1>1. \A q \in Pokemon : effects'[q] = IF q = p THEN new ELSE effects[q]
  BY ListsAre
<1>2. Suffered(p)' = StatusesOf(Living(new)) /\ \A q \in Pokemon : q # p => Suffered(q)' = Suffered(q)
  BY <1>1 DEF Suffered
<1>3. /\ view \in Sights
      /\ Changed(p, new) \in Sights /\ Changed(p, new).on = view.on
      /\ \E status \in SUBSET Statuses :
           /\ Changed(p, new).of = [view.of EXCEPT ![p] = [@ EXCEPT !.status = status]]
           /\ Suffered(p) \subseteq view.of[p].status => StatusesOf(Living(new)) \subseteq status
  BY ChangedSays DEF WatchInv
<1>4. view' \in Sights
  BY <1>3
<1>5. ASSUME watching
      PROVE  /\ view'.on = view.on /\ KnowsOf(p)'
             /\ \A q \in Pokemon : q # p => view'.of[q] = view.of[q]
  <2>1. view.of \in [Pokemon -> Sight] /\ KnowsOf(p)
    BY <1>5 DEF WatchInv, Sights
  <2>2. PICK status \in SUBSET Statuses :
           /\ view'.of = [view.of EXCEPT ![p] = [@ EXCEPT !.status = status]]
           /\ Suffered(p) \subseteq view.of[p].status => StatusesOf(Living(new)) \subseteq status
    BY <1>3, <1>5
  <2>3. /\ view'.of[p] = [view.of[p] EXCEPT !.status = status] /\ view.of[p] \in Sight
        /\ \A q \in Pokemon : q # p => view'.of[q] = view.of[q]
    BY <2>1, <2>2
  <2>4. /\ view'.of[p].hp = view.of[p].hp /\ view'.of[p].down = view.of[p].down
        /\ view'.of[p].status = status
    BY <2>3 DEF Sight
  <2>5. KnowsOf(p)'
    BY <1>2, <2>1, <2>2, <2>4 DEF KnowsOf
  <2> QED
    BY <1>3, <1>5, <2>3, <2>5
<1>6. CASE OnField(p)
  BY <1>2, <1>4, <1>5, <1>6, OneTold
<1>7. CASE ~OnField(p)
  <2>1. revealed' \subseteq Pokemon /\ \A q \in Pokemon : OnField(q)' => q \in revealed'
    BY DEF WatchInv, OnField
  <2>2. \A q \in Pokemon : Suffered(q)' \subseteq Suffered(q)
    BY <1>2, <1>7
  <2>3. Untouched'
    BY <2>2 DEF WatchInv, Untouched
  <2>4. ASSUME watching, NEW q \in Pokemon, q # p PROVE KnowsOf(q)'
    BY <1>2, <1>5, <2>4 DEF KnowsOf, WatchInv
  <2>5. watching => view'.on = active'
    BY <1>5 DEF WatchInv
  <2> QED
    BY <1>4, <1>5, <2>1, <2>3, <2>4, <2>5 DEF WatchInv
<1> QED
  BY <1>6, <1>7

LEMMA CallTold ==
  ASSUME CallsInv, EffectsAssumption, WatchInv, Call, hp' \in [Pokemon -> Int],
         view' = IF watching THEN Message ELSE view, UNCHANGED watching,
         revealed' = IF First("sendOut") THEN revealed \cup {Head(calls).on} ELSE revealed
  PROVE  WatchInv'
<1> DEFINE c == Head(calls)
<1>1. calls # <<>> /\ (First("sendOut") <=> c.op = "sendOut")
  BY CallFrame DEF First
<1>2. CASE c.op = "setHp"
  BY <1>1, <1>2, CallIs, HealthTold
<1>3. CASE c.op = "faint"
  BY <1>1, <1>3, CallIs, FaintTold
<1>4. CASE c.op = "sendOut"
  BY <1>1, <1>4, CallIs, EntryTold
<1>5. CASE c.op \in {"applyStatus", "switchOut"}
  <2>1. /\ UNCHANGED <<hp, fainted, active, revealed, watching>>
        /\ view' = IF watching THEN Changed(c.on, effects'[c.on]) ELSE view
    BY <1>1, <1>5, CallFrame, HpAlone DEF Message
  <2>2. c.on \in Pokemon /\ OnField(c.on)
    BY <1>1, <1>5, Begins, CallFields DEF Placed
  <2>3. UNCHANGED effects \/ \E new : effects' = [effects EXCEPT ![c.on] = new]
    <3>1. CASE c.op = "applyStatus"
      BY <3>1, CallIs DEF ApplyStatus
    <3>2. CASE c.op = "switchOut"
      BY <3>2, CallIs DEF SwitchOutPokemon
    <3> QED
      BY <1>5, <3>1, <3>2
  <2> PICK p \in Pokemon : p = c.on /\ OnField(p)
    BY <2>2
  <2>4. UNCHANGED effects \/ \E new : effects' = [effects EXCEPT ![p] = new]
    BY <2>3
  <2>5. view' = IF watching THEN Changed(p, effects'[p]) ELSE view
    BY <2>1
  <2> HIDE DEF c
  <2>6. effects' = [effects EXCEPT ![p] = effects'[p]]
    BY <2>4, ListsAre
  <2> QED
    BY <2>1, <2>5, <2>6, ChangeTold
<1>6. CASE c.op \notin {"setHp", "faint", "sendOut", "applyStatus", "switchOut"}
  <2>1. UNCHANGED <<hp, fainted, active, revealed, watching>>
    BY <1>1, <1>6, CallFrame, HpAlone
  <2>2. Message = view
    BY <1>6 DEF Message
  <2>3. \A q \in Pokemon : Suffered(q)' \subseteq Suffered(q)
    BY <1>6, StatusesShrink
  <2> QED
    BY <2>1, <2>2, <2>3, NothingTold
<1> QED
  BY <1>2, <1>3, <1>4, <1>5, <1>6

LEMMA TickTold ==
  ASSUME CallsInv, EffectsAssumption, WatchInv, Tick,
         view' = IF watching THEN TickMessage ELSE view, UNCHANGED <<revealed, watching>>
  PROVE  WatchInv'
<1>1. UNCHANGED <<hp, fainted, active>>
  BY DEF Tick, body
<1>2. PICK t \in ticks :
        /\ ticks' = ticks \ {t}
        /\ \/ UNCHANGED effects
           \/ \E i : effects' = [effects EXCEPT ![t.on] = Dispose(@, i)]
  BY DEF Tick
<1>3. t.on \in Pokemon
  BY DEF CallsInv, EffectsTypeOK
<1>4. (CHOOSE u \in ticks : u \notin ticks') = t
  BY <1>2
<1>5. TickMessage = Changed(t.on, effects'[t.on])
  BY <1>4 DEF TickMessage
<1> DEFINE p == t.on
<1>6. effects[p] \in Seq(Effect) /\ effects \in [Pokemon -> Seq(Effect)]
  BY <1>3, ListsAre
<1> HIDE DEF p
<1>7. /\ effects' = [effects EXCEPT ![p] = effects'[p]]
      /\ StatusesOf(Living(effects'[p])) \subseteq Suffered(p)
  <2>1. CASE UNCHANGED effects
    BY <1>6, <2>1 DEF Suffered
  <2>2. CASE \E i : effects' = [effects EXCEPT ![p] = Dispose(@, i)]
    <3>1. PICK i : effects' = [effects EXCEPT ![p] = Dispose(@, i)]
      BY <2>2
    <3>2. effects'[p] = Dispose(effects[p], i)
      BY <1>3, <1>6, <3>1 DEF p
    <3>3. StatusesOf(Living(Dispose(effects[p], i))) \subseteq Suffered(p)
      BY <1>6, DisposeShrinks DEF Suffered
    <3> QED
      BY <3>1, <3>2, <3>3
  <2> QED
    BY <1>2, <2>1, <2>2 DEF p
<1> QED
  BY <1>1, <1>3, <1>5, <1>7, ChangeTold DEF p

LEMMA RestTold ==
  ASSUME CallsInv, EffectsAssumption, WatchInv,
         \/ \E p \in Pokemon : Act(p) \/ Replace(p)
         \/ BeginTick \/ EndTick \/ NextTurn,
         UNCHANGED <<view, revealed, watching>>
  PROVE  WatchInv'
<1>1. UNCHANGED <<hp, fainted, active>>
  BY TurnCalls DEF body
<1>2. ASSUME NEW q \in Pokemon PROVE Suffered(q)' \subseteq Suffered(q)
  <2>1. CASE EndTick
    <3>1. effects'[q] \in {Unremoved(effects[q]), effects[q]}
      BY <2>1 DEF EndTick
    <3>2. effects[q] \in Seq(Effect)
      BY ListsAre
    <3>3. ToSet(Unremoved(effects[q])) = Living(effects[q])
      BY <3>2, UnremovedTyped
    <3>4. Living(Unremoved(effects[q])) = Living(effects[q])
      BY <3>3 DEF Living
    <3>5. Living(effects'[q]) = Living(effects[q])
      BY <3>1, <3>4
    <3> QED
      BY <3>5 DEF Suffered
  <2>2. CASE ~EndTick
    <3>1. UNCHANGED effects
      BY <2>2 DEF Act, Replace, BeginTick, NextTurn, held
    <3> QED
      BY <3>1 DEF Suffered
  <2> QED
    BY <2>1, <2>2
<1> QED
  BY <1>1, <1>2, NothingTold

LEMMA SnapshotShows ==
  ASSUME CallsInv, WatchInv, Watch
  PROVE  WatchInv'
<1>1. /\ UNCHANGED <<hp, fainted, active, effects, revealed>>
      /\ view' = Snapshot
  BY DEF Watch, vars
<1>2. /\ hp \in [Pokemon -> Int] /\ fainted \in [Pokemon -> BOOLEAN]
      /\ active \in [{0, 1} -> Pokemon] /\ effects \in [Pokemon -> Seq(Effect)]
  BY DEF CallsInv, EffectsTypeOK
<1>3. view'.on = active
  BY <1>1 DEF Snapshot
<1>4. ASSUME NEW p \in Pokemon
      PROVE  view'.of[p] = IF p \in revealed
                           THEN [hp |-> hp[p], down |-> fainted[p],
                                 status |-> IF fainted[p] THEN {} ELSE Listed(p)]
                           ELSE Unknown
  BY <1>1, <1>4 DEF Snapshot
<1>5. ASSUME NEW p \in Pokemon PROVE view'.of[p] \in Sight /\ KnowsOf(p)'
  <2>1. CASE p \in revealed
    <3>1. /\ view'.of[p].hp = hp[p] /\ view'.of[p].down = fainted[p]
          /\ ~fainted[p] => view'.of[p].status = Listed(p)
          /\ view'.of[p] \in Sight
      <4> DEFINE s == IF fainted[p] THEN {} ELSE Listed(p)
      <4>1. view'.of[p] = [hp |-> hp[p], down |-> fainted[p], status |-> s]
        BY <1>4, <2>1
      <4>2. s \in SUBSET Statuses /\ (~fainted[p] => s = Listed(p))
        BY DEF Listed, StatusesOf
      <4>3. hp[p] \in Int /\ fainted[p] \in BOOLEAN
        BY <1>2
      <4> HIDE DEF s
      <4> QED
        BY <4>1, <4>2, <4>3 DEF Sight
    <3>2. Suffered(p) \subseteq Listed(p)
      BY DEF Suffered, Listed, StatusesOf, Living
    <3> QED
      BY <1>1, <3>1, <3>2 DEF KnowsOf, Suffered
  <2>2. CASE p \notin revealed
    <3>1. hp[p] = MaxHp /\ ~fainted[p] /\ Suffered(p) = {}
      BY <2>2 DEF WatchInv, Untouched
    <3>2. view'.of[p] = [hp |-> MaxHp, down |-> FALSE, status |-> {}]
      BY <1>4, <2>2 DEF Unknown
    <3>3. hp[p] \in Int
      BY <1>2
    <3>4. view'.of[p] \in Sight
      BY <3>1, <3>2, <3>3 DEF Sight
    <3>5. Suffered(p)' = {} /\ ~fainted'[p] /\ hp'[p] = MaxHp
      BY <1>1, <3>1 DEF Suffered
    <3>6. view'.of[p].down = FALSE /\ view'.of[p].hp = MaxHp
      BY <3>2
    <3>7. fainted'[p] = FALSE
      BY <1>1, <1>2, <3>5
    <3> QED
      BY <3>4, <3>5, <3>6, <3>7 DEF KnowsOf
  <2> QED
    BY <2>1, <2>2
<1>6. view' \in Sights
  <2>1. view'.of \in [Pokemon -> Sight]
    <3>1. view'.of = [p \in Pokemon |-> view'.of[p]]
      BY <1>1 DEF Snapshot
    <3> QED
      BY <1>5, <3>1
  <2>2. view' = [on |-> active, of |-> view'.of]
    BY <1>1 DEF Snapshot
  <2> QED
    BY <1>2, <2>1, <2>2 DEF Sights
<1>7. revealed' \subseteq Pokemon /\ \A p \in Pokemon : OnField(p)' => p \in revealed'
  BY <1>1 DEF WatchInv, OnField
<1>8. Untouched'
  BY <1>1 DEF WatchInv, Untouched, Suffered
<1> QED
  BY <1>1, <1>3, <1>5, <1>6, <1>7, <1>8 DEF WatchInv

LEMMA InitWatch ==
  ASSUME EffectsAssumption, WatchInit
  PROVE  WatchInv
<1>1. EffectsTypeOK /\ \A p \in Pokemon : Sane(effects[p], ability[p], item[p])
  BY InitTyped, StartLists DEF WatchInit
<1>2. /\ hp = [p \in Pokemon |-> MaxHp] /\ fainted = [p \in Pokemon |-> FALSE]
      /\ hp \in [Pokemon -> Int] /\ active \in [{0, 1} -> Pokemon]
      /\ revealed = {active[0], active[1]} /\ ~watching
      /\ view = [on |-> active, of |-> [p \in Pokemon |-> Unknown]]
  BY <1>1 DEF WatchInit, Init, EffectsTypeOK
<1>3. ASSUME NEW p \in Pokemon PROVE Unknown \in Sight
  <2>1. hp[p] = MaxHp /\ hp[p] \in Int
    BY <1>2
  <2>2. MaxHp \in Int
    BY <2>1
  <2> QED
    BY <2>2 DEF Unknown, Sight
<1>4. view \in Sights
  BY <1>2, <1>3 DEF Sights
<1>5. PartyOf \in [Pokemon -> {0, 1}]
  BY Zenon DEF EffectsAssumption
<1>6. revealed \subseteq Pokemon /\ \A p \in Pokemon : OnField(p) => p \in revealed
  BY <1>2, <1>5 DEF OnField
<1>7. ASSUME NEW p \in Pokemon PROVE Suffered(p) = {}
  <2>1. \A x \in Living(effects[p]) : x.kind \notin Statuses
    BY StartLists, KindsApart DEF WatchInit
  <2> QED
    BY <2>1 DEF Suffered, StatusesOf
<1> QED
  BY <1>2, <1>4, <1>6, <1>7 DEF WatchInv, Untouched

LEMMA WatchKept ==
  ASSUME CallsInv, EffectsAssumption, WatchInv, [WatchNext]_<<vars, viewVars>>
  PROVE  WatchInv'
<1>1. CASE UNCHANGED <<vars, viewVars>>
  <2>1. /\ UNCHANGED <<view, active, revealed, watching, hp, fainted, effects>>
    BY <1>1 DEF vars, viewVars
  <2> QED
    BY <2>1, NothingTold DEF Suffered
<1>2. CASE Battle
  <2>1. CASE /\ Call
             /\ view' = IF watching THEN Message ELSE view
             /\ revealed' = IF First("sendOut") THEN revealed \cup {Head(calls).on}
                            ELSE revealed
    <3>1. Next
      BY <2>1 DEF Next
    <3>2. hp' \in [Pokemon -> Int]
      <4>1. EffectsTypeOK'
        BY <3>1, TypesKept DEF CallsInv
      <4> QED
        BY <4>1 DEF EffectsTypeOK
    <3>3. UNCHANGED watching
      BY <1>2 DEF Battle
    <3> QED
      BY <2>1, <3>2, <3>3, CallTold
  <2>2. CASE /\ Tick
             /\ view' = IF watching THEN TickMessage ELSE view
             /\ UNCHANGED revealed
    <3>1. UNCHANGED watching
      BY <1>2 DEF Battle
    <3> QED
      BY <2>2, <3>1, TickTold
  <2>3. CASE /\ (\E p \in Pokemon : Act(p) \/ Replace(p)) \/ BeginTick \/ EndTick \/ NextTurn
             /\ UNCHANGED <<view, revealed>>
    <3>1. UNCHANGED watching
      BY <1>2 DEF Battle
    <3> QED
      BY <2>3, <3>1, RestTold
  <2> QED
    BY <1>2, <2>1, <2>2, <2>3 DEF Battle
<1>3. CASE Watch
  BY <1>3, SnapshotShows
<1> QED
  BY <1>1, <1>2, <1>3 DEF WatchNext

(* A battle that is watched is a battle: what holds of every battle holds  *)
(* while somebody watches (the broadcasts of NetworkBattle change nothing  *)
(* of the field).                                                          *)
THEOREM WatchedIsBattle == WatchSpec => Spec
<1>1. WatchInit => Init
  BY DEF WatchInit
<1>2. [WatchNext]_<<vars, viewVars>> => [Next]_vars
  BY DEF WatchNext, Battle, Watch, Next, viewVars
<1> QED
  BY <1>1, <1>2, PTL DEF WatchSpec, Spec

(* Whenever a spectator joins, he knows from then on who is in the slots,  *)
(* who fainted, the health of the others and every status they have, for   *)
(* every number of pokemon: the snapshot and the messages miss nothing     *)
(* (BattleChannel::join, prepareSpectator, and the inform... functions of  *)
(* NetworkBattle).                                                         *)
THEOREM SpectatorSeesHolds == WatchSpec => []SpectatorSees
<1>1. WatchInit => WatchInv
  BY EffectsAssumption, InitWatch
<1>2. CallsInv /\ WatchInv /\ [WatchNext]_<<vars, viewVars>> => WatchInv'
  BY EffectsAssumption, WatchKept
<1>3. WatchInv => SpectatorSees
  BY DEF WatchInv, KnowsOf, Suffered, SpectatorSees
<1> QED
  BY <1>1, <1>2, <1>3, WatchedIsBattle, CallsInvariant, PTL DEF WatchSpec
-----------------------------------------------------------------------------
(* The order of turns (TurnOrder).  An element of the vector; that one is  *)
(* not ranked before another, and that the comparator says no to a pair    *)
(* and will say no again, by the rules r of the turn and what the map      *)
(* remembers.                                                              *)
Entity == [pokemon : Parties \X Nat, move : BOOLEAN, priority : Int, inherent : Int, speed : Int]
Rules == <<descendingSpeed, host>>
RankBy(r, e) ==
    IF e.move
    THEN <<1, -e.priority, -e.inherent, IF r[1] THEN -e.speed ELSE e.speed>>
    ELSE <<0, IF e.pokemon[1] = r[2] THEN 0 ELSE 1, e.pokemon[2], 0>>
NotBefore(r, a, b) ==
    ~\E k \in 1 .. 4 : /\ RankBy(r, a)[k] < RankBy(r, b)[k]
                       /\ \A j \in 1 .. k - 1 : RankBy(r, a)[j] = RankBy(r, b)[j]

(* What the comparator says of certain pairs, and where it flips a coin.   *)
SwitchFirst(r, a, b) ==
    IF a.pokemon[1] = b.pokemon[1] THEN a.pokemon[2] < b.pokemon[2] ELSE a.pokemon[1] = r[2]
FasterBy(r, a, b) == IF r[1] THEN a.speed > b.speed ELSE a.speed < b.speed
Says(r, a, b) ==
    IF a.move # b.move THEN ~a.move
    ELSE IF ~a.move THEN SwitchFirst(r, a, b)
    ELSE IF a.priority # b.priority THEN a.priority > b.priority
    ELSE IF a.inherent # b.inherent THEN a.inherent > b.inherent
    ELSE FasterBy(r, a, b)
Tied(a, b) ==
    a.move = b.move /\ a.move /\ a.priority = b.priority /\ a.inherent = b.inherent
    /\ a.speed = b.speed
Refused(r, map, a, b) ==
    IF Tied(a, b)
    THEN <<a.pokemon, b.pokemon>> \in DOMAIN map /\ ~map[<<a.pokemon, b.pokemon>>]
    ELSE ~Says(r, a, b)

(* The vector from 1 to n is in order.                                     *)
InOrderTo(r, s, n) == \A i, j \in 1 .. n : i < j => NotBefore(r, s[j], s[i])
Listing(s) == {s[k] : k \in 1 .. Len(s)}
Outside(s, h) == {s[k] : k \in (1 .. Len(s)) \ {h}}

SortTypes ==
    /\ entities \in Seq(Entity) /\ given \in Seq(Entity) /\ Len(entities) = Len(given)
    /\ host \in Parties /\ descendingSpeed \in BOOLEAN
    /\ next \in Nat /\ next >= 2
Between ==
    hole = 0 => /\ Listing(entities) = Listing(given)
                /\ InOrderTo(Rules, entities, IF Sorting THEN next - 1 ELSE Len(entities))
Inserting ==
    hole # 0 =>
        /\ hole \in 2 .. next /\ next <= Len(entities) /\ value \in Entity
        /\ Outside(entities, hole) \cup {value} = Listing(given)
        /\ \A i, j \in (1 .. next) \ {hole} : i < j => NotBefore(Rules, entities[j], entities[i])
        /\ \A k \in hole + 1 .. next : NotBefore(Rules, entities[k], value)
        /\ Refused(Rules, copied, value, entities[1])
SortInv == SortTypes /\ Between /\ Inserting

(* The rank is compared number by number.                                  *)
LEMMA RankType ==
  ASSUME NEW rules, NEW e \in Entity
  PROVE  RankBy(rules, e) \in Int \X Int \X Int \X Int
BY DEF Entity, RankBy, Parties

LEMMA PrecedesIs ==
  ASSUME NEW rules, NEW a, NEW b
  PROVE  ~NotBefore(rules, a, b) <=>
            (\/ RankBy(rules, a)[1] < RankBy(rules, b)[1]
             \/ /\ RankBy(rules, a)[1] = RankBy(rules, b)[1]
                /\ \/ RankBy(rules, a)[2] < RankBy(rules, b)[2]
                   \/ /\ RankBy(rules, a)[2] = RankBy(rules, b)[2]
                      /\ \/ RankBy(rules, a)[3] < RankBy(rules, b)[3]
                         \/ RankBy(rules, a)[3] = RankBy(rules, b)[3] /\ RankBy(rules, a)[4] < RankBy(rules, b)[4])
<1> DEFINE r == RankBy(rules, a)
           s == RankBy(rules, b)
<1> HIDE DEF r, s
<1>1. ASSUME NEW k \in 1 .. 4, r[k] < s[k], \A j \in 1 .. k - 1 : r[j] = s[j]
      PROVE  \/ r[1] < s[1]
             \/ r[1] = s[1] /\ (r[2] < s[2] \/ (r[2] = s[2] /\ (r[3] < s[3] \/ (r[3] = s[3] /\ r[4] < s[4]))))
  <2>1. k = 1 \/ k = 2 \/ k = 3 \/ k = 4
    OBVIOUS
  <2>2. CASE k = 1
    BY <1>1, <2>2
  <2>3. CASE k = 2
    BY <1>1, <2>3
  <2>4. CASE k = 3
    BY <1>1, <2>4
  <2>5. CASE k = 4
    BY <1>1, <2>5
  <2> QED
    BY <2>1, <2>2, <2>3, <2>4, <2>5
<1>2. ~NotBefore(rules, a, b) <=> \E k \in 1 .. 4 : r[k] < s[k] /\ \A j \in 1 .. k - 1 : r[j] = s[j]
  BY DEF NotBefore, r, s
<1> DEFINE P(k) == r[k] < s[k] /\ \A j \in 1 .. k - 1 : r[j] = s[j]
<1>3. r[1] < s[1] => P(1)
  OBVIOUS
<1>4. r[1] = s[1] /\ r[2] < s[2] => P(2)
  OBVIOUS
<1>5. r[1] = s[1] /\ r[2] = s[2] /\ r[3] < s[3] => P(3)
  <2> SUFFICES ASSUME r[1] = s[1], r[2] = s[2], r[3] < s[3], NEW j \in 1 .. 2
               PROVE  r[j] = s[j]
    OBVIOUS
  <2>1. j = 1 \/ j = 2
    OBVIOUS
  <2> QED
    BY <2>1
<1>6. r[1] = s[1] /\ r[2] = s[2] /\ r[3] = s[3] /\ r[4] < s[4] => P(4)
  <2> SUFFICES ASSUME r[1] = s[1], r[2] = s[2], r[3] = s[3], r[4] < s[4], NEW j \in 1 .. 3
               PROVE  r[j] = s[j]
    OBVIOUS
  <2>1. j = 1 \/ j = 2 \/ j = 3
    OBVIOUS
  <2> QED
    BY <2>1
<1>7. (\E k \in 1 .. 4 : P(k)) <=> ~NotBefore(rules, a, b)
  BY <1>2
<1> HIDE DEF P
<1>8. 1 \in 1 .. 4 /\ 2 \in 1 .. 4 /\ 3 \in 1 .. 4 /\ 4 \in 1 .. 4
  OBVIOUS
<1>9. P(1) \/ P(2) \/ P(3) \/ P(4) => ~NotBefore(rules, a, b)
  BY <1>7, <1>8
<1>10. ~NotBefore(rules, a, b) =>
            \/ r[1] < s[1]
            \/ r[1] = s[1] /\ (r[2] < s[2] \/ (r[2] = s[2] /\ (r[3] < s[3] \/ (r[3] = s[3] /\ r[4] < s[4]))))
  BY <1>1, <1>2
<1>11. (\/ r[1] < s[1]
        \/ r[1] = s[1] /\ (r[2] < s[2] \/ (r[2] = s[2] /\ (r[3] < s[3] \/ (r[3] = s[3] /\ r[4] < s[4])))))
       => P(1) \/ P(2) \/ P(3) \/ P(4)
  BY <1>3, <1>4, <1>5, <1>6
<1> QED
  BY <1>9, <1>10, <1>11 DEF r, s

(* What does not come before is not ranked before: that is transitive,     *)
(* although the answers of the comparator are not.                         *)
LEMMA NotBeforeTransitive ==
  ASSUME NEW a \in Entity, NEW b \in Entity, NEW c \in Entity, NEW rules,
         NotBefore(rules, a, b), NotBefore(rules, b, c)
  PROVE  NotBefore(rules, a, c)
<1> DEFINE r == RankBy(rules, a)
           s == RankBy(rules, b)
           t == RankBy(rules, c)
<1>1. r \in Int \X Int \X Int \X Int /\ s \in Int \X Int \X Int \X Int /\ t \in Int \X Int \X Int \X Int
  BY RankType
<1>2. /\ ~(\/ r[1] < s[1]
           \/ r[1] = s[1] /\ (r[2] < s[2] \/ (r[2] = s[2] /\ (r[3] < s[3] \/ (r[3] = s[3] /\ r[4] < s[4])))))
      /\ ~(\/ s[1] < t[1]
           \/ s[1] = t[1] /\ (s[2] < t[2] \/ (s[2] = t[2] /\ (s[3] < t[3] \/ (s[3] = t[3] /\ s[4] < t[4])))))
  BY PrecedesIs
<1>3. ~NotBefore(rules, a, c) <=>
           (\/ r[1] < t[1]
            \/ r[1] = t[1] /\ (r[2] < t[2] \/ (r[2] = t[2] /\ (r[3] < t[3] \/ (r[3] = t[3] /\ r[4] < t[4])))))
  BY PrecedesIs
<1> HIDE DEF r, s, t
<1>4. \A k \in 1 .. 4 : r[k] \in Int /\ s[k] \in Int /\ t[k] \in Int
  BY <1>1
<1>5. /\ r[1] \in Int /\ s[1] \in Int /\ t[1] \in Int /\ r[2] \in Int /\ s[2] \in Int /\ t[2] \in Int
      /\ r[3] \in Int /\ s[3] \in Int /\ t[3] \in Int /\ r[4] \in Int /\ s[4] \in Int /\ t[4] \in Int
  BY <1>4
<1> QED
  BY <1>2, <1>3, <1>5

(* The comparator flips a coin for those who are tied, and says what the   *)
(* rules say of others.                                                    *)
LEMMA CompareIs ==
  ASSUME NEW map, NEW a, NEW b
  PROVE  Compare(map, a, b) = IF Tied(a, b) THEN Flip(map, a, b)
                              ELSE {[yes |-> Says(Rules, a, b), map |-> map]}
BY Zenon DEF Compare, Says, SwitchFirst, Tied, FasterBy, Faster, Rules

LEMMA CertainOrTied ==
  ASSUME NEW map, NEW a, NEW b, NEW answer \in Compare(map, a, b)
  PROVE  \/ Tied(a, b)
         \/ ~Tied(a, b) /\ answer.yes = Says(Rules, a, b) /\ answer.map = map
<1>1. CASE ~Tied(a, b)
  <2>1. answer = [yes |-> Says(Rules, a, b), map |-> map]
    BY <1>1, CompareIs
  <2> QED
    BY <1>1, <2>1
<1> QED
  BY <1>1

(* A comparison that says yes does not contradict the ranks, and one that  *)
(* says no does not either.                                                *)
LEMMA YesIsInOrder ==
  ASSUME NEW a \in Entity, NEW b \in Entity, host \in Parties, descendingSpeed \in BOOLEAN,
         NEW map, NEW answer \in Compare(map, a, b), answer.yes
  PROVE  NotBefore(Rules, b, a)
<1>1. /\ a.move \in BOOLEAN /\ b.move \in BOOLEAN
      /\ a.pokemon \in Parties \X Nat /\ b.pokemon \in Parties \X Nat
      /\ a.priority \in Int /\ b.priority \in Int /\ a.inherent \in Int /\ b.inherent \in Int
      /\ a.speed \in Int /\ b.speed \in Int
  BY DEF Entity
<1>2. ~NotBefore(Rules, b, a) <=>
            (\/ RankBy(Rules, b)[1] < RankBy(Rules, a)[1]
             \/ /\ RankBy(Rules, b)[1] = RankBy(Rules, a)[1]
                /\ \/ RankBy(Rules, b)[2] < RankBy(Rules, a)[2]
                   \/ /\ RankBy(Rules, b)[2] = RankBy(Rules, a)[2]
                      /\ \/ RankBy(Rules, b)[3] < RankBy(Rules, a)[3]
                         \/ RankBy(Rules, b)[3] = RankBy(Rules, a)[3] /\ RankBy(Rules, b)[4] < RankBy(Rules, a)[4])
  BY PrecedesIs
<1>3. Tied(a, b) \/ Says(Rules, a, b)
  BY CertainOrTied
<1>4. CASE a.move # b.move
  <2>1. ~a.move /\ b.move
    BY <1>1, <1>3, <1>4 DEF Says, Tied
  <2> QED
    BY <1>2, <2>1 DEF RankBy
<1>5. CASE a.move = b.move /\ ~a.move
  <2>1. SwitchFirst(Rules, a, b)
    BY <1>3, <1>5 DEF Says, Tied
  <2>2. RankBy(Rules, b)[1] = 0 /\ RankBy(Rules, a)[1] = 0 /\ RankBy(Rules, b)[4] = 0 /\ RankBy(Rules, a)[4] = 0
    BY <1>5 DEF RankBy, Rules
  <2>3. /\ RankBy(Rules, a)[2] = (IF a.pokemon[1] = host THEN 0 ELSE 1) /\ RankBy(Rules, a)[3] = a.pokemon[2]
        /\ RankBy(Rules, b)[2] = (IF b.pokemon[1] = host THEN 0 ELSE 1) /\ RankBy(Rules, b)[3] = b.pokemon[2]
    BY <1>5 DEF RankBy, Rules
  <2>4. a.pokemon[2] \in Nat /\ b.pokemon[2] \in Nat /\ a.pokemon[1] \in {0, 1} /\ b.pokemon[1] \in {0, 1}
        /\ host \in {0, 1}
    BY <1>1 DEF Parties
  <2> QED
    BY <1>2, <2>1, <2>2, <2>3, <2>4 DEF SwitchFirst, Rules
<1>6. CASE a.move = b.move /\ a.move
  <2>1. Tied(a, b) \/ (IF a.priority # b.priority THEN a.priority > b.priority
                       ELSE IF a.inherent # b.inherent THEN a.inherent > b.inherent ELSE FasterBy(Rules, a, b))
    BY <1>3, <1>6 DEF Says
  <2>2. /\ RankBy(Rules, a)[1] = 1 /\ RankBy(Rules, a)[2] = -a.priority /\ RankBy(Rules, a)[3] = -a.inherent
        /\ RankBy(Rules, a)[4] = (IF descendingSpeed THEN -a.speed ELSE a.speed)
    BY <1>6 DEF RankBy, Rules
  <2>3. /\ RankBy(Rules, b)[1] = 1 /\ RankBy(Rules, b)[2] = -b.priority /\ RankBy(Rules, b)[3] = -b.inherent
        /\ RankBy(Rules, b)[4] = (IF descendingSpeed THEN -b.speed ELSE b.speed)
    BY <1>6 DEF RankBy, Rules
  <2>4. FasterBy(Rules, a, b) <=> IF descendingSpeed THEN a.speed > b.speed ELSE a.speed < b.speed
    BY DEF FasterBy, Rules
  <2>5. Tied(a, b) => a.priority = b.priority /\ a.inherent = b.inherent /\ a.speed = b.speed
    BY DEF Tied
  <2> QED
    BY <1>1, <1>2, <2>1, <2>2, <2>3, <2>4, <2>5
<1> QED
  BY <1>1, <1>4, <1>5, <1>6

LEMMA NoIsInOrder ==
  ASSUME NEW a \in Entity, NEW b \in Entity, host \in Parties, descendingSpeed \in BOOLEAN,
         NEW map, NEW answer \in Compare(map, a, b), ~answer.yes
  PROVE  NotBefore(Rules, a, b)
<1>1. /\ a.move \in BOOLEAN /\ b.move \in BOOLEAN
      /\ a.pokemon \in Parties \X Nat /\ b.pokemon \in Parties \X Nat
      /\ a.priority \in Int /\ b.priority \in Int /\ a.inherent \in Int /\ b.inherent \in Int
      /\ a.speed \in Int /\ b.speed \in Int
  BY DEF Entity
<1>2. ~NotBefore(Rules, a, b) <=>
            (\/ RankBy(Rules, a)[1] < RankBy(Rules, b)[1]
             \/ /\ RankBy(Rules, a)[1] = RankBy(Rules, b)[1]
                /\ \/ RankBy(Rules, a)[2] < RankBy(Rules, b)[2]
                   \/ /\ RankBy(Rules, a)[2] = RankBy(Rules, b)[2]
                      /\ \/ RankBy(Rules, a)[3] < RankBy(Rules, b)[3]
                         \/ RankBy(Rules, a)[3] = RankBy(Rules, b)[3] /\ RankBy(Rules, a)[4] < RankBy(Rules, b)[4])
  BY PrecedesIs
<1>3. Tied(a, b) \/ ~Says(Rules, a, b)
  BY CertainOrTied
<1>4. CASE a.move # b.move
  <2>1. a.move /\ ~b.move
    BY <1>1, <1>3, <1>4 DEF Says, Tied
  <2> QED
    BY <1>2, <2>1 DEF RankBy
<1>5. CASE a.move = b.move /\ ~a.move
  <2>1. ~SwitchFirst(Rules, a, b)
    BY <1>3, <1>5 DEF Says, Tied
  <2>2. RankBy(Rules, a)[1] = 0 /\ RankBy(Rules, b)[1] = 0 /\ RankBy(Rules, a)[4] = 0 /\ RankBy(Rules, b)[4] = 0
    BY <1>5 DEF RankBy, Rules
  <2>3. /\ RankBy(Rules, a)[2] = (IF a.pokemon[1] = host THEN 0 ELSE 1) /\ RankBy(Rules, a)[3] = a.pokemon[2]
        /\ RankBy(Rules, b)[2] = (IF b.pokemon[1] = host THEN 0 ELSE 1) /\ RankBy(Rules, b)[3] = b.pokemon[2]
    BY <1>5 DEF RankBy, Rules
  <2>4. a.pokemon[2] \in Nat /\ b.pokemon[2] \in Nat /\ a.pokemon[1] \in {0, 1} /\ b.pokemon[1] \in {0, 1}
        /\ host \in {0, 1}
    BY <1>1 DEF Parties
  <2> QED
    BY <1>2, <2>1, <2>2, <2>3, <2>4 DEF SwitchFirst, Rules
<1>6. CASE a.move = b.move /\ a.move
  <2>1. Tied(a, b) \/ ~(IF a.priority # b.priority THEN a.priority > b.priority
                       ELSE IF a.inherent # b.inherent THEN a.inherent > b.inherent ELSE FasterBy(Rules, a, b))
    BY <1>3, <1>6 DEF Says
  <2>2. /\ RankBy(Rules, a)[1] = 1 /\ RankBy(Rules, a)[2] = -a.priority /\ RankBy(Rules, a)[3] = -a.inherent
        /\ RankBy(Rules, a)[4] = (IF descendingSpeed THEN -a.speed ELSE a.speed)
    BY <1>6 DEF RankBy, Rules
  <2>3. /\ RankBy(Rules, b)[1] = 1 /\ RankBy(Rules, b)[2] = -b.priority /\ RankBy(Rules, b)[3] = -b.inherent
        /\ RankBy(Rules, b)[4] = (IF descendingSpeed THEN -b.speed ELSE b.speed)
    BY <1>6 DEF RankBy, Rules
  <2>4. FasterBy(Rules, a, b) <=> IF descendingSpeed THEN a.speed > b.speed ELSE a.speed < b.speed
    BY DEF FasterBy, Rules
  <2>5. Tied(a, b) => a.priority = b.priority /\ a.inherent = b.inherent /\ a.speed = b.speed
    BY DEF Tied
  <2> QED
    BY <1>1, <1>2, <2>1, <2>2, <2>3, <2>4, <2>5
<1> QED
  BY <1>1, <1>4, <1>5, <1>6

(* A comparison that was refused is refused for good: the map only grows.  *)
LEMMA RefusedIs ==
  ASSUME NEW map, NEW a, NEW b, Refused(Rules, map, a, b), NEW answer \in Compare(map, a, b)
  PROVE  ~answer.yes
<1>1. CASE ~Tied(a, b)
  BY <1>1, CertainOrTied DEF Refused
<1>2. CASE Tied(a, b)
  <2>1. answer = [yes |-> map[<<a.pokemon, b.pokemon>>], map |-> map]
    BY <1>2, CompareIs DEF Flip, Refused
  <2> QED
    BY <1>2, <2>1 DEF Refused
<1> QED
  BY <1>1, <1>2

LEMMA MapGrows ==
  ASSUME NEW map, NEW c, NEW d, NEW answer \in Compare(map, c, d), NEW pair \in DOMAIN map
  PROVE  pair \in DOMAIN answer.map /\ answer.map[pair] = map[pair]
<1> DEFINE other == <<c.pokemon, d.pokemon>>
<1>1. CASE Tied(c, d) /\ other \notin DOMAIN map
  <2>1. PICK v \in BOOLEAN :
            answer = [yes |-> v, map |-> [x \in DOMAIN map \cup {other} |->
                                            IF x = other THEN v ELSE map[x]]]
    BY <1>1, CompareIs DEF Flip
  <2>2. pair # other
    BY <1>1
  <2> QED
    BY <2>1, <2>2
<1>2. CASE Tied(c, d) /\ other \in DOMAIN map
  <2>1. answer = [yes |-> map[other], map |-> map]
    BY <1>2, CompareIs DEF Flip
  <2> QED
    BY <2>1
<1>3. CASE ~Tied(c, d)
  BY <1>3, CertainOrTied
<1> QED
  BY <1>1, <1>2, <1>3

LEMMA RefusalIsKept ==
  ASSUME NEW map, NEW a, NEW b, NEW c, NEW d, Refused(Rules, map, a, b),
         NEW answer \in Compare(map, c, d)
  PROVE  Refused(Rules, answer.map, a, b)
BY MapGrows DEF Refused

(* The first comparison that says no is remembered.                        *)
LEMMA NoIsRefused ==
  ASSUME NEW map, NEW a, NEW b, NEW answer \in Compare(map, a, b), ~answer.yes
  PROVE  Refused(Rules, answer.map, a, b)
<1>1. CASE ~Tied(a, b)
  BY <1>1, CertainOrTied DEF Refused
<1>2. CASE Tied(a, b)
  <2> DEFINE pair == <<a.pokemon, b.pokemon>>
  <2>1. CASE pair \notin DOMAIN map
    <3>1. PICK v \in BOOLEAN :
              answer = [yes |-> v, map |-> [x \in DOMAIN map \cup {pair} |->
                                              IF x = pair THEN v ELSE map[x]]]
      BY <1>2, <2>1, CompareIs DEF Flip
    <3> QED
      BY <1>2, <3>1 DEF Refused
  <2>2. CASE pair \in DOMAIN map
    <3>1. answer = [yes |-> map[pair], map |-> map]
      BY <1>2, <2>2, CompareIs DEF Flip
    <3> QED
      BY <1>2, <2>2, <3>1 DEF Refused
  <2> QED
    BY <2>1, <2>2
<1> QED
  BY <1>1, <1>2

(* The vectors that are sorted.                                            *)
LEMMA ActiveFinite ==
  ASSUME TurnOrderAssumption, NEW living \in SUBSET (Active \cup Team(0) \cup Team(1))
  PROVE  IsFiniteSet(living)
<1>1. IsFiniteSet({0, 1}) /\ IsFiniteSet({0}) /\ IsFiniteSet({1})
  <2>1. IsFiniteSet({0}) /\ IsFiniteSet({1})
    BY FS_Singleton
  <2>2. IsFiniteSet({0} \cup {1})
    BY <2>1, FS_Union
  <2>3. {0, 1} = {0} \cup {1}
    OBVIOUS
  <2> QED
    BY <2>1, <2>2, <2>3
<1>2. IsFiniteSet(1 .. PartySize) /\ IsFiniteSet(1 .. PartySize + Benched)
  BY FS_Interval DEF TurnOrderAssumption
<1>3. IsFiniteSet(Active) /\ IsFiniteSet(Team(0)) /\ IsFiniteSet(Team(1))
  BY <1>1, <1>2, FS_Product DEF Active, Team, Parties
<1>4. IsFiniteSet(Active \cup Team(0) \cup Team(1))
  BY <1>3, FS_Union
<1> QED
  BY <1>4, FS_Subset

LEMMA TurnTypes ==
  ASSUME TurnOrderAssumption, NEW p \in Parties \X Nat
  PROVE  /\ Switching(p) \in Entity
         /\ \A m \in Priorities \cup {0}, n \in Inherent \cup {0}, v \in Speeds :
                Moving(p, m, n, v) \in Entity
<1>1. Switching(p) \in Entity
  BY DEF Switching, Entity
<1>2. ASSUME NEW m \in Priorities \cup {0}, NEW n \in Inherent \cup {0}, NEW v \in Speeds
      PROVE  Moving(p, m, n, v) \in Entity
  <2>1. m \in Int /\ n \in Int /\ v \in Int
    BY DEF TurnOrderAssumption
  <2> QED
    BY <2>1 DEF Moving, Entity
<1> QED
  BY <1>1, <1>2

LEMMA ActiveTypes ==
  ASSUME TurnOrderAssumption
  PROVE  /\ Active \subseteq Parties \X Nat
         /\ \A i \in Parties : Team(i) \subseteq Parties \X Nat
BY DEF TurnOrderAssumption, Active, Team, Parties

LEMMA InitTypes ==
  ASSUME TurnOrderAssumption, OrderInit
  PROVE  entities \in Seq(Entity)
<1>1. ASSUME NEW living \in SUBSET Active, entities \in TurnsOf(living)
      PROVE  entities \in Seq(Entity)
  <2>1. Cardinality(living) \in Nat
    BY ActiveFinite, FS_CardinalityType
  <2> DEFINE T == UNION {{Switching(p)} \cup
                           {Moving(p, m, n, v) : m \in Priorities, n \in Inherent, v \in Speeds} :
                              p \in living}
  <2>2. entities \in [1 .. Cardinality(living) -> T]
    BY <1>1 DEF TurnsOf
  <2>3. T \subseteq Entity
    <3>1. ASSUME NEW p \in living
          PROVE  {Switching(p)} \cup
                 {Moving(p, m, n, v) : m \in Priorities, n \in Inherent, v \in Speeds} \subseteq Entity
      <4>1. p \in Parties \X Nat
        BY ActiveTypes
      <4> QED
        BY <4>1, TurnTypes
    <3>2. ASSUME NEW t \in T
          PROVE  t \in Entity
      <4>1. PICK p \in living :
                t \in {Switching(p)} \cup
                     {Moving(p, m, n, v) : m \in Priorities, n \in Inherent, v \in Speeds}
        BY <3>2
      <4> QED
        BY <3>1, <4>1
    <3> QED
      BY <3>2
  <2> HIDE DEF T
  <2>4. entities \in [1 .. Cardinality(living) -> Entity]
    BY <2>2, <2>3
  <2> QED
    BY <2>1, <2>4, SeqDef
<1>2. ASSUME NEW user \in Active, NEW class \in TargetClasses,
             NEW living \in SUBSET (Active \cup Team(0)), entities \in TargetsOf(class, user, living)
      PROVE  entities \in Seq(Entity)
  <2> DEFINE targets == TargetList(class, user, living)
             T == {Moving(p, 0, 0, v) : p \in targets, v \in Speeds}
  <2>1. targets \subseteq living
    BY DEF TargetList, TargetClasses
  <2>2. targets \subseteq Parties \X Nat
    BY <2>1, ActiveTypes DEF Parties
  <2>3. Cardinality(targets) \in Nat
    BY <2>1, ActiveFinite, FS_CardinalityType
  <2>4. T \subseteq Entity
    BY <2>2, TurnTypes
  <2>5. entities \in [1 .. Cardinality(targets) -> T]
    BY <1>2 DEF TargetsOf
  <2> HIDE DEF T, targets
  <2>6. entities \in [1 .. Cardinality(targets) -> Entity]
    BY <2>4, <2>5
  <2> QED
    BY <2>3, <2>6, SeqDef
<1> QED
  BY <1>1, <1>2 DEF OrderInit

LEMMA InitSort ==
  ASSUME TurnOrderAssumption, OrderInit
  PROVE  SortInv
<1>1. /\ entities \in Seq(Entity) /\ given = entities /\ next = 2 /\ hole = 0 /\ host \in Parties
      /\ descendingSpeed \in BOOLEAN
  BY InitTypes DEF OrderInit
<1>2. \A i, j \in 1 .. 1 : ~(i < j)
  OBVIOUS
<1>3. Len(entities) \in Nat
  BY <1>1
<1>4. ASSUME NEW i \in 1 .. Len(entities), NEW j \in 1 .. Len(entities), ~Sorting
      PROVE  ~(i < j)
  <2>1. ~(2 <= Len(entities))
    BY <1>1, <1>4 DEF Sorting
  <2> QED
    BY <1>3, <2>1
<1>5. InOrderTo(Rules, entities, IF Sorting THEN next - 1 ELSE Len(entities))
  <2>1. CASE Sorting
    BY <1>1, <1>2, <2>1 DEF InOrderTo
  <2>2. CASE ~Sorting
    BY <1>4, <2>2 DEF InOrderTo
  <2> QED
    BY <2>1, <2>2
<1> QED
  BY <1>1, <1>5 DEF SortInv, SortTypes, Between, Inserting

(* One who goes before the first is put in front of the others.            *)
LEMMA FrontIs ==
  ASSUME NEW s \in Seq(Entity), NEW n \in 2 .. Len(s)
  PROVE  /\ MovedToFront(s, n) \in Seq(Entity) /\ Len(MovedToFront(s, n)) = Len(s)
         /\ MovedToFront(s, n)[1] = s[n]
         /\ \A k \in 2 .. n : MovedToFront(s, n)[k] = s[k - 1]
         /\ \A k \in n + 1 .. Len(s) : MovedToFront(s, n)[k] = s[k]
<1> DEFINE f == MovedToFront(s, n)
<1>1. /\ Len(s) \in Nat /\ n \in Nat /\ DOMAIN s = 1 .. Len(s)
      /\ \A k \in 1 .. Len(s) : s[k] \in Entity
  OBVIOUS
<1>2. f = [k \in 1 .. Len(s) |-> IF k = 1 THEN s[n] ELSE IF k <= n THEN s[k - 1] ELSE s[k]]
  BY <1>1 DEF MovedToFront
<1> HIDE DEF f
<1>3. \A k \in 1 .. Len(s) : f[k] \in Entity
  <2> TAKE k \in 1 .. Len(s)
  <2>1. k \in 2 .. n => k - 1 \in 1 .. Len(s)
    BY <1>1
  <2>2. k # 1 /\ k <= n => k \in 2 .. n
    BY <1>1
  <2> QED
    BY <1>1, <1>2, <2>1, <2>2
<1>4. f \in [1 .. Len(s) -> Entity]
  BY <1>2, <1>3
<1>5. f \in Seq(Entity) /\ Len(f) = Len(s)
  BY <1>1, <1>4, SeqDef
<1>6. \A k \in 2 .. n : f[k] = s[k - 1]
  BY <1>1, <1>2
<1>7. f[1] = s[n] /\ \A k \in n + 1 .. Len(s) : f[k] = s[k]
  BY <1>1, <1>2
<1> QED
  BY <1>5, <1>6, <1>7 DEF f

LEMMA FrontLists ==
  ASSUME NEW s \in Seq(Entity), NEW n \in 2 .. Len(s)
  PROVE  Listing(MovedToFront(s, n)) = Listing(s)
<1> DEFINE f == MovedToFront(s, n)
<1>1. /\ Len(f) = Len(s) /\ f[1] = s[n]
      /\ \A k \in 2 .. n : f[k] = s[k - 1]
      /\ \A k \in n + 1 .. Len(s) : f[k] = s[k]
  BY FrontIs
<1>2. Len(s) \in Nat /\ n \in Nat
  OBVIOUS
<1> HIDE DEF f
<1>3. \A k \in 1 .. Len(s) : \E j \in 1 .. Len(s) : f[k] = s[j]
  <2> TAKE k \in 1 .. Len(s)
  <2>1. CASE k = 1
    BY <1>1, <1>2, <2>1
  <2>2. CASE k \in 2 .. n
    BY <1>1, <1>2, <2>2
  <2>3. CASE k \in n + 1 .. Len(s)
    BY <1>1, <1>2, <2>3
  <2> QED
    BY <1>2, <2>1, <2>2, <2>3
<1>4. \A j \in 1 .. Len(s) : \E k \in 1 .. Len(s) : f[k] = s[j]
  <2> TAKE j \in 1 .. Len(s)
  <2>1. CASE j = n
    BY <1>1, <1>2, <2>1
  <2>2. CASE j \in 1 .. n - 1
    <3>1. j + 1 \in 2 .. n /\ (j + 1) - 1 = j /\ j + 1 \in 1 .. Len(s)
      BY <1>2, <2>2
    <3> QED
      BY <1>1, <3>1
  <2>3. CASE j \in n + 1 .. Len(s)
    BY <1>1, <1>2, <2>3
  <2> QED
    BY <1>2, <2>1, <2>2, <2>3
<1>5. Listing(f) = {f[k] : k \in 1 .. Len(s)} /\ Listing(s) = {s[k] : k \in 1 .. Len(s)}
  BY <1>1 DEF Listing
<1>6. Listing(f) \subseteq Listing(s)
  BY <1>3, <1>5
<1>7. Listing(s) \subseteq Listing(f)
  BY <1>4, <1>5
<1> QED
  BY <1>6, <1>7 DEF f

(* The two steps of the sort, and what they keep.                          *)
LEMMA TakeFront ==
  ASSUME SortInv, TakeNext, hole' = 0
  PROVE  SortInv'
<1>1. /\ entities \in Seq(Entity) /\ next \in 2 .. Len(entities) /\ hole = 0
      /\ Len(entities) \in Nat /\ host \in Parties /\ descendingSpeed \in BOOLEAN
  BY DEF SortInv, SortTypes, TakeNext, Sorting
<1>2. PICK answer \in Compare(flips, entities[next], entities[1]) :
          answer.yes /\ entities' = MovedToFront(entities, next) /\ next' = next + 1
  BY <1>1 DEF TakeNext
<1>3. given' = given /\ host' = host /\ descendingSpeed' = descendingSpeed
  BY DEF TakeNext, order
<1>4. entities[next] \in Entity /\ \A k \in 1 .. Len(entities) : entities[k] \in Entity
  BY <1>1
<1>5. NotBefore(Rules, entities[1], entities[next])
  BY <1>1, <1>2, <1>4, YesIsInOrder
<1>6. InOrderTo(Rules, entities, next - 1) /\ Listing(entities) = Listing(given)
  BY <1>1 DEF SortInv, Between, TakeNext
<1>7. \A k \in 1 .. next - 1 : NotBefore(Rules, entities[k], entities[next])
  <2> TAKE k \in 1 .. next - 1
  <2>1. CASE k = 1
    BY <1>5, <2>1
  <2>2. CASE k # 1
    <3>1. NotBefore(Rules, entities[k], entities[1])
      BY <1>1, <1>6, <2>2 DEF InOrderTo
    <3> QED
      BY <1>1, <1>4, <1>5, <3>1, NotBeforeTransitive
  <2> QED
    BY <2>1, <2>2
<1>8. /\ entities' \in Seq(Entity) /\ Len(entities') = Len(entities)
      /\ entities'[1] = entities[next]
      /\ \A k \in 2 .. next : entities'[k] = entities[k - 1]
      /\ Listing(entities') = Listing(given)
  BY <1>1, <1>2, <1>6, FrontIs, FrontLists
<1>9. ASSUME NEW i \in 1 .. next, NEW j \in 1 .. next, i < j
      PROVE  NotBefore(Rules, entities'[j], entities'[i])
  <2>1. j \in 2 .. next /\ j - 1 \in 1 .. next - 1
    BY <1>1, <1>9
  <2>2. CASE i = 1
    BY <1>7, <1>8, <2>1, <2>2
  <2>3. CASE i # 1
    <3>1. i \in 2 .. next /\ i - 1 \in 1 .. next - 1 /\ i - 1 < j - 1
      BY <1>1, <1>9, <2>3
    <3>2. NotBefore(Rules, entities[j - 1], entities[i - 1])
      BY <1>6, <2>1, <3>1 DEF InOrderTo
    <3> QED
      BY <1>8, <2>1, <3>1, <3>2
  <2> QED
    BY <2>2, <2>3
<1>10. (IF next' <= Len(entities') THEN next' - 1 ELSE Len(entities')) = next
  BY <1>1, <1>2, <1>8
<1>11. Rules' = Rules
  BY <1>3 DEF Rules
<1>12. InOrderTo(Rules, entities', next)
  BY <1>9 DEF InOrderTo
<1>13. SortTypes'
  BY <1>1, <1>2, <1>3, <1>8 DEF SortInv, SortTypes
<1>14. Listing(entities)' = Listing(given)'
  BY <1>3, <1>8
<1>15. InOrderTo(Rules, entities, IF Sorting THEN next - 1 ELSE Len(entities))'
  BY <1>10, <1>11, <1>12 DEF Sorting
<1> QED
  BY <1>13, <1>14, <1>15 DEF SortInv, Between, Inserting

LEMMA TakeOut ==
  ASSUME SortInv, TakeNext, hole' # 0
  PROVE  SortInv'
<1>1. /\ entities \in Seq(Entity) /\ next \in 2 .. Len(entities) /\ hole = 0
      /\ Len(entities) \in Nat /\ host \in Parties /\ descendingSpeed \in BOOLEAN
  BY DEF SortInv, SortTypes, TakeNext, Sorting
<1>2. PICK answer \in Compare(flips, entities[next], entities[1]) :
          /\ ~answer.yes /\ copied' = answer.map /\ value' = entities[next] /\ hole' = next
          /\ entities' = entities /\ next' = next
  BY <1>1 DEF TakeNext
<1>3. given' = given /\ host' = host /\ descendingSpeed' = descendingSpeed
  BY DEF TakeNext, order
<1>4. Rules' = Rules
  BY <1>3 DEF Rules
<1>5. SortTypes'
  BY <1>2, <1>3 DEF SortInv, SortTypes
<1>6. Refused(Rules, copied', entities[next], entities[1])
  BY <1>2, NoIsRefused
<1>7. InOrderTo(Rules, entities, next - 1) /\ Listing(entities) = Listing(given)
  BY <1>1 DEF SortInv, Between, TakeNext
<1>8. Outside(entities, next) \cup {entities[next]} = Listing(entities)
  BY <1>1 DEF Outside, Listing
<1>9. \A i, j \in (1 .. next) \ {next} : i < j => NotBefore(Rules, entities[j], entities[i])
  <2>1. (1 .. next) \ {next} \subseteq 1 .. next - 1
    BY <1>1
  <2> QED
    BY <1>7, <2>1 DEF InOrderTo
<1>10. next \in Nat /\ next + 1 > next /\ entities[next] \in Entity
  BY <1>1
<1>11. Outside(entities, hole)' \cup {value'} = Listing(given)'
  BY <1>2, <1>3, <1>7, <1>8
<1>12. (\A i, j \in (1 .. next) \ {hole} : i < j => NotBefore(Rules, entities[j], entities[i]))'
  BY <1>2, <1>4, <1>9
<1>13. (\A k \in hole + 1 .. next : NotBefore(Rules, entities[k], value))'
  BY <1>2, <1>10
<1>14. Refused(Rules, copied, value, entities[1])'
  BY <1>2, <1>4, <1>6
<1> QED
  BY <1>1, <1>2, <1>5, <1>10, <1>11, <1>12, <1>13, <1>14 DEF SortInv, Between, Inserting

(* What the search relies on: the next comparison is not with the first,   *)
(* or it is refused.                                                       *)
LEMMA Searching ==
  ASSUME SortInv, Search
  PROVE  /\ entities \in Seq(Entity) /\ Len(entities) \in Nat /\ next \in 2 .. Len(entities)
         /\ hole \in 2 .. next /\ value \in Entity
         /\ host \in Parties /\ descendingSpeed \in BOOLEAN
         /\ entities[hole - 1] \in Entity
         /\ Rules' = Rules /\ given' = given /\ host' = host /\ descendingSpeed' = descendingSpeed
<1>1. /\ entities \in Seq(Entity) /\ next \in Nat /\ next >= 2 /\ next <= Len(entities)
      /\ hole # 0 /\ host \in Parties /\ descendingSpeed \in BOOLEAN
  BY DEF SortInv, SortTypes, Search, Sorting
<1>2. hole \in 2 .. next /\ value \in Entity
  BY <1>1 DEF SortInv, Inserting
<1>3. hole - 1 \in 1 .. Len(entities)
  BY <1>1, <1>2
<1>4. given' = given /\ host' = host /\ descendingSpeed' = descendingSpeed
  BY DEF Search, order
<1> QED
  BY <1>1, <1>2, <1>3, <1>4 DEF Rules

LEMMA SearchGoesOn ==
  ASSUME SortInv, Search, hole' # 0
  PROVE  SortInv'
<1>1. /\ entities \in Seq(Entity) /\ Len(entities) \in Nat /\ next \in 2 .. Len(entities)
      /\ hole \in 2 .. next /\ value \in Entity
      /\ host \in Parties /\ descendingSpeed \in BOOLEAN /\ entities[hole - 1] \in Entity
      /\ Rules' = Rules /\ given' = given /\ host' = host /\ descendingSpeed' = descendingSpeed
  BY Searching
<1>2. PICK answer \in Compare(copied, value, entities[hole - 1]) :
          /\ answer.yes /\ copied' = answer.map /\ hole' = hole - 1
          /\ entities' = [entities EXCEPT ![hole] = entities[hole - 1]]
          /\ next' = next /\ value' = value
  BY DEF Search
<1>3. /\ Outside(entities, hole) \cup {value} = Listing(given)
      /\ \A i, j \in (1 .. next) \ {hole} : i < j => NotBefore(Rules, entities[j], entities[i])
      /\ \A k \in hole + 1 .. next : NotBefore(Rules, entities[k], value)
      /\ Refused(Rules, copied, value, entities[1])
  BY <1>1 DEF SortInv, Inserting
<1>4. hole # 2
  BY <1>2, <1>3, RefusedIs
<1>5. hole - 1 \in 2 .. next /\ hole - 1 \in 1 .. Len(entities) /\ hole \in 1 .. Len(entities)
  BY <1>1, <1>4
<1>6. NotBefore(Rules, entities[hole - 1], value)
  BY <1>1, <1>2, YesIsInOrder
<1>7. /\ entities' \in Seq(Entity) /\ Len(entities') = Len(entities)
      /\ entities'[hole] = entities[hole - 1]
      /\ \A k \in (1 .. Len(entities)) \ {hole} : entities'[k] = entities[k]
  BY <1>1, <1>2
<1>8. entities'[1] = entities[1]
  BY <1>1, <1>7
<1>9. SortTypes'
  BY <1>1, <1>2, <1>7 DEF SortInv, SortTypes
<1>10. Outside(entities', hole - 1) = Outside(entities, hole)
  <2>1. ASSUME NEW k \in (1 .. Len(entities)) \ {hole - 1}
        PROVE  \E j \in (1 .. Len(entities)) \ {hole} : entities'[k] = entities[j]
    <3>1. CASE k = hole
      BY <1>1, <1>5, <1>7, <3>1
    <3>2. CASE k # hole
      BY <1>7, <3>2
    <3> QED
      BY <3>1, <3>2
  <2>2. ASSUME NEW j \in (1 .. Len(entities)) \ {hole}
        PROVE  \E k \in (1 .. Len(entities)) \ {hole - 1} : entities'[k] = entities[j]
    <3>1. CASE j = hole - 1
      BY <1>1, <1>5, <1>7, <3>1
    <3>2. CASE j # hole - 1
      BY <1>7, <3>2
    <3> QED
      BY <3>1, <3>2
  <2>3. /\ Outside(entities', hole - 1) = {entities'[k] : k \in (1 .. Len(entities)) \ {hole - 1}}
        /\ Outside(entities, hole) = {entities[j] : j \in (1 .. Len(entities)) \ {hole}}
    BY <1>7 DEF Outside
  <2>4. Outside(entities', hole - 1) \subseteq Outside(entities, hole)
    BY <2>1, <2>3
  <2>5. Outside(entities, hole) \subseteq Outside(entities', hole - 1)
    BY <2>2, <2>3
  <2> QED
    BY <2>4, <2>5
<1>11. ASSUME NEW i \in (1 .. next) \ {hole - 1}, NEW j \in (1 .. next) \ {hole - 1}, i < j
       PROVE  NotBefore(Rules, entities'[j], entities'[i])
  <2>1. i \in 1 .. Len(entities) /\ j \in 1 .. Len(entities)
    BY <1>1
  <2>2. CASE i = hole
    <3>1. j # hole /\ hole - 1 < j /\ hole - 1 \in (1 .. next) \ {hole} /\ j \in (1 .. next) \ {hole}
      BY <1>1, <1>5, <1>11, <2>2
    <3> QED
      BY <1>3, <1>7, <2>1, <2>2, <3>1
  <2>3. CASE j = hole
    <3>1. i # hole /\ i < hole - 1 /\ hole - 1 \in (1 .. next) \ {hole} /\ i \in (1 .. next) \ {hole}
      BY <1>1, <1>5, <1>11, <2>3
    <3> QED
      BY <1>3, <1>7, <2>1, <2>3, <3>1
  <2>4. CASE i # hole /\ j # hole
    BY <1>3, <1>7, <1>11, <2>1, <2>4
  <2> QED
    BY <2>2, <2>3, <2>4
<1>12. ASSUME NEW k \in hole .. next
       PROVE  NotBefore(Rules, entities'[k], value)
  <2>1. CASE k = hole
    BY <1>6, <1>7, <2>1
  <2>2. CASE k # hole
    <3>1. k \in hole + 1 .. next /\ k \in (1 .. Len(entities)) \ {hole}
      BY <1>1, <2>2
    <3> QED
      BY <1>3, <1>7, <3>1
  <2> QED
    BY <2>1, <2>2
<1>13. Refused(Rules, copied', value, entities[1])
  BY <1>2, <1>3, RefusalIsKept
<1>14. (hole - 1) + 1 = hole /\ hole - 1 # 0 /\ next <= Len(entities)
  BY <1>1, <1>5
<1>15. (Outside(entities, hole) \cup {value} = Listing(given))'
  BY <1>1, <1>2, <1>3, <1>10
<1>16. (\A i, j \in (1 .. next) \ {hole} : i < j => NotBefore(Rules, entities[j], entities[i]))'
  BY <1>1, <1>2, <1>11
<1>17. (\A k \in hole + 1 .. next : NotBefore(Rules, entities[k], value))'
  BY <1>1, <1>2, <1>12, <1>14
<1>18. Refused(Rules, copied, value, entities[1])'
  BY <1>1, <1>2, <1>8, <1>13
<1>19. hole' \in 2 .. next' /\ next' <= Len(entities)' /\ value' \in Entity /\ hole' # 0
  BY <1>1, <1>2, <1>5, <1>7, <1>14
<1> QED
  BY <1>9, <1>15, <1>16, <1>17, <1>18, <1>19 DEF SortInv, Between, Inserting

LEMMA SearchEnds ==
  ASSUME SortInv, Search, hole' = 0
  PROVE  SortInv'
<1>1. /\ entities \in Seq(Entity) /\ Len(entities) \in Nat /\ next \in 2 .. Len(entities)
      /\ hole \in 2 .. next /\ value \in Entity
      /\ host \in Parties /\ descendingSpeed \in BOOLEAN /\ entities[hole - 1] \in Entity
      /\ Rules' = Rules /\ given' = given /\ host' = host /\ descendingSpeed' = descendingSpeed
  BY Searching
<1>2. /\ Outside(entities, hole) \cup {value} = Listing(given)
      /\ \A i, j \in (1 .. next) \ {hole} : i < j => NotBefore(Rules, entities[j], entities[i])
      /\ \A k \in hole + 1 .. next : NotBefore(Rules, entities[k], value)
      /\ Refused(Rules, copied, value, entities[1])
  BY <1>1 DEF SortInv, Inserting
<1>3. PICK answer \in Compare(copied, value, entities[hole - 1]) :
          IF answer.yes
          THEN hole' = hole - 1
          ELSE entities' = [entities EXCEPT ![hole] = value] /\ next' = next + 1 /\ hole' = 0
  BY DEF Search
<1>4. ~answer.yes /\ entities' = [entities EXCEPT ![hole] = value] /\ next' = next + 1
  BY <1>1, <1>3
<1>5. /\ entities' \in Seq(Entity) /\ Len(entities') = Len(entities) /\ entities'[hole] = value
      /\ \A k \in (1 .. Len(entities)) \ {hole} : entities'[k] = entities[k]
  BY <1>1, <1>4
<1>6. SortTypes'
  BY <1>1, <1>4, <1>5 DEF SortInv, SortTypes
<1>7. Listing(entities') = Outside(entities, hole) \cup {value}
  <2>1. Listing(entities') = {entities'[k] : k \in 1 .. Len(entities)}
    BY <1>5 DEF Listing
  <2>2. Outside(entities, hole) = {entities[k] : k \in (1 .. Len(entities)) \ {hole}}
    BY DEF Outside
  <2>3. hole \in 1 .. Len(entities)
    BY <1>1
  <2>4. Listing(entities') \subseteq Outside(entities, hole) \cup {value}
    BY <1>5, <2>1, <2>2
  <2>5. Outside(entities, hole) \subseteq Listing(entities')
    BY <1>5, <2>1, <2>2
  <2>6. value \in Listing(entities')
    BY <1>5, <2>1, <2>3
  <2> QED
    BY <2>4, <2>5, <2>6
<1>8. NotBefore(Rules, value, entities[hole - 1])
  BY <1>1, <1>4, NoIsInOrder
<1>9. ASSUME NEW i \in 1 .. hole - 1
      PROVE  NotBefore(Rules, value, entities[i])
  <2>1. CASE i = hole - 1
    BY <1>8, <2>1
  <2>2. CASE i # hole - 1
    <3>1. /\ i < hole - 1 /\ i \in (1 .. next) \ {hole} /\ hole - 1 \in (1 .. next) \ {hole}
          /\ i \in 1 .. Len(entities)
      BY <1>1, <2>2
    <3>2. NotBefore(Rules, entities[hole - 1], entities[i]) /\ entities[i] \in Entity
      BY <1>1, <1>2, <3>1
    <3> QED
      BY <1>1, <1>8, <3>2, NotBeforeTransitive
  <2> QED
    BY <2>1, <2>2
<1>10. ASSUME NEW i \in 1 .. next, NEW j \in 1 .. next, i < j
       PROVE  NotBefore(Rules, entities'[j], entities'[i])
  <2>1. i \in 1 .. Len(entities) /\ j \in 1 .. Len(entities)
    BY <1>1
  <2>2. CASE i = hole
    <3>1. j \in hole + 1 .. next /\ j # hole
      BY <1>1, <1>10, <2>2
    <3> QED
      BY <1>2, <1>5, <2>1, <2>2, <3>1
  <2>3. CASE j = hole
    <3>1. i \in 1 .. hole - 1 /\ i # hole
      BY <1>1, <1>10, <2>3
    <3> QED
      BY <1>5, <1>9, <2>1, <2>3, <3>1
  <2>4. CASE i # hole /\ j # hole
    BY <1>2, <1>5, <1>10, <2>1, <2>4
  <2> QED
    BY <2>2, <2>3, <2>4
<1>11. (IF next' <= Len(entities') THEN next' - 1 ELSE Len(entities')) = next
  <2>1. next \in Nat /\ Len(entities') \in Nat /\ next <= Len(entities') /\ next' = next + 1
    BY <1>1, <1>4, <1>5
  <2> QED
    BY <2>1
<1>12. InOrderTo(Rules, entities', next)
  BY <1>10 DEF InOrderTo
<1>13. Listing(entities)' = Listing(given)'
  BY <1>1, <1>2, <1>7
<1>14. InOrderTo(Rules, entities, IF Sorting THEN next - 1 ELSE Len(entities))'
  BY <1>1, <1>11, <1>12 DEF Sorting
<1> QED
  BY <1>6, <1>13, <1>14 DEF SortInv, Between, Inserting

(* The inductive invariant of the sort: while nothing is taken out, the    *)
(* vector has who was given and is in order up to the next one; while an   *)
(* element is taken out, the others are, it goes before those behind the   *)
(* hole, and the copied map refuses to put it before the first             *)
(* (turnOrderComparator and speedComparator in std::sort).                 *)
THEOREM SortInvariant == OrderSpec => []SortInv
<1>1. OrderInit => SortInv
  BY TurnOrderAssumption, InitSort
<1>2. SortInv /\ [OrderNext]_orderVars => SortInv'
  <2> SUFFICES ASSUME SortInv, [OrderNext]_orderVars PROVE SortInv'
    OBVIOUS
  <2>1. CASE TakeNext
    BY <2>1, TakeFront, TakeOut
  <2>2. CASE Search
    BY <2>2, SearchGoesOn, SearchEnds
  <2>3. CASE UNCHANGED orderVars
    <3>1. /\ entities' = entities /\ given' = given /\ host' = host /\ next' = next /\ hole' = hole
          /\ value' = value /\ copied' = copied /\ descendingSpeed' = descendingSpeed
      BY <2>3 DEF orderVars
    <3>2. Rules' = Rules /\ Sorting' = Sorting
      BY <3>1 DEF Rules, Sorting
    <3>3. SortTypes'
      BY <3>1 DEF SortInv, SortTypes
    <3>4. Between'
      BY <3>1, <3>2 DEF SortInv, Between
    <3>5. Inserting'
      BY <3>1, <3>2 DEF SortInv, Inserting
    <3> QED
      BY <3>3, <3>4, <3>5 DEF SortInv
  <2> QED
    BY <2>1, <2>2, <2>3 DEF OrderNext
<1> QED
  BY <1>1, <1>2, PTL DEF OrderSpec

LEMMA RanksAgree ==
  ASSUME NEW a, NEW b
  PROVE  Precedes(a, b) <=> ~NotBefore(Rules, a, b)
<1>1. \A e : Rank(e) = RankBy(Rules, e)
  BY DEF Rank, RankBy, Rules
<1> QED
  BY <1>1 DEF Precedes, NotBefore

LEMMA ListingIs ==
  ASSUME NEW s \in Seq(Entity)
  PROVE  ToSet(s) = Listing(s)
BY DEF ToSet, Listing

(* However the coins fall, and although they make the comparator neither   *)
(* antisymmetric nor transitive, std::sort stays inside the vector of      *)
(* sortInTurnOrder and sortBySpeed, loses nobody, and leaves nobody after  *)
(* one whom he precedes: for every number of pokemon, though libstdc++     *)
(* sorts only up to sixteen in this way.                                   *)
THEOREM SortsInOrderHolds == OrderSpec => []SortsInOrder
<1>1. SortInv => SortsInOrder
  <2> SUFFICES ASSUME SortInv PROVE SortsInOrder
    OBVIOUS
  <2>1. /\ entities \in Seq(Entity) /\ given \in Seq(Entity) /\ Len(entities) = Len(given)
        /\ next \in Nat /\ Len(entities) \in Nat
    BY DEF SortInv, SortTypes
  <2>2. hole # 1 /\ (hole # 0 => Sorting)
    BY DEF SortInv, Inserting, Sorting
  <2>3. ASSUME ~Sorting
        PROVE  ActsInOrder
    <3>1. Listing(entities) = Listing(given) /\ InOrderTo(Rules, entities, Len(entities))
      BY <2>2, <2>3 DEF SortInv, Between
    <3>2. DOMAIN entities = 1 .. Len(entities)
      BY <2>1
    <3>3. \A i, j \in 1 .. Len(entities) : i < j => ~Precedes(entities[j], entities[i])
      BY <3>1, RanksAgree DEF InOrderTo
    <3> QED
      BY <2>1, <3>1, <3>2, <3>3, ListingIs DEF ActsInOrder
  <2> QED
    BY <2>2, <2>3 DEF SortsInOrder, StaysInside, ActsInOrder
<1> QED
  BY <1>1, SortInvariant, PTL
=============================================================================
