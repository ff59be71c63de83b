--------------------------- MODULE MCBattleTurns ---------------------------
(* Team sizes for model checking BattleTurns, one per party. *)
EXTENDS BattleTurns

ThreeOnTwo == [p \in Party |-> IF p = 0 THEN 3 ELSE 2]
FourOnTwo == [p \in Party |-> IF p = 0 THEN 4 ELSE 2]

=============================================================================
