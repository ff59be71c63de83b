------------------------------ MODULE MCChoices ------------------------------
(* Doubles, for model checking Choices: a pokemon with a choice item and a *)
(* move for its ally, that ally, and an enemy.                             *)
EXTENDS Choices, TLC

CONSTANTS p1, p2, p3

Sides == (p1 :> 0) @@ (p2 :> 0) @@ (p3 :> 1)
Places2 == (p1 :> 1) @@ (p2 :> 2) @@ (p3 :> 1)
Moves2 == (p1 :> <<"HelpingHand", "Tackle">>) @@ (p2 :> <<"Tackle">>) @@ (p3 :> <<"Tackle">>)
Twice == [m \in DOMAIN Template |-> 2]

=============================================================================
