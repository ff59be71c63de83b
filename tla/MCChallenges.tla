---------------------------- MODULE MCChallenges ----------------------------
(* Owners of the connections for model checking Challenges: a user who     *)
(* connects once and one who may come back.                                *)
EXTENDS Challenges

CONSTANTS ann, bob, a1, b1, b2

Owners == [c \in Conn |-> IF c = a1 THEN ann ELSE bob]
OffersOf == [c \in Conn |-> IF c = a1 THEN 2 ELSE 0]

=============================================================================
