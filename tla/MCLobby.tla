------------------------------ MODULE MCLobby ------------------------------
(* Owners of the connections for model checking Lobby. *)
EXTENDS Lobby

CONSTANTS k1, k2

DifferentUsers == [x \in Conn |-> x]
SameUser == [x \in Conn |-> k1]

=============================================================================
