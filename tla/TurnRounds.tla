----------------------------- MODULE TurnRounds -----------------------------
(***************************************************************************)
(* What the collection of turns promises, whatever the field looks like: a *)
(* battle is a series of rounds; a round is executed when, and only when,  *)
(* every question of it has exactly one answer; answers are taken back     *)
(* only before that; a round may pause to put one question more; nothing   *)
(* is asked once the battle is being closed.  Module BattleTurns is shown  *)
(* to implement this.                                                      *)
(***************************************************************************)
CONSTANT Question

VARIABLES
    phase,     \* where the round is
    closing,   \* the battle is won or given up
    asked,     \* the questions of the round
    answered   \* those of them that have an answer

vars == <<phase, closing, asked, answered>>

Phase == {"asking", "sealed", "running", "paused", "chosen", "ended", "over"}

TypeOK ==
    /\ phase \in Phase
    /\ closing \in BOOLEAN
    /\ asked \subseteq Question
    /\ answered \subseteq asked

Ask(S) ==
    /\ S # {}
    /\ phase' = "asking"
    /\ asked' = S
    /\ answered' = {}
    /\ UNCHANGED closing

(* The last answer of a round seals it.                                    *)
Answer(q) ==
    /\ q \in asked \ answered
    /\ IF answered \cup {q} = asked
       THEN /\ asked' = {}
            /\ answered' = {}
            /\ \/ phase = "asking" /\ phase' = "sealed"
               \/ phase = "paused" /\ phase' = "chosen"
       ELSE /\ phase \in {"asking", "paused"}
            /\ answered' = answered \cup {q}
            /\ UNCHANGED <<phase, asked>>
    /\ UNCHANGED closing

Retract(q) ==
    /\ phase = "asking"
    /\ q \in answered
    /\ answered' = answered \ {q}
    /\ UNCHANGED <<phase, closing, asked>>

Run ==
    /\ phase = "sealed"
    /\ phase' = "running"
    /\ UNCHANGED <<closing, asked, answered>>

Pause(q) ==
    /\ phase = "running"
    /\ phase' = "paused"
    /\ asked' = {q}
    /\ answered' = {}
    /\ UNCHANGED closing

Resume ==
    /\ phase = "chosen"
    /\ phase' = "running"
    /\ UNCHANGED <<closing, asked, answered>>

NextRound(S) ==
    /\ phase = "running"
    /\ ~closing
    /\ Ask(S)

EndClosed ==
    /\ phase = "running"
    /\ closing
    /\ phase' = "ended"
    /\ UNCHANGED <<closing, asked, answered>>

(* A player gives up: a paused round is answered for him.                  *)
Close ==
    /\ closing' = TRUE
    /\ \/ /\ phase = "paused"
          /\ phase' = "chosen"
          /\ asked' = {}
          /\ answered' = {}
       \/ /\ phase = "running"
          /\ UNCHANGED <<phase, asked, answered>>

Terminate ==
    /\ phase \notin {"paused", "over"}
    /\ phase' = "over"
    /\ closing' = TRUE
    /\ asked' = {}
    /\ answered' = {}

Init ==
    /\ phase = "asking"
    /\ closing = FALSE
    /\ asked \in (SUBSET Question) \ {{}}
    /\ answered = {}

Next ==
    \/ \E q \in Question : Answer(q) \/ Retract(q) \/ Pause(q)
    \/ \E S \in SUBSET Question : NextRound(S)
    \/ Run
    \/ Resume
    \/ EndClosed
    \/ Close
    \/ Terminate

Spec == Init /\ [][Next]_vars

=============================================================================
