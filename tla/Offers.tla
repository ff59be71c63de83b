------------------------------- MODULE Offers -------------------------------
(* What the handlers of challenges promise: a challenge is played only if  *)
(* it was accepted, and it is played, withdrawn or rejected once.          *)
CONSTANT Offer
VARIABLE status

Init == status = [o \in Offer |-> "none"]

Goes(o, from, to) ==
    /\ status[o] \in from
    /\ status' = [status EXCEPT ![o] = to]

Make(o) == Goes(o, {"none"}, "open")
Accept(o) == Goes(o, {"open"}, "accepted")
Play(o) == Goes(o, {"accepted"}, "played")
Withdraw(o) == Goes(o, {"open", "accepted"}, "withdrawn")
Reject(o) == Goes(o, {"open", "accepted"}, "rejected")

Next == \E o \in Offer :
            Make(o) \/ Accept(o) \/ Play(o) \/ Withdraw(o) \/ Reject(o)

Spec == Init /\ [][Next]_status

=============================================================================
