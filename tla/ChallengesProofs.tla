-------------------------- MODULE ChallengesProofs --------------------------
(* Theorems about module Challenges, for every set of connections and of   *)
(* users, and however often they challenge each other.                     *)
EXTENDS Challenges, TLAPS

(* What is in a book is the last challenge made to that user, and has not  *)
(* ended.                                                                  *)
BookInv ==
    \A c \in Conn : \A u \in User : book[c][u] # None =>
        /\ book[c][u] = <<c, u, made[c][u]>>
        /\ book[c][u] \in Offer
        /\ ended[book[c][u]] = "no"

(* Nothing is known of a challenge before it is made.                      *)
Made(o) == made[o[1]][o[2]] >= o[3]
MadeInv == \A o \in Offer : ~Made(o) => ended[o] = "no" /\ team[o] = None

TeamInv == \A o \in Offer : team[o] \in {None, o}

(* Who accepts, accepts a challenge that was made.                         *)
WorkInv ==
    \A c \in Conn : reader[c] = "accepting" => work[c] # None /\ Made(work[c])

Inv == TypeOK /\ BookInv /\ MadeInv /\ TeamInv /\ WorkInv

-----------------------------------------------------------------------------
LEMMA OfferParts ==
    ASSUME NEW o \in Offer
    PROVE  /\ o[1] \in Conn /\ o[2] \in User
           /\ o[3] \in 1 .. MayOffer[o[1]]
           /\ o = <<o[1], o[2], o[3]>>
           /\ o # None
  BY ChallengesAssumption DEF Offer

LEMMA OfferMade ==
    ASSUME NEW c \in Conn, NEW u \in User, NEW n \in 1 .. MayOffer[c]
    PROVE  <<c, u, n>> \in Offer
  BY DEF Offer

THEOREM InitInv == Init => Inv
<1> SUFFICES ASSUME Init
             PROVE  Inv
  OBVIOUS
<1>1. TypeOK
  BY ChallengesAssumption DEF Init, TypeOK
<1>2. BookInv /\ MadeInv /\ TeamInv /\ WorkInv
  BY OfferParts DEF Init, BookInv, MadeInv, TeamInv, WorkInv, Made
<1> QED
  BY <1>1, <1>2 DEF Inv

-----------------------------------------------------------------------------
(* The steps that leave the challenges alone.                              *)
LEMMA Quiet ==
    ASSUME Inv, UNCHANGED challenges, TypeOK',
           \A c \in Conn : reader'[c] = "accepting" =>
                reader[c] = "accepting" /\ work'[c] = work[c]
    PROVE  Inv'
<1>1. BookInv' /\ MadeInv' /\ TeamInv'
  BY DEF Inv, BookInv, MadeInv, TeamInv, Made, challenges
<1>2. WorkInv'
  BY DEF Inv, WorkInv, Made, challenges
<1> QED
  BY <1>1, <1>2 DEF Inv

LEMMA Going ==
    ASSUME Inv, NEW c \in Conn,
           \/ LogIn(c) \/ Fail(c) \/ FindPhantom(c)
           \/ Disconnect(c) \/ Erase(c) \/ RefuseTeam(c) \/ StartBattle(c)
    PROVE  Inv' /\ UNCHANGED challenges
<1> USE DEF ReaderGoes, Proceeds, threads, challenges
<1>1. CASE LogIn(c)
  BY <1>1, Quiet DEF LogIn, Inv, TypeOK
<1>2. CASE Fail(c)
  BY <1>2, Quiet DEF Fail, Inv, TypeOK
<1>3. CASE FindPhantom(c)
  BY <1>3, Quiet DEF FindPhantom, Inv, TypeOK
<1>4. CASE Disconnect(c)
  <2>1. told' \in [Conn -> [User -> Offer \cup {None}]]
    BY <1>4 DEF Disconnect, Inv, TypeOK
  <2>2. UNCHANGED <<here, work, challenges>>
    BY <1>4 DEF Disconnect
  <2>3. /\ reader' \in [Conn -> {"none", "ready", "accepting", "starting",
                                 "disconnect", "erase", "done"}]
        /\ phantom' \in [Conn -> {"idle", "disconnect", "erase"}]
        /\ \A d \in Conn : reader'[d] = "accepting" => reader[d] = "accepting"
    BY <1>4 DEF Disconnect, Inv, TypeOK
  <2>4. TypeOK'
    BY <2>1, <2>2, <2>3 DEF Inv, TypeOK
  <2> QED
    BY <2>2, <2>3, <2>4, Quiet
<1>5. CASE Erase(c)
  BY <1>5, Quiet DEF Erase, Inv, TypeOK
<1>6. CASE RefuseTeam(c)
  BY <1>6, Quiet DEF RefuseTeam, Inv, TypeOK
<1>7. CASE StartBattle(c)
  BY <1>7, Quiet DEF StartBattle, Inv, TypeOK
<1> QED
  BY <1>1, <1>2, <1>3, <1>4, <1>5, <1>6, <1>7

LEMMA Accepting ==
    ASSUME Inv, NEW d \in Conn, NEW c \in Conn, BeginAccept(d, c)
    PROVE  Inv' /\ UNCHANGED challenges
<1> DEFINE o == book[c][Owner[d]]
<1>1. Owner[d] \in User
  BY ChallengesAssumption
<1>2. /\ o # None /\ o \in Offer
      /\ o = <<c, Owner[d], made[c][Owner[d]]>>
  BY <1>1 DEF BeginAccept, Inv, BookInv
<1>3. /\ reader' = [reader EXCEPT ![d] = "accepting"]
      /\ work' = [work EXCEPT ![d] = o]
      /\ UNCHANGED <<here, phantom, made, book, team, ended, told>>
  BY DEF BeginAccept, ReaderGoes, challenges
<1> HIDE DEF o
<1>4. Made(o)
  BY <1>1, <1>2 DEF Made, Inv, TypeOK
<1>5. TypeOK'
  BY <1>2, <1>3 DEF Inv, TypeOK
<1>6. BookInv' /\ MadeInv' /\ TeamInv'
  BY <1>3 DEF Inv, BookInv, MadeInv, TeamInv, Made
<1>7. WorkInv'
  BY <1>2, <1>3, <1>4 DEF Inv, WorkInv, Made, TypeOK
<1> QED
  BY <1>3, <1>5, <1>6, <1>7 DEF Inv, challenges

-----------------------------------------------------------------------------
(* The steps that make, accept or end a challenge.                         *)
LEMMA Step ==
    ASSUME NEW o \in Offer, NEW from, NEW to,
           Status(o) \in from, Status(o)' = to,
           \A p \in Offer : p # o => Status(p)' = Status(p)
    PROVE  Abstract!Goes(o, from, to)
<1> DEFINE st == [p \in Offer |-> Status(p)]
<1>1. st' = [st EXCEPT ![o] = to]
  OBVIOUS
<1> QED
  BY <1>1 DEF Abstract!Goes

LEMMA Ending ==
    ASSUME Inv, NEW c \in Conn, NEW u \in User, book[c][u] # None,
           NEW how \in {"withdrawn", "rejected", "played"},
           book' = [book EXCEPT ![c][u] = None],
           ended' = [ended EXCEPT ![book[c][u]] = how],
           made' = made, team' = team
    PROVE  /\ book' \in [Conn -> [User -> Offer \cup {None}]]
           /\ ended' \in [Offer -> {"no", "withdrawn", "rejected", "played"}]
           /\ BookInv' /\ MadeInv' /\ TeamInv'
           /\ book[c][u] \in Offer
           /\ Abstract!Goes(book[c][u], {"open", "accepted"}, how)
           /\ team[book[c][u]] # None
                    => Abstract!Goes(book[c][u], {"accepted"}, how)
<1>0. PICK o \in Offer : o = book[c][u]
  BY DEF Inv, BookInv
<1>1. /\ o = <<c, u, made[c][u]>> /\ o \in Offer /\ ended[o] = "no"
  BY <1>0 DEF Inv, BookInv
<1>2. Made(o)
  BY <1>1 DEF Made, Inv, TypeOK
<1>3. ended' = [ended EXCEPT ![o] = how]
  BY <1>0
<1>4. ended \in [Offer -> {"no", "withdrawn", "rejected", "played"}]
  BY DEF Inv, TypeOK
<1>5. book' \in [Conn -> [User -> Offer \cup {None}]]
  BY DEF Inv, TypeOK
<1>6. ended' \in [Offer -> {"no", "withdrawn", "rejected", "played"}]
  BY <1>3, <1>4
<1>7. BookInv'
  <2> SUFFICES ASSUME NEW d \in Conn, NEW v \in User, book'[d][v] # None
               PROVE  /\ book'[d][v] = <<d, v, made[d][v]>>
                      /\ book'[d][v] \in Offer
                      /\ ended'[book'[d][v]] = "no"
    BY DEF BookInv
  <2>1. book'[d][v] = book[d][v] /\ ~(d = c /\ v = u)
    BY DEF Inv, TypeOK
  <2>2. /\ book[d][v] = <<d, v, made[d][v]>>
        /\ book[d][v] \in Offer
        /\ ended[book[d][v]] = "no"
    BY <2>1 DEF Inv, BookInv
  <2>3. book[d][v] # o
    BY <1>1, <2>1, <2>2
  <2> QED
    BY <1>3, <1>4, <2>1, <2>2, <2>3
<1>8. MadeInv' /\ TeamInv'
  <2>1. TeamInv'
    BY DEF Inv, TeamInv
  <2>2. ASSUME NEW p \in Offer, ~Made(p)'
        PROVE  ended'[p] = "no" /\ team'[p] = None
    <3>1. ~Made(p) /\ p # o
      BY <1>2, <2>2 DEF Made
    <3> QED
      BY <1>3, <1>4, <3>1 DEF Inv, MadeInv
  <2> QED
    BY <2>1, <2>2 DEF MadeInv
<1>9. /\ Status(o) \in {"open", "accepted"}
      /\ team[o] # None => Status(o) = "accepted"
  <2>1. team[o] \in {None, o} /\ o # None
    BY <1>1, OfferParts DEF Inv, TeamInv
  <2>2. made[o[1]][o[2]] \in Nat /\ o[3] \in Nat /\ ~(made[o[1]][o[2]] < o[3])
    BY <1>1, <1>2 DEF Made, Inv, TypeOK
  <2>3. Status(o) = IF team[o] = o THEN "accepted" ELSE "open"
    BY <1>1, <2>2 DEF Status, Maker, Opponent
  <2> QED
    BY <2>1, <2>3
<1>10. Status(o)' = how
  BY <1>1, <1>3, <1>4 DEF Status, Maker, Opponent
<1>11. \A p \in Offer : p # o => Status(p)' = Status(p)
  BY <1>3, <1>4 DEF Status, Maker, Opponent
<1> QED
  BY <1>0, <1>1, <1>5, <1>6, <1>7, <1>8, <1>9, <1>10, <1>11, Step

LEMMA Withdrawing ==
    ASSUME Inv, NEW c \in Conn, NEW u \in User, WithdrawChallenge(c, u)
    PROVE  Inv' /\ \E o \in Offer : Abstract!Withdraw(o)
<1>1. /\ book[c][u] # None
      /\ book' = [book EXCEPT ![c][u] = None]
      /\ ended' = [ended EXCEPT ![book[c][u]] = "withdrawn"]
      /\ UNCHANGED <<here, reader, phantom, work, made, team>>
  BY DEF WithdrawChallenge, threads
<1>2. told' \in [Conn -> [User -> Offer \cup {None}]]
  <2>1. PICK d \in At(u) : told' = [told EXCEPT ![d][Owner[c]] = None]
    BY DEF WithdrawChallenge
  <2> QED
    BY <2>1 DEF Inv, TypeOK
<1>3. /\ book' \in [Conn -> [User -> Offer \cup {None}]]
      /\ ended' \in [Offer -> {"no", "withdrawn", "rejected", "played"}]
      /\ BookInv' /\ MadeInv' /\ TeamInv'
      /\ book[c][u] \in Offer
      /\ Abstract!Goes(book[c][u], {"open", "accepted"}, "withdrawn")
  BY <1>1, Ending
<1>4. TypeOK'
  BY <1>1, <1>2, <1>3 DEF Inv, TypeOK
<1>5. WorkInv'
  BY <1>1 DEF Inv, WorkInv, Made
<1> QED
  BY <1>3, <1>4, <1>5 DEF Inv, Abstract!Withdraw

LEMMA Rejecting ==
    ASSUME Inv, NEW d \in Conn, NEW c \in Conn, RejectChallenge(d, c)
    PROVE  Inv' /\ \E o \in Offer : Abstract!Reject(o)
<1> DEFINE u == Owner[d]
<1>1. u \in User
  BY ChallengesAssumption
<1>2. /\ book[c][u] # None
      /\ book' = [book EXCEPT ![c][u] = None]
      /\ ended' = [ended EXCEPT ![book[c][u]] = "rejected"]
      /\ UNCHANGED <<here, reader, phantom, work, made, team, told>>
  BY DEF RejectChallenge, threads
<1> HIDE DEF u
<1>3. /\ book' \in [Conn -> [User -> Offer \cup {None}]]
      /\ ended' \in [Offer -> {"no", "withdrawn", "rejected", "played"}]
      /\ BookInv' /\ MadeInv' /\ TeamInv'
      /\ book[c][u] \in Offer
      /\ Abstract!Goes(book[c][u], {"open", "accepted"}, "rejected")
  BY <1>1, <1>2, Ending
<1>4. TypeOK'
  BY <1>2, <1>3 DEF Inv, TypeOK
<1>5. WorkInv'
  BY <1>2 DEF Inv, WorkInv, Made
<1> QED
  BY <1>3, <1>4, <1>5 DEF Inv, Abstract!Reject

LEMMA Playing ==
    ASSUME Inv, NEW c \in Conn, NEW u \in User, ChallengeTeam(c, u)
    PROVE  Inv' /\ \E o \in Offer : Abstract!Play(o)
<1>1. /\ book[c][u] # None
      /\ team[book[c][u]] # None
      /\ book' = [book EXCEPT ![c][u] = None]
      /\ ended' = [ended EXCEPT ![book[c][u]] = "played"]
      /\ work' = [work EXCEPT ![c] = book[c][u]]
      /\ reader' = [reader EXCEPT ![c] = "starting"]
      /\ UNCHANGED <<here, phantom, made, team, told>>
  BY DEF ChallengeTeam, ReaderGoes
<1>2. /\ book' \in [Conn -> [User -> Offer \cup {None}]]
      /\ ended' \in [Offer -> {"no", "withdrawn", "rejected", "played"}]
      /\ BookInv' /\ MadeInv' /\ TeamInv'
      /\ book[c][u] \in Offer
      /\ Abstract!Goes(book[c][u], {"accepted"}, "played")
  BY <1>1, Ending
<1>3. TypeOK'
  BY <1>1, <1>2 DEF Inv, TypeOK
<1>4. WorkInv'
  BY <1>1 DEF Inv, TypeOK, WorkInv, Made
<1> QED
  BY <1>2, <1>3, <1>4 DEF Inv, Abstract!Play

LEMMA Challenging ==
    ASSUME Inv, NEW c \in Conn, NEW u \in User, OutgoingChallenge(c, u)
    PROVE  Inv' /\ \E o \in Offer : Abstract!Make(o)
<1>0. /\ made[c][u] \in Nat /\ MayOffer[c] \in Nat
      /\ made[c][u] < MayOffer[c]
  <2>1. MayOffer[c] \in Nat /\ made[c][u] < MayOffer[c]
    BY ChallengesAssumption DEF OutgoingChallenge
  <2>2. made[c][u] \in Nat
    BY DEF Inv, TypeOK
  <2> QED
    BY <2>1, <2>2
<1>1. PICK n \in 1 .. MayOffer[c] : n = made[c][u] + 1
  BY <1>0
<1> DEFINE o == <<c, u, n>>
<1>o. o \in Offer /\ o # None
  BY OfferMade, OfferParts
<1>2. /\ made' = [made EXCEPT ![c][u] = n]
      /\ book' = [book EXCEPT ![c][u] = o]
      /\ book[c][u] = None
      /\ UNCHANGED <<here, reader, phantom, work, team, ended>>
  BY <1>1 DEF OutgoingChallenge, threads, Inv, TypeOK
<1>3. told' \in [Conn -> [User -> Offer \cup {None}]]
  <2>1. PICK d \in At(u) : told' = [told EXCEPT ![d][Owner[c]] = o]
    BY <1>1 DEF OutgoingChallenge
  <2> HIDE DEF o
  <2> QED
    BY <1>o, <2>1 DEF Inv, TypeOK
<1>4. o[1] = c /\ o[2] = u /\ o[3] = n
  OBVIOUS
<1>5. /\ made' \in [Conn -> [User -> Nat]]
      /\ made'[c][u] = n
      /\ \A d \in Conn, v \in User : ~(d = c /\ v = u) => made'[d][v] = made[d][v]
  BY <1>0, <1>1, <1>o, <1>2 DEF Inv, TypeOK
<1> HIDE DEF o
<1>6. TypeOK'
  BY <1>0, <1>1, <1>o, <1>2, <1>3, <1>5 DEF Inv, TypeOK
<1>7. ~Made(o) /\ Made(o)' /\ ended[o] = "no" /\ team[o] = None
  <2>1. ~Made(o) /\ Made(o)'
    BY <1>0, <1>1, <1>o, <1>4, <1>5 DEF Made
  <2> QED
    BY <1>0, <1>1, <1>o, <2>1 DEF Inv, MadeInv
<1>8. ASSUME NEW p \in Offer, p # o
      PROVE  Made(p)' <=> Made(p)
  <2>1. /\ p[1] \in Conn /\ p[2] \in User /\ p[3] \in Nat
        /\ p = <<p[1], p[2], p[3]>>
    BY <1>8, OfferParts, ChallengesAssumption
  <2>2. CASE p[1] = c /\ p[2] = u
    <3>1. p[3] # n
      BY <1>8, <2>1, <2>2 DEF o
    <3>2. made[p[1]][p[2]] = n - 1 /\ made'[p[1]][p[2]] = n
      BY <1>0, <1>1, <1>5, <2>2
    <3>3. n \in Nat /\ p[3] \in Nat /\ p[3] # n
      BY <1>0, <1>1, <2>1, <3>1
    <3>4. n >= p[3] <=> n - 1 >= p[3]
      BY <3>3
    <3> QED
      BY <3>2, <3>4 DEF Made
  <2>3. CASE ~(p[1] = c /\ p[2] = u)
    BY <1>5, <2>1, <2>3 DEF Made
  <2> QED
    BY <2>2, <2>3
<1>9. BookInv'
  <2> SUFFICES ASSUME NEW d \in Conn, NEW v \in User, book'[d][v] # None
               PROVE  /\ book'[d][v] = <<d, v, made'[d][v]>>
                      /\ book'[d][v] \in Offer
                      /\ ended'[book'[d][v]] = "no"
    BY DEF BookInv
  <2>1. CASE d = c /\ v = u
    <3>1. book'[d][v] = o
      BY <1>2, <2>1 DEF Inv, TypeOK
    <3> QED
      BY <1>0, <1>1, <1>o, <1>2, <1>5, <1>7, <2>1, <3>1 DEF o
  <2>2. CASE ~(d = c /\ v = u)
    <3>1. book'[d][v] = book[d][v] /\ made'[d][v] = made[d][v]
      BY <1>2, <1>5, <2>2 DEF Inv, TypeOK
    <3> QED
      BY <1>2, <3>1 DEF Inv, BookInv
  <2> QED
    BY <2>1, <2>2
<1>10. MadeInv' /\ TeamInv'
  BY <1>2, <1>7, <1>8 DEF Inv, MadeInv, TeamInv
<1>11. WorkInv'
  BY <1>2, <1>7, <1>8 DEF Inv, WorkInv, TypeOK
<1>12. /\ Status(o) = "none" /\ Status(o)' = "open"
       /\ \A p \in Offer : p # o => Status(p)' = Status(p)
  <2>1. \A p \in Offer : /\ p[3] \in Nat
                          /\ made[p[1]][p[2]] \in Nat
                          /\ made'[p[1]][p[2]] \in Nat
    BY <1>5, OfferParts, ChallengesAssumption DEF Inv, TypeOK
  <2>2. \A p \in Offer : /\ (made[p[1]][p[2]] < p[3]) <=> ~Made(p)
                         /\ (made'[p[1]][p[2]] < p[3]) <=> ~Made(p)'
    BY <2>1 DEF Made
  <2>3. Status(o) = "none"
    BY <1>0, <1>1, <1>o, <1>7, <2>2 DEF Status, Maker, Opponent
  <2>4. Status(o)' = "open"
    BY <1>0, <1>1, <1>o, <1>2, <1>7, <2>2 DEF Status, Maker, Opponent
  <2>5. ASSUME NEW p \in Offer, p # o
        PROVE  Status(p)' = Status(p)
    <3>1. (made'[p[1]][p[2]] < p[3]) <=> (made[p[1]][p[2]] < p[3])
      BY <1>8, <2>2, <2>5
    <3> QED
      BY <1>2, <3>1 DEF Status, Maker, Opponent
  <2> QED
    BY <2>3, <2>4, <2>5
<1>13. Abstract!Make(o)
  BY <1>0, <1>1, <1>o, <1>12, Step DEF Abstract!Make
<1> QED
  BY <1>0, <1>1, <1>o, <1>6, <1>9, <1>10, <1>11, <1>13 DEF Inv

(* The team is put where it was checked for; if that challenge has ended,  *)
(* or was accepted before, nothing follows.                                *)
LEMMA Answering ==
    ASSUME Inv, NEW d \in Conn, EndAccept(d)
    PROVE  /\ Inv'
           /\ \/ \E o \in Offer : Abstract!Accept(o)
              \/ \A o \in Offer : Status(o)' = Status(o)
<1>0. PICK o \in Offer : o = work[d] /\ Made(o)
  BY DEF EndAccept, ReaderGoes, Inv, WorkInv, TypeOK
<1>1. /\ reader[d] = "accepting"
      /\ reader' = [reader EXCEPT ![d] = "ready"]
      /\ team' = [team EXCEPT ![o] = o]
      /\ work' = [work EXCEPT ![d] = None]
      /\ UNCHANGED <<here, phantom, made, book, ended, told>>
  BY <1>0 DEF EndAccept, ReaderGoes
<1>2. o # None /\ o \in Offer /\ Made(o)
  BY <1>0, OfferParts
<1>3. TypeOK'
  BY <1>1, <1>2 DEF Inv, TypeOK
<1>4. BookInv'
  BY <1>1 DEF Inv, BookInv
<1>5. team'[o] = o /\ \A p \in Offer : p # o => team'[p] = team[p]
  BY <1>1, <1>2 DEF Inv, TypeOK
<1>6. TeamInv' /\ MadeInv'
  BY <1>1, <1>2, <1>5 DEF Inv, TeamInv, MadeInv, Made
<1>7. WorkInv'
  BY <1>1 DEF Inv, WorkInv, Made, TypeOK
<1>8. \A p \in Offer : p # o => Status(p)' = Status(p)
  BY <1>1, <1>5 DEF Status, Maker, Opponent
<1>9. ~(made[o[1]][o[2]] < o[3])
  <2>1. o[3] \in Nat /\ made[o[1]][o[2]] \in Nat
    BY <1>2, OfferParts, ChallengesAssumption DEF Inv, TypeOK
  <2> QED
    BY <1>2, <2>1 DEF Made
<1>10. CASE ended[o] = "no" /\ team[o] # o
  <2>1. Status(o) = "open" /\ Status(o)' = "accepted"
    BY <1>1, <1>2, <1>5, <1>9, <1>10 DEF Status, Maker, Opponent
  <2>2. Abstract!Accept(o)
    BY <1>2, <1>8, <2>1, Step DEF Abstract!Accept
  <2> QED
    BY <1>2, <1>3, <1>4, <1>6, <1>7, <2>2 DEF Inv
<1>11. CASE ~(ended[o] = "no" /\ team[o] # o)
  <2>1. Status(o)' = Status(o)
    BY <1>1, <1>2, <1>5, <1>9, <1>11 DEF Status, Maker, Opponent
  <2> QED
    BY <1>3, <1>4, <1>6, <1>7, <1>8, <2>1 DEF Inv
<1> QED
  BY <1>10, <1>11

-----------------------------------------------------------------------------
(* Every step keeps the invariant and does to a challenge what Offers      *)
(* allows.                                                                 *)
LEMMA NextInv ==
    ASSUME Inv, [Next]_vars
    PROVE  /\ Inv'
           /\ \/ Abstract!Next
              \/ \A o \in Offer : Status(o)' = Status(o)
<1>1. UNCHANGED challenges => \A o \in Offer : Status(o)' = Status(o)
  BY DEF challenges, Status
<1>2. ASSUME NEW c \in Conn,
             \/ LogIn(c) \/ Fail(c) \/ FindPhantom(c)
             \/ Disconnect(c) \/ Erase(c) \/ RefuseTeam(c) \/ StartBattle(c)
      PROVE  Inv' /\ \A o \in Offer : Status(o)' = Status(o)
  BY <1>1, <1>2, Going
<1>3. ASSUME NEW c \in Conn, NEW d \in Conn, BeginAccept(c, d)
      PROVE  Inv' /\ \A o \in Offer : Status(o)' = Status(o)
  BY <1>1, <1>3, Accepting
<1>4. ASSUME NEW c \in Conn, NEW u \in User,
             \/ OutgoingChallenge(c, u) \/ WithdrawChallenge(c, u)
             \/ ChallengeTeam(c, u)
      PROVE  Inv' /\ Abstract!Next
  BY <1>4, Challenging, Withdrawing, Playing DEF Abstract!Next
<1>5. ASSUME NEW c \in Conn, NEW d \in Conn, RejectChallenge(c, d)
      PROVE  Inv' /\ Abstract!Next
  BY <1>5, Rejecting DEF Abstract!Next
<1>6. ASSUME NEW c \in Conn, EndAccept(c)
      PROVE  /\ Inv'
             /\ \/ Abstract!Next
                \/ \A o \in Offer : Status(o)' = Status(o)
  BY <1>6, Answering DEF Abstract!Next
<1>7. CASE UNCHANGED vars
  <2>1. UNCHANGED challenges /\ UNCHANGED <<here, reader, phantom, work, told>>
    BY <1>7 DEF vars, challenges
  <2>2. TypeOK'
    BY <2>1 DEF challenges, Inv, TypeOK
  <2> QED
    BY <1>1, <2>1, <2>2, Quiet
<1> QED
  BY <1>2, <1>3, <1>4, <1>5, <1>6, <1>7 DEF Next

(* Every variable keeps its type.                                          *)
THEOREM TypeCorrect == Spec => []TypeOK
<1>1. Inv /\ [Next]_vars => Inv'
  BY NextInv
<1>2. Inv => TypeOK
  BY DEF Inv
<1> QED
  BY InitInv, <1>1, <1>2, PTL DEF Spec

(* The handlers of challenges implement Offers: whatever is found by name  *)
(* while teams are checked, a challenge is played only if it was accepted  *)
(* with a team checked for it, and it ends once.                           *)
THEOREM OffersImplemented == Spec => ImplementsOffers
<1> DEFINE st == [o \in Offer |-> Status(o)]
<1>1. Init => Abstract!Init
  <2> SUFFICES ASSUME Init
               PROVE  st = [o \in Offer |-> "none"]
    BY DEF Abstract!Init
  <2>1. ASSUME NEW o \in Offer
        PROVE  Status(o) = "none"
    <3>1. ended[o] = "no" /\ made[o[1]][o[2]] = 0
      BY <2>1, OfferParts DEF Init
    <3>2. o[3] \in Nat /\ o[3] > 0
      BY <2>1, OfferParts, ChallengesAssumption
    <3> QED
      BY <3>1, <3>2 DEF Status, Maker, Opponent
  <2> QED
    BY <2>1
<1>2. Inv /\ [Next]_vars => Inv' /\ (Abstract!Next \/ st' = st)
  BY NextInv
<1>3. (Abstract!Next \/ st' = st) => [Abstract!Next]_st
  OBVIOUS
<1> QED
  BY InitInv, <1>1, <1>2, <1>3, PTL DEF Spec, ImplementsOffers, Abstract!Spec

-----------------------------------------------------------------------------
(* What the clients are told.  A user is found as one client; who has not  *)
(* come yet has heard nothing.                                             *)
HereInv ==
    /\ \A d \in Conn : reader[d] = "none" =>
            d \notin here /\ \A u \in User : told[d][u] = None
    /\ \A d, e \in here : Owner[d] = Owner[e] => d = e

(* A challenge that was heard of and has not ended is in the book of its   *)
(* maker, who has still to pass through disconnect.                        *)
Heard(d, u) ==
    told[d][u] # None =>
        /\ Made(told[d][u])
        /\ Owner[Maker(told[d][u])] = u
        /\ Opponent(told[d][u]) = Owner[d]
        /\ ended[told[d][u]] # "withdrawn"
        /\ ended[told[d][u]] = "no" =>
                /\ book[Maker(told[d][u])][Owner[d]] = told[d][u]
                /\ reader[Maker(told[d][u])] \notin {"erase", "done"}
ToldInv == \A d \in here : \A u \in User : Heard(d, u)

HearInv == HereInv /\ ToldInv

Ready(c) == reader[c] \notin {"none", "erase", "done"}

(* Whoever is told nothing new hears no less of the truth.                 *)
LEMMA NothingNew ==
    ASSUME Inv, HearInv, UNCHANGED <<made, book, ended>>,
           here' \subseteq here,
           \A c \in Conn : reader'[c] = reader[c] \/ (Ready(c) /\ Ready(c)'),
           \A d \in Conn, u \in User : told'[d][u] \in {told[d][u], None}
    PROVE  HearInv'
<1>1. \A c \in Conn : /\ reader'[c] = "none" => reader[c] = "none"
                      /\ reader'[c] \in {"erase", "done"}
                                => reader[c] \in {"erase", "done"}
  BY DEF Ready
<1>2. HereInv'
  BY <1>1 DEF HearInv, HereInv
<1>3. ASSUME NEW d \in here', NEW u \in User, told'[d][u] # None
      PROVE  Heard(d, u)'
  <2>1. d \in here /\ d \in Conn /\ told'[d][u] = told[d][u] /\ told[d][u] # None
    BY <1>3 DEF Inv, TypeOK
  <2>2. Maker(told[d][u]) \in Conn
    BY <2>1, OfferParts DEF Inv, TypeOK, Maker
  <2> QED
    BY <1>1, <2>1, <2>2 DEF HearInv, ToldInv, Heard, Made, Maker, Opponent
<1> QED
  BY <1>2, <1>3 DEF HearInv, ToldInv, Heard

LEMMA HearLogIn ==
    ASSUME Inv, HearInv, NEW c \in Conn, LogIn(c)
    PROVE  HearInv'
<1>1. /\ At(Owner[c]) = {} /\ reader[c] = "none"
      /\ reader' = [reader EXCEPT ![c] = "ready"]
      /\ here' = here \cup {c}
      /\ UNCHANGED <<made, book, ended, told>>
  BY DEF LogIn, ReaderGoes, challenges
<1>2. /\ \A d \in Conn : reader'[d] = IF d = c THEN "ready" ELSE reader[d]
      /\ here \subseteq Conn
  BY <1>1 DEF Inv, TypeOK
<1>3. \A d \in here : Owner[d] # Owner[c]
  BY <1>1 DEF At
<1>4. HereInv'
  BY <1>1, <1>2, <1>3 DEF HearInv, HereInv
<1>5. ASSUME NEW d \in here', NEW u \in User, told'[d][u] # None
      PROVE  Heard(d, u)'
  <2>1. d \in here /\ told[d][u] # None
    BY <1>1, <1>5 DEF HearInv, HereInv
  <2>2. Heard(d, u) /\ Maker(told[d][u]) \in Conn
    BY <1>2, <2>1, OfferParts DEF HearInv, ToldInv, Inv, TypeOK, Maker
  <2> QED
    BY <1>1, <1>2, <2>2 DEF Heard, Made, Maker, Opponent
<1> QED
  BY <1>4, <1>5 DEF HearInv, ToldInv, Heard

(* The reader tells all it has challenged before it stops.                 *)
LEMMA HearDisconnect ==
    ASSUME Inv, HearInv, NEW c \in Conn, Disconnect(c)
    PROVE  HearInv'
<1>1. /\ UNCHANGED <<here, made, book, ended>>
      /\ \A d \in Conn, u \in User :
            told'[d][u] = IF u = Owner[c] /\ d \in here
                                         /\ book[c][Owner[d]] # None
                          THEN None ELSE told[d][u]
  BY DEF Disconnect, challenges
<1>2. CASE UNCHANGED reader
  <2>1. \A d \in Conn : reader'[d] = reader[d] \/ (Ready(d) /\ Ready(d)')
    BY <1>2
  <2>2. \A d \in Conn, u \in User : told'[d][u] \in {told[d][u], None}
    BY <1>1
  <2>3. here' \subseteq here /\ UNCHANGED <<made, book, ended>>
    BY <1>1
  <2> QED
    BY <2>1, <2>2, <2>3, NothingNew
<1>3. CASE ReaderGoes(c, "disconnect", "erase")
  <2>1. /\ reader[c] = "disconnect"
        /\ \A d \in Conn : reader'[d] = IF d = c THEN "erase" ELSE reader[d]
    BY <1>3 DEF ReaderGoes, Inv, TypeOK
  <2>2. HereInv'
    BY <1>1, <2>1 DEF HearInv, HereInv
  <2>3. ASSUME NEW d \in here', NEW u \in User, told'[d][u] # None
        PROVE  Heard(d, u)'
    <3>1. /\ d \in here /\ d \in Conn /\ told'[d][u] = told[d][u]
          /\ told[d][u] # None
      BY <1>1, <2>3 DEF Inv, TypeOK
    <3>2. Heard(d, u) /\ Maker(told[d][u]) \in Conn
      BY <3>1, OfferParts DEF HearInv, ToldInv, Inv, TypeOK, Maker
    <3>3. ended[told[d][u]] = "no" => Maker(told[d][u]) # c
      BY <1>1, <2>3, <3>1, <3>2 DEF Heard
    <3> QED
      BY <1>1, <2>1, <3>1, <3>2, <3>3 DEF Heard, Made, Maker, Opponent
  <2> QED
    BY <2>2, <2>3 DEF HearInv, ToldInv, Heard
<1>4. ReaderGoes(c, "disconnect", "erase") \/ UNCHANGED reader
  BY DEF Disconnect, Proceeds
<1> QED
  BY <1>2, <1>3, <1>4

LEMMA HearErase ==
    ASSUME Inv, HearInv, NEW c \in Conn, Erase(c)
    PROVE  HearInv'
<1>1. /\ UNCHANGED <<made, book, ended, told>>
      /\ here' = here \ {c}
  BY DEF Erase, challenges
<1>2. CASE UNCHANGED reader
  <2>1. \A d \in Conn : reader'[d] = reader[d] \/ (Ready(d) /\ Ready(d)')
    BY <1>2
  <2>2. \A d \in Conn, u \in User : told'[d][u] \in {told[d][u], None}
    BY <1>1
  <2>3. here' \subseteq here /\ UNCHANGED <<made, book, ended>>
    BY <1>1
  <2> QED
    BY <2>1, <2>2, <2>3, NothingNew
<1>3. CASE ReaderGoes(c, "erase", "done")
  <2>1. /\ reader[c] = "erase"
        /\ \A d \in Conn : reader'[d] = IF d = c THEN "done" ELSE reader[d]
    BY <1>3 DEF ReaderGoes, Inv, TypeOK
  <2>2. HereInv'
    BY <1>1, <2>1 DEF HearInv, HereInv
  <2>3. ASSUME NEW d \in here', NEW u \in User, told'[d][u] # None
        PROVE  Heard(d, u)'
    <3>1. d \in here /\ told[d][u] # None
      BY <1>1, <2>3
    <3>2. Heard(d, u) /\ Maker(told[d][u]) \in Conn
      BY <3>1, OfferParts DEF HearInv, ToldInv, Inv, TypeOK, Maker
    <3> QED
      BY <1>1, <2>1, <3>2 DEF Heard, Made, Maker, Opponent
  <2> QED
    BY <2>2, <2>3 DEF HearInv, ToldInv, Heard
<1>4. ReaderGoes(c, "erase", "done") \/ UNCHANGED reader
  BY DEF Erase, Proceeds
<1> QED
  BY <1>2, <1>3, <1>4

(* A challenge that ends is heard of no more, or is known to be over.      *)
LEMMA HearEnding ==
    ASSUME Inv, HearInv, NEW c \in Conn, NEW u \in User, NEW how,
           how \in {"withdrawn", "rejected", "played"},
           book[c][u] # None,
           book' = [book EXCEPT ![c][u] = None],
           ended' = [ended EXCEPT ![book[c][u]] = how],
           UNCHANGED <<here, made>>,
           \A e \in Conn : reader'[e] = reader[e] \/ (Ready(e) /\ Ready(e)'),
           \A d \in Conn, w \in User : told'[d][w] \in {told[d][w], None},
           how = "withdrawn" =>
                \A d \in here, w \in User : told'[d][w] # book[c][u]
    PROVE  HearInv'
<1>1. \A e \in Conn : /\ reader'[e] = "none" => reader[e] = "none"
                      /\ reader'[e] \in {"erase", "done"}
                                => reader[e] \in {"erase", "done"}
  BY DEF Ready
<1>2. HereInv'
  BY <1>1 DEF HearInv, HereInv
<1>3. ASSUME NEW d \in here', NEW w \in User, told'[d][w] # None
      PROVE  Heard(d, w)'
  <2>1. d \in here /\ d \in Conn /\ told'[d][w] = told[d][w] /\ told[d][w] # None
    BY <1>3 DEF Inv, TypeOK
  <2>2. told[d][w] \in Offer /\ Maker(told[d][w]) \in Conn /\ Owner[d] \in User
    <3>1. told[d][w] \in Offer
      BY <2>1 DEF Inv, TypeOK
    <3>2. Owner[d] \in User
      BY <2>1, ChallengesAssumption
    <3> QED
      BY <3>1, <3>2, OfferParts DEF Maker
  <2>3. Heard(d, w)
    BY <2>1 DEF HearInv, ToldInv
  <2>4. CASE told[d][w] = book[c][u]
    <3>1. ended'[told[d][w]] = how /\ how # "withdrawn"
      BY <2>1, <2>2, <2>4 DEF Inv, TypeOK
    <3>2. how # "no"
      OBVIOUS
    <3> QED
      BY <2>1, <2>3, <3>1, <3>2 DEF Heard, Made, Maker, Opponent
  <2>5. CASE told[d][w] # book[c][u]
    <3>1. ended'[told[d][w]] = ended[told[d][w]]
      BY <2>2, <2>5 DEF Inv, TypeOK
    <3>2. \A e \in Conn, v \in User : book[e][v] = told[d][w]
                => book'[e][v] = told[d][w]
      BY <2>5 DEF Inv, TypeOK
    <3> QED
      BY <1>1, <2>1, <2>2, <2>3, <3>1, <3>2 DEF Heard, Made, Maker, Opponent
  <2> QED
    BY <2>4, <2>5
<1> QED
  BY <1>2, <1>3 DEF HearInv, ToldInv, Heard

(* The one client of the opponent is told that it is withdrawn.            *)
LEMMA HearWithdraw ==
    ASSUME Inv, HearInv, NEW c \in Conn, NEW u \in User,
           WithdrawChallenge(c, u)
    PROVE  HearInv'
<1>1. /\ book[c][u] # None
      /\ book' = [book EXCEPT ![c][u] = None]
      /\ ended' = [ended EXCEPT ![book[c][u]] = "withdrawn"]
      /\ UNCHANGED <<here, made, reader>>
  BY DEF WithdrawChallenge, threads
<1>2. PICK d \in At(u) : told' = [told EXCEPT ![d][Owner[c]] = None]
  BY DEF WithdrawChallenge
<1>3. d \in here /\ d \in Conn /\ Owner[d] = u
  BY DEF At, Inv, TypeOK
<1>4. \A e \in Conn, w \in User :
        told'[e][w] = IF e = d /\ w = Owner[c] THEN None ELSE told[e][w]
  BY <1>2 DEF Inv, TypeOK
<1>5. /\ book[c][u] \in Offer
      /\ Maker(book[c][u]) = c /\ Opponent(book[c][u]) = u
  BY <1>1 DEF Inv, BookInv, Maker, Opponent
<1>6. ASSUME NEW e \in here, NEW w \in User, told'[e][w] = book[c][u]
      PROVE  FALSE
  <2>1. e \in Conn /\ told[e][w] = book[c][u]
    BY <1>1, <1>4, <1>6 DEF Inv, TypeOK
  <2>2. w = Owner[c] /\ Owner[e] = u
    BY <1>1, <1>5, <2>1 DEF HearInv, ToldInv, Heard
  <2>3. e = d
    BY <1>3, <2>2 DEF HearInv, HereInv
  <2> QED
    BY <1>1, <1>4, <1>6, <2>1, <2>2, <2>3
<1> QED
  BY <1>1, <1>4, <1>6, HearEnding, ZenonT(60)

LEMMA HearReject ==
    ASSUME Inv, HearInv, NEW d \in Conn, NEW c \in Conn, RejectChallenge(d, c)
    PROVE  HearInv'
<1> DEFINE u == Owner[d]
<1>1. u \in User
  BY ChallengesAssumption
<1>2. /\ book[c][u] # None
      /\ book' = [book EXCEPT ![c][u] = None]
      /\ ended' = [ended EXCEPT ![book[c][u]] = "rejected"]
      /\ UNCHANGED <<here, reader, made, told>>
  BY DEF RejectChallenge, threads
<1> QED
  BY <1>1, <1>2, HearEnding

LEMMA HearPlay ==
    ASSUME Inv, HearInv, NEW c \in Conn, NEW u \in User, ChallengeTeam(c, u)
    PROVE  HearInv'
<1>1. /\ book[c][u] # None
      /\ book' = [book EXCEPT ![c][u] = None]
      /\ ended' = [ended EXCEPT ![book[c][u]] = "played"]
      /\ reader[c] = "ready"
      /\ reader' = [reader EXCEPT ![c] = "starting"]
      /\ UNCHANGED <<here, made, told>>
  BY DEF ChallengeTeam, ReaderGoes
<1>2. \A e \in Conn : reader'[e] = reader[e] \/ (Ready(e) /\ Ready(e)')
  BY <1>1 DEF Ready, Inv, TypeOK
<1> QED
  BY <1>1, <1>2, HearEnding

(* The opponent is told of what is put into the book.                      *)
LEMMA HearChallenge ==
    ASSUME Inv, HearInv, NEW c \in Conn, NEW u \in User,
           OutgoingChallenge(c, u)
    PROVE  HearInv'
<1>1. /\ made[c][u] \in Nat /\ made[c][u] < MayOffer[c]
      /\ MayOffer[c] \in Nat /\ Owner[c] \in User
  <2>1. MayOffer[c] \in Nat /\ Owner[c] \in User
    BY ChallengesAssumption
  <2>2. made[c][u] \in Nat
    BY DEF Inv, TypeOK
  <2>3. made[c][u] < MayOffer[c]
    BY DEF OutgoingChallenge
  <2> QED
    BY <2>1, <2>2, <2>3
<1>2. PICK n \in 1 .. MayOffer[c] : n = made[c][u] + 1
  BY <1>1
<1>3. PICK o \in Offer : o = <<c, u, n>>
  BY OfferMade
<1>4. /\ book[c][u] = None /\ reader[c] = "ready"
      /\ made' = [made EXCEPT ![c][u] = n]
      /\ book' = [book EXCEPT ![c][u] = o]
      /\ UNCHANGED <<here, reader, ended>>
  BY <1>2, <1>3 DEF OutgoingChallenge, threads
<1>5. PICK d \in At(u) : told' = [told EXCEPT ![d][Owner[c]] = o]
  BY <1>2, <1>3 DEF OutgoingChallenge
<1>6. d \in Conn /\ Owner[d] = u
  BY DEF At, Inv, TypeOK
<1>7. \A e \in Conn, w \in User :
        /\ told'[e][w] = IF e = d /\ w = Owner[c] THEN o ELSE told[e][w]
        /\ book'[e][w] = IF e = c /\ w = u THEN o ELSE book[e][w]
        /\ made'[e][w] = IF e = c /\ w = u THEN n ELSE made[e][w]
  BY <1>4, <1>5 DEF Inv, TypeOK
<1>8. ended[o] = "no"
  BY <1>1, <1>2, <1>3 DEF Inv, MadeInv, Made
<1>9. HereInv'
  <2>1. ASSUME NEW e \in Conn, reader'[e] = "none"
        PROVE  e \notin here' /\ \A w \in User : told'[e][w] = None
    BY <1>4, <1>5, <1>7, <2>1 DEF HearInv, HereInv, At
  <2> QED
    BY <1>4, <2>1 DEF HearInv, HereInv
<1>10. ASSUME NEW e \in here', NEW w \in User, told'[e][w] # None
       PROVE  Heard(e, w)'
  <2>1. e \in here /\ e \in Conn /\ Owner[e] \in User
    BY <1>4, ChallengesAssumption DEF Inv, TypeOK
  <2>2. CASE e = d /\ w = Owner[c]
    <3>1. told'[e][w] = o
      BY <1>6, <1>7, <1>1, <2>2
    <3>2. /\ Maker(o) = c /\ Opponent(o) = u /\ o[1] = c /\ o[2] = u /\ o[3] = n
      BY <1>3 DEF Maker, Opponent
    <3>3. Made(o)'
      BY <1>2, <1>7, <3>2 DEF Made
    <3> QED
      BY <1>4, <1>6, <1>7, <1>8, <2>2, <3>1, <3>2, <3>3 DEF Heard, Made, Maker, Opponent
  <2>3. CASE ~(e = d /\ w = Owner[c])
    <3>1. told'[e][w] = told[e][w] /\ told[e][w] # None
      BY <1>7, <1>10, <2>1, <2>3
    <3>2. Heard(e, w) /\ told[e][w] \in Offer
      BY <2>1, <3>1 DEF HearInv, ToldInv, Inv, TypeOK
    <3>3. Maker(told[e][w]) \in Conn /\ Opponent(told[e][w]) \in User
      BY <3>2, OfferParts DEF Maker, Opponent
    <3>4. Made(told[e][w])'
      <4>1. /\ told[e][w][1] \in Conn /\ told[e][w][2] \in User
            /\ told[e][w][3] \in Nat
            /\ made[told[e][w][1]][told[e][w][2]] >= told[e][w][3]
        BY <3>1, <3>2, OfferParts DEF Heard, Made
      <4> QED
        BY <1>1, <1>2, <1>7, <3>1, <4>1 DEF Made
    <3>5. ended[told[e][w]] = "no" =>
            book'[Maker(told[e][w])][Owner[e]] = told[e][w]
      BY <1>4, <1>7, <2>1, <3>1, <3>2, <3>3 DEF Heard
    <3> QED
      BY <1>4, <3>1, <3>2, <3>4, <3>5 DEF Heard, Made, Maker, Opponent
  <2> QED
    BY <2>2, <2>3
<1> QED
  BY <1>9, <1>10 DEF HearInv, ToldInv, Heard

LEMMA HearNext ==
    ASSUME Inv, HearInv, [Next]_vars
    PROVE  HearInv'
<1> USE DEF threads, challenges
<1>1. ASSUME NEW c \in Conn,
             \/ Fail(c) \/ FindPhantom(c) \/ RefuseTeam(c)
             \/ StartBattle(c) \/ EndAccept(c)
             \/ \E d \in Conn : BeginAccept(c, d)
      PROVE  HearInv'
  <2>1. /\ UNCHANGED <<here, made, book, ended, told>>
        /\ \/ UNCHANGED reader
           \/ /\ reader[c] \in {"ready", "accepting", "starting"}
              /\ \E to \in {"ready", "accepting", "disconnect"} :
                    reader' = [reader EXCEPT ![c] = to]
    BY <1>1 DEF Fail, FindPhantom, RefuseTeam, StartBattle, EndAccept,
                BeginAccept, ReaderGoes
  <2>2. \A e \in Conn : reader'[e] = reader[e] \/ (Ready(e) /\ Ready(e)')
    BY <2>1 DEF Ready, Inv, TypeOK
  <2> QED
    BY <2>1, <2>2, NothingNew
<1>2. ASSUME NEW c \in Conn, LogIn(c) \/ Disconnect(c) \/ Erase(c)
      PROVE  HearInv'
  BY <1>2, HearLogIn, HearDisconnect, HearErase
<1>3. ASSUME NEW c \in Conn, NEW u \in User,
             \/ OutgoingChallenge(c, u) \/ WithdrawChallenge(c, u)
             \/ ChallengeTeam(c, u)
      PROVE  HearInv'
  BY <1>3, HearChallenge, HearWithdraw, HearPlay
<1>4. ASSUME NEW c \in Conn, NEW d \in Conn, RejectChallenge(c, d)
      PROVE  HearInv'
  BY <1>4, HearReject
<1>5. CASE UNCHANGED vars
  BY <1>5, NothingNew DEF vars
<1> QED
  BY <1>1, <1>2, <1>3, <1>4, <1>5 DEF Next

(* Nobody who is connected is left with a challenge that was withdrawn or  *)
(* whose maker has gone: removeClient, run by either thread, and the last  *)
(* message of a client may come in any order.                              *)
THEOREM NobodyWaits == Spec => []NobodyWaitsInVain
<1>1. Init => HearInv
  BY DEF Init, HearInv, HereInv, ToldInv
<1>2. Inv /\ [Next]_vars => Inv'
  BY NextInv
<1>3. Inv /\ HearInv /\ [Next]_vars => HearInv'
  BY HearNext
<1>4. Inv /\ HearInv => NobodyWaitsInVain
  <2> SUFFICES ASSUME Inv, HearInv, NEW d \in here, NEW u \in User,
                      told[d][u] # None
               PROVE  \/ ended[told[d][u]] \in {"rejected", "played"}
                      \/ /\ ended[told[d][u]] = "no"
                         /\ ~(/\ reader[Maker(told[d][u])] = "done"
                              /\ phantom[Maker(told[d][u])] = "idle")
    BY DEF NobodyWaitsInVain
  <2>1. d \in Conn /\ told[d][u] \in Offer
    BY DEF Inv, TypeOK
  <2>2. ended[told[d][u]] \in {"no", "withdrawn", "rejected", "played"}
    BY <2>1 DEF Inv, TypeOK
  <2>3. Heard(d, u)
    BY DEF HearInv, ToldInv
  <2> QED
    BY <2>2, <2>3 DEF Heard
<1> QED
  BY InitInv, <1>1, <1>2, <1>3, <1>4, PTL DEF Spec

=============================================================================
