----------------------------- MODULE Challenges -----------------------------
(***************************************************************************)
(* Challenges between users (ClientImpl's handlers in                      *)
(* src/src/network/network.cpp), while clients leave and come back.        *)
(*                                                                         *)
(* A challenge is kept by the client who made it, under the name of the    *)
(* opponent; the opponent answers it by the name of the challenger.  A     *)
(* handler holds m_challengeMutex of the challenger while it looks at the  *)
(* book of his challenges, but reading and checking the opponent's team    *)
(* is done without it, and the battle begins after it was given back.      *)
(*                                                                         *)
(* A team is abstracted to the challenge whose terms it was checked with.  *)
(* Names are spelled alike everywhere.  Coming and going is abstracted to  *)
(* who is found by getClient and to the two threads that may remove a      *)
(* client (module Lobby has the rest).                                     *)
(*                                                                         *)
(* Definitions named Mutant... are wrong versions of the one that follows; *)
(* they are not used: they are there to see the properties fail.           *)
(***************************************************************************)
EXTENDS Naturals

CONSTANTS
    Conn,           \* connections, each made at most once
    User,
    Owner,          \* Owner[c]: the user who makes connection c
    MayOffer,       \* bound: how often c challenges the same user
    None

Offer == UNION {{c} \X User \X (1 .. MayOffer[c]) : c \in Conn}
Maker(o) == o[1]
Opponent(o) == o[2]

ASSUME ChallengesAssumption ==
    /\ Owner \in [Conn -> User]
    /\ MayOffer \in [Conn -> Nat]
    /\ None \notin Offer

VARIABLES
    here,       \* clients in ServerImpl::m_clients, logged in
    reader,     \* where the worker is that reads from each client
    phantom,    \* where the thread is that removes silent clients
    work,       \* the challenge that the reader's handler is busy with
    made,       \* made[c][u]: how often c has challenged u
    book,       \* book[c][u]: m_challenges of c
    team,       \* team[o]: teams[1], by the challenge it was checked for
    ended,      \* how the challenge ended
    told        \* told[d][u]: the challenge of u that d was told of last

vars == <<here, reader, phantom, work, made, book, team, ended, told>>
threads == <<reader, phantom, work>>
challenges == <<made, book, team, ended>>

ReaderGoes(c, from, to) ==
    /\ reader[c] = from
    /\ reader' = [reader EXCEPT ![c] = to]

(* getClient, of a user.                                                   *)
At(u) == {c \in here : Owner[c] = u}

-----------------------------------------------------------------------------
(* Coming and going.                                                       *)

LogIn(c) ==
    /\ At(Owner[c]) = {}
    /\ ReaderGoes(c, "none", "ready")
    /\ here' = here \cup {c}
    /\ UNCHANGED <<phantom, work, challenges, told>>

(* A read fails, or the message is not allowed or cannot be parsed.        *)
Fail(c) ==
    /\ \/ ReaderGoes(c, "ready", "disconnect")
       \/ ReaderGoes(c, "accepting", "disconnect")
    /\ work' = [work EXCEPT ![c] = None]
    /\ UNCHANGED <<here, phantom, challenges, told>>

FindPhantom(c) ==
    /\ c \in here
    /\ phantom[c] = "idle"
    /\ phantom' = [phantom EXCEPT ![c] = "disconnect"]
    /\ UNCHANGED <<here, reader, work, challenges, told>>

(* Either thread of c goes on with removeClient.                           *)
Proceeds(c, from, toReader, toPhantom) ==
    \/ ReaderGoes(c, from, toReader) /\ UNCHANGED phantom
    \/ /\ phantom[c] = from
       /\ phantom' = [phantom EXCEPT ![c] = toPhantom]
       /\ UNCHANGED reader

(* Who was challenged is told only if no other thread did that before.     *)
MutantDisconnect(c) ==
    /\ Proceeds(c, "disconnect", "erase", "erase")
    /\ told' = [d \in Conn |-> [u \in User |->
                    IF u = Owner[c] /\ {c, d} \subseteq here
                                    /\ book[c][Owner[d]] # None
                    THEN None ELSE told[d][u]]]
    /\ UNCHANGED <<here, work, challenges>>

(* disconnect tells everyone whom c has challenged; the book stays.        *)
Disconnect(c) ==
    /\ Proceeds(c, "disconnect", "erase", "erase")
    /\ told' = [d \in Conn |-> [u \in User |->
                    IF u = Owner[c] /\ d \in here
                                    /\ book[c][Owner[d]] # None
                    THEN None ELSE told[d][u]]]
    /\ UNCHANGED <<here, work, challenges>>

Erase(c) ==
    /\ Proceeds(c, "erase", "done", "idle")
    /\ here' = here \ {c}
    /\ UNCHANGED <<work, challenges, told>>

-----------------------------------------------------------------------------
(* The handlers.                                                           *)

(* handleOutgoingChallenge with terms that are allowed.                    *)
OutgoingChallenge(c, u) ==
    /\ reader[c] = "ready"
    /\ u # Owner[c]
    /\ book[c][u] = None
    /\ made[c][u] < MayOffer[c]
    /\ \E d \in At(u) :
        LET o == <<c, u, made[c][u] + 1>>
        IN  /\ made' = [made EXCEPT ![c][u] = @ + 1]
            /\ book' = [book EXCEPT ![c][u] = o]
            /\ told' = [told EXCEPT ![d][Owner[c]] = o]
    /\ UNCHANGED <<here, threads, team, ended>>

(* handleWithdrawChallenge.                                                *)
WithdrawChallenge(c, u) ==
    /\ reader[c] = "ready"
    /\ book[c][u] # None
    /\ \E d \in At(u) : told' = [told EXCEPT ![d][Owner[c]] = None]
    /\ book' = [book EXCEPT ![c][u] = None]
    /\ ended' = [ended EXCEPT ![book[c][u]] = "withdrawn"]
    /\ UNCHANGED <<here, threads, made, team>>

(* handleResolveChallenge by d, of the challenge that c has made to him,   *)
(* whether or not he has heard of that one.                                *)
RejectChallenge(d, c) ==
    /\ reader[d] = "ready"
    /\ c \in here
    /\ book[c][Owner[d]] # None
    /\ book' = [book EXCEPT ![c][Owner[d]] = None]
    /\ ended' = [ended EXCEPT ![book[c][Owner[d]]] = "rejected"]
    /\ UNCHANGED <<here, threads, made, team, told>>

BeginAccept(d, c) ==
    /\ c \in here
    /\ book[c][Owner[d]] # None
    /\ ReaderGoes(d, "ready", "accepting")
    /\ work' = [work EXCEPT ![d] = book[c][Owner[d]]]
    /\ UNCHANGED <<here, phantom, challenges, told>>

(* The challenge is looked up again to put the team there.                 *)
MutantEndAccept(d) ==
    /\ ReaderGoes(d, "accepting", "ready")
    /\ \A c \in Conn : ~(reader[c] = "starting" /\ work[c] = work[d])
    /\ LET now == book[Maker(work[d])][Owner[d]]
       IN  team' = IF now = None THEN team ELSE [team EXCEPT ![now] = work[d]]
    /\ work' = [work EXCEPT ![d] = None]
    /\ UNCHANGED <<here, phantom, made, book, ended, told>>

(* The team is legal.  The challenge's own mutex is held by one who begins *)
(* to play it.                                                             *)
EndAccept(d) ==
    /\ ReaderGoes(d, "accepting", "ready")
    /\ \A c \in Conn : ~(reader[c] = "starting" /\ work[c] = work[d])
    /\ team' = [team EXCEPT ![work[d]] = work[d]]
    /\ work' = [work EXCEPT ![d] = None]
    /\ UNCHANGED <<here, phantom, made, book, ended, told>>

(* It is not.                                                              *)
RefuseTeam(d) ==
    /\ ReaderGoes(d, "accepting", "ready")
    /\ work' = [work EXCEPT ![d] = None]
    /\ UNCHANGED <<here, phantom, challenges, told>>

(* handleChallengeTeam with a legal team; nothing changes if it is not.    *)
ChallengeTeam(c, u) ==
    /\ book[c][u] # None
    /\ At(u) # {}
    /\ team[book[c][u]] # None
    /\ ReaderGoes(c, "ready", "starting")
    /\ work' = [work EXCEPT ![c] = book[c][u]]
    /\ book' = [book EXCEPT ![c][u] = None]
    /\ ended' = [ended EXCEPT ![book[c][u]] = "played"]
    /\ UNCHANGED <<here, phantom, made, team, told>>

(* The battle is made.                                                     *)
StartBattle(c) ==
    /\ ReaderGoes(c, "starting", "ready")
    /\ work' = [work EXCEPT ![c] = None]
    /\ UNCHANGED <<here, phantom, challenges, told>>

-----------------------------------------------------------------------------
Init ==
    /\ here = {}
    /\ reader = [c \in Conn |-> "none"]
    /\ phantom = [c \in Conn |-> "idle"]
    /\ work = [c \in Conn |-> None]
    /\ made = [c \in Conn |-> [u \in User |-> 0]]
    /\ book = [c \in Conn |-> [u \in User |-> None]]
    /\ team = [o \in Offer |-> None]
    /\ ended = [o \in Offer |-> "no"]
    /\ told = [c \in Conn |-> [u \in User |-> None]]

Next ==
    \E c \in Conn :
        \/ LogIn(c) \/ Fail(c) \/ FindPhantom(c)
        \/ Disconnect(c) \/ Erase(c)
        \/ \E u \in User :
            \/ OutgoingChallenge(c, u)
            \/ WithdrawChallenge(c, u)
            \/ ChallengeTeam(c, u)
        \/ \E d \in Conn : RejectChallenge(c, d) \/ BeginAccept(c, d)
        \/ EndAccept(c) \/ RefuseTeam(c) \/ StartBattle(c)

Spec == Init /\ [][Next]_vars

-----------------------------------------------------------------------------
TypeOK ==
    /\ here \subseteq Conn
    /\ reader \in [Conn -> {"none", "ready", "accepting", "starting",
                            "disconnect", "erase", "done"}]
    /\ phantom \in [Conn -> {"idle", "disconnect", "erase"}]
    /\ work \in [Conn -> Offer \cup {None}]
    /\ made \in [Conn -> [User -> Nat]]
    /\ book \in [Conn -> [User -> Offer \cup {None}]]
    /\ team \in [Offer -> Offer \cup {None}]
    /\ ended \in [Offer -> {"no", "withdrawn", "rejected", "played"}]
    /\ told \in [Conn -> [User -> Offer \cup {None}]]

(* Nobody who is connected is left with a challenge that was withdrawn, or *)
(* that nobody is there to play: whoever leaves has withdrawn what he had  *)
(* offered, even what his last message offered after he was removed.       *)
NobodyWaitsInVain ==
    \A d \in here : \A u \in User : told[d][u] # None =>
        LET o == told[d][u]
            c == Maker(o)
        IN  \/ ended[o] \in {"rejected", "played"}
            \/ ended[o] = "no" /\ ~(reader[c] = "done" /\ phantom[c] = "idle")

(* Whether a challenge of a client is in his book, is accepted and has     *)
(* ended is what Offers says of it: it is played only if the opponent's    *)
(* team was checked with its own terms, and it ends once, although it is   *)
(* found by name by handlers that take their time.                         *)
Status(o) ==
    IF ended[o] # "no" THEN ended[o]
    ELSE IF made[Maker(o)][Opponent(o)] < o[3] THEN "none"
    ELSE IF team[o] = o THEN "accepted" ELSE "open"
Abstract == INSTANCE Offers WITH status <- [o \in Offer |-> Status(o)]
ImplementsOffers == Abstract!Spec

=============================================================================
