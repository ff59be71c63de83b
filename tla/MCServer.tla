------------------------------ MODULE MCServer ------------------------------
(* Parts of the server around its battles, one at a time, for they share   *)
(* no state: channels, accounts and the ladder, the pool of script         *)
(* contexts, messages on the wire, the rooms of battles, metagames, and    *)
(* the process that serves.                                                *)
EXTENDS Channels, Accounts, Contexts, Wire, Rooms, Metagames, Daemon, TLC

CONSTANTS o, v, a, b, a1, a2, b1, m1, m2, u1, u2

(* Channels: an operator who cannot be kicked, and a user.                 *)
OneOperator == [c \in Client |-> IF c = o THEN {"protected", "op"} ELSE {}]

(* Accounts: two connections of one user, who both register, and one of    *)
(* another.  They ask for any name, now and again; or each asks for his    *)
(* own until he is logged in, and they play, and while there are battles   *)
(* nobody logs in.                                                         *)
Names == (a1 :> a) @@ (a2 :> a) @@ (b1 :> b)
LogInAndPlay ==
    /\ \A c \in Connection : asked'[c] \in {NameOf[c], Unset}
    /\ authenticated \cap challenged' = {}
    /\ \/ \A match \in Battle : battle'[match].at = "none"
       \/ challenged' = {} /\ \A c \in Connection : step'[c] = "idle"

(* Messages: the server sends two, of one thread or of two, or the client  *)
(* sends two.                                                              *)
OneEach == <<1, 1>>

(* Rooms: two users whom the matchmaker pairs, and one of whom challenges  *)
(* the other.                                                              *)
TheirFights == [t \in User \cup {Matchmaker} |->
    IF t = Matchmaker THEN {<<u1, u2>>} ELSE IF t = u2 THEN {<<u2, u1>>} ELSE {}]

(* Metagames: two of one generation, the first of which bans one species   *)
(* that there is and one that there is not, and one of another, whose      *)
(* timer lacks a number.                                                   *)
Timed == [pool |-> 300, periods |-> 2, periodLength |-> 30]
Element(name, size, length, banned, clauses, timer) ==
    [id |-> name, partySize |-> size, teamLength |-> length, bans |-> banned,
     clauses |-> clauses, timer |-> timer]
TheFile ==
    <<<<Element("standard", 1, 2, {"Mew", "Missingno"}, {"Species"}, Timed),
        Element("doubles", 2, 1, {}, {}, Off)>>,
      <<Element("best", 1, 1, {}, {"Mono"}, [Timed EXCEPT !.pool = -1])>>>>
Species == [Mew |-> 1, Abra |-> 2, Onix |-> 3]
TheClauses == <<"Species", "Mono">>
TheTeams == {<<2>>, <<1>>, <<3, 2>>, <<2, 2>>}
TheRefused == [Species |-> {<<2, 2>>}, Mono |-> {<<3>>, <<3, 2>>}]
TheTerms ==
    {t \in [generation : {0, 1}, partySize : {1}, teamLength : {1, 2}, metagame : -1 .. 1,
            clauses : {{}, {0}, {0, 1}, {1, 3}}, timer : {Off, Timed}] :
        t.metagame /= -1 => t.clauses = {} /\ t.timer = Off}

Alike == Permutations(Battle) \cup Permutations(Worker)

-----------------------------------------------------------------------------
VARIABLE part

ServerInit ==
    /\ part \in {"channels", "names", "ladder", "contexts", "writing", "reading", "rooms",
                "metagames", "daemon"}
    /\ Init /\ AccountsInit /\ ContextsInit /\ WireInit /\ RoomsInit
    /\ MetagamesInit /\ DaemonInit

ServerNext ==
    /\ UNCHANGED part
    /\ \/ /\ part = "channels" /\ Next
          /\ UNCHANGED <<accountVars, ctxVars, wireVars, roomVars, gameVars, daemonVars>>
       \/ /\ part = "names" /\ \E c \in Connection : Handles(c)
          /\ UNCHANGED <<vars, ctxVars, wireVars, roomVars, gameVars, daemonVars>>
       \/ /\ part = "ladder" /\ AccountsNext /\ LogInAndPlay
          /\ UNCHANGED <<vars, ctxVars, wireVars, roomVars, gameVars, daemonVars>>
       \/ /\ part = "contexts" /\ ContextsNext
          /\ UNCHANGED <<vars, accountVars, wireVars, roomVars, gameVars, daemonVars>>
       \/ /\ part = "writing" /\ ServerWrites
          /\ UNCHANGED <<vars, accountVars, ctxVars, roomVars, gameVars, daemonVars>>
       \/ /\ part = "reading" /\ ServerReads
          /\ UNCHANGED <<vars, accountVars, ctxVars, roomVars, gameVars, daemonVars>>
       \/ /\ part = "rooms" /\ RoomsNext
          /\ UNCHANGED <<vars, accountVars, ctxVars, wireVars, gameVars, daemonVars>>
       \/ /\ part = "metagames" /\ MetagamesNext
          /\ UNCHANGED <<vars, accountVars, ctxVars, wireVars, roomVars, daemonVars>>
       \/ /\ part = "daemon" /\ DaemonNext
          /\ UNCHANGED <<vars, accountVars, ctxVars, wireVars, roomVars, gameVars>>

ServerSpec ==
    ServerInit /\ [][ServerNext]_<<part, vars, accountVars, ctxVars, wireVars, roomVars, gameVars,
                                   daemonVars>>

=============================================================================
