----------------------------- MODULE Spectators -----------------------------
(***************************************************************************)
(* What a spectator knows of a battle: the snapshot he is sent when he     *)
(* joins the channel (BattleChannel::join and prepareSpectator in          *)
(* src/src/network/NetworkBattle.cpp), and the messages that are broadcast *)
(* while moves are executed (the inform... functions of NetworkBattle).    *)
(*                                                                         *)
(* The thread that executes a turn holds the mutex of the battle, and      *)
(* gives it back only while a player is asked whom to send in, in the      *)
(* middle of a move.  Messages to one client arrive in the order in which  *)
(* they are sent.  Health is sent in 48ths; here it is sent as it is.      *)
(***************************************************************************)
EXTENDS Effects

VARIABLES
    revealed,       \* Pokemon::m_revealed
    watching,       \* whether the spectator has joined
    view            \* what he knows: the slots, and of each pokemon its
                    \* health, whether it fainted, its statuses

viewVars == <<revealed, watching, view>>

(* prepareSpectatorStatuses: the statuses in the list, whatever their      *)
(* state.                                                                  *)
StatusesOf(set) == {e.kind : e \in set} \cap Statuses
Listed(p) == StatusesOf(ToSet(effects[p]))

Unknown == [hp |-> MaxHp, down |-> FALSE, status |-> {}]

MutantSnapshot ==
    [on |-> active,
     of |-> [p \in Pokemon |->
               IF p \in revealed /\ OnField(p)
               THEN [hp |-> hp[p], down |-> fainted[p],
                     status |-> IF fainted[p] THEN {} ELSE Listed(p)]
               ELSE Unknown]]
(* prepareSpectator: every pokemon that was revealed; of one that was not, *)
(* nothing has happened to it.                                             *)
Snapshot ==
    [on |-> active,
     of |-> [p \in Pokemon |->
               IF p \in revealed
               THEN [hp |-> hp[p], down |-> fainted[p],
                     status |-> IF fainted[p] THEN {} ELSE Listed(p)]
               ELSE Unknown]]

(* requestInactivePokemon waits for an answer, without the mutex.          *)
Suspended ==
    /\ First("uturn")
    /\ hp[Head(calls).user] > 0
    /\ Reserves(PartyOf[Head(calls).user]) /= {}
    /\ \E q \in Pokemon : PartyOf[q] = PartyOf[Head(calls).on] /\ ~fainted[q]

Watch ==
    /\ ~watching
    /\ Quiet \/ Suspended
    /\ watching' = TRUE
    /\ view' = Snapshot
    /\ UNCHANGED <<vars, revealed>>

(* informHealthChange, informFainted, informSendOut: they name the slot.   *)
Health(p, total) == [view EXCEPT !.of[view.on[PartyOf[p]]].hp = total]
Fainted(p) == [view EXCEPT !.of[view.on[PartyOf[p]]].down = TRUE]
SentOut(p) == [view EXCEPT !.on[PartyOf[p]] = p]
(* informStatusChange, of a pokemon whose list becomes new: it names the   *)
(* pokemon.                                                                *)
Changed(p, new) ==
    LET before == StatusesOf(Living(effects[p]))
        after == StatusesOf(Living(new))
    IN  [view EXCEPT !.of[p].status = (@ \ (before \ after)) \cup (after \ before)]

(* What the first call tells everybody.                                    *)
Message ==
    LET c == Head(calls)
    IN  CASE c.op = "setHp" /\ hp' /= hp -> Health(c.on, hp'[c.on])
          [] c.op = "faint" -> Fainted(c.on)
          [] c.op = "sendOut" -> SentOut(c.on)
          [] c.op \in {"applyStatus", "switchOut"} -> Changed(c.on, effects'[c.on])
          [] OTHER -> view
(* A tick that cures tells of it.                                          *)
TickMessage ==
    LET t == CHOOSE u \in ticks : u \notin ticks'
    IN  Changed(t.on, effects'[t.on])

Battle ==
    /\ \/ /\ Call
          /\ view' = IF watching THEN Message ELSE view
          /\ revealed' = IF First("sendOut") THEN revealed \cup {Head(calls).on}
                         ELSE revealed
       \/ /\ Tick
          /\ view' = IF watching THEN TickMessage ELSE view
          /\ UNCHANGED revealed
       \/ /\ (\E p \in Pokemon : Act(p) \/ Replace(p)) \/ BeginTick \/ EndTick \/ NextTurn
          /\ UNCHANGED <<view, revealed>>
    /\ UNCHANGED watching

WatchInit ==
    /\ Init
    /\ revealed = {active[0], active[1]}
    /\ watching = FALSE
    /\ view = [on |-> active, of |-> [p \in Pokemon |-> Unknown]]

WatchNext == Battle \/ Watch

WatchSpec == WatchInit /\ [][WatchNext]_<<vars, viewVars>>

-----------------------------------------------------------------------------
(* A spectator who joined at any time, in the middle of a suspended move   *)
(* too, sees the battle as it is between two turns: who is in the slots,   *)
(* who fainted, the health of the others, and every status they have.  He  *)
(* may see more: prepareSpectatorStatuses also names the statuses that     *)
(* were removed and are still in the list.                                 *)
SpectatorSees ==
    watching /\ calls = <<>> =>
        /\ view.on = active
        /\ \A p \in Pokemon :
            LET seen == view.of[p]
            IN  /\ seen.down = fainted[p]
                /\ ~fainted[p] => seen.hp = hp[p] /\ StatusesOf(Living(effects[p])) \subseteq seen.status

=============================================================================
