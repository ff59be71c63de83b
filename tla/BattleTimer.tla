---------------------------- MODULE BattleTimer ----------------------------
(***************************************************************************)
(* The clocks of a timed battle: class Timer of src/network/NetworkBattle. *)
(* Timer::tick charges both players for the time since the last tick.  It  *)
(* runs on the timer thread, every three seconds, and, through stopTimer,  *)
(* on the worker thread that handles a turn.  The two share m_lastTime     *)
(* without a lock: its reading and writing are steps of their own here, so *)
(* that a second can be charged twice, or given back.  A player's own      *)
(* clock is only touched under its mutex, in one step.                     *)
(*                                                                         *)
(* Turns are counted here, not looked at (see BattleTurns): a player owes  *)
(* one answer per request.  The battle mutex is held by a worker from the  *)
(* beginning of handleTurn to its end ("answering") and by the queue       *)
(* thread while a turn runs.                                               *)
(*                                                                         *)
(* Time is kept as distances to now, so that a battle can go on for ever   *)
(* in finitely many states.                                                *)
(*                                                                         *)
(* Definitions named Mutant... are wrong versions of the one that follows; *)
(* they are not used: they are there to see the properties fail.           *)
(***************************************************************************)
EXTENDS Integers

CONSTANTS
    Pool,          \* m_pool: seconds before the first period
    Periods,       \* m_periods
    PeriodLength,  \* m_periodLength
    Slots,         \* the most answers a player can owe in a round
    MaxLag         \* bound: the longest time between two ticks, and inside one

(* What handleOutgoingChallenge and the list of metagames let through.      *)
ASSUME TimerAssumption ==
    /\ Pool \in Nat \ {0} /\ Periods \in Nat
    /\ PeriodLength \in Int /\ (Periods > 0 => PeriodLength > 0)
    /\ Slots \in Nat \ {0} /\ MaxLag \in Nat \ {0}

Party == 0 .. 1
NoParty == -1
Thread == {"timing", "worker"}

VARIABLES
    lag,        \* time(NULL) - m_lastTime
    remaining,  \* remaining[p] of player p's current pool or period
    periods,    \* periods[p]
    stopped,    \* stopped[p]
    round,      \* the players are being asked, a turn runs, or all is over
    asked,      \* asked[p]: m_requests[p].size()
    owes,       \* owes[p]: asked[p] - m_turns[p].size()
    answering,  \* the player whose turn a worker handles
    pc,         \* where each thread is in tick, or after it
    ago,        \* how long ago it read the clock
    delta,      \* what it will charge
    charged     \* whom it charges

vars == <<lag, remaining, periods, stopped, round, asked, owes, answering, pc,
          ago, delta, charged>>
clocks == <<remaining, periods, stopped>>
turns == <<round, asked, owes, answering>>

-----------------------------------------------------------------------------
(* Timer::tick on thread t.                                                *)

Go(t, from, to) == pc[t] = from /\ pc' = [pc EXCEPT ![t] = to]
Reading(t) == pc[t] \in {"last", "store"}
Charged == [t \in Thread |-> IF t = "timing" THEN "idle" ELSE "stop"]

BeginTick ==
    /\ round # "over"
    /\ Go("timing", "idle", "clock")
    /\ UNCHANGED <<lag, clocks, turns, ago, delta, charged>>

ReadClock(t) ==
    /\ Go(t, "clock", "last")
    /\ ago' = [ago EXCEPT ![t] = 0]
    /\ UNCHANGED <<lag, clocks, turns, delta, charged>>

ReadLast(t) ==
    /\ Go(t, "last", "store")
    /\ delta' = [delta EXCEPT ![t] = lag - ago[t]]
    /\ UNCHANGED <<lag, clocks, turns, ago, charged>>

StoreLast(t) ==
    /\ Go(t, "store", "charge")
    /\ lag' = ago[t]
    /\ UNCHANGED <<clocks, turns, ago, delta, charged>>

ToNext(t) ==
    IF charged[t] = 0
    THEN charged' = [charged EXCEPT ![t] = 1] /\ UNCHANGED <<pc, delta>>
    ELSE /\ pc' = [pc EXCEPT ![t] = Charged[t]]
         /\ charged' = [charged EXCEPT ![t] = 0]
         /\ delta' = [delta EXCEPT ![t] = 0]

(* A period is refilled without being used up.                             *)
MutantCharge(t) ==
    /\ pc[t] = "charge"
    /\ LET i == charged[t]
           diff == remaining[i] - delta[t]
       IN  /\ remaining' = [remaining EXCEPT ![i] =
                                IF stopped[i] THEN @ ELSE
                                IF diff > 0 THEN diff ELSE PeriodLength]
           /\ ToNext(t)
    /\ UNCHANGED <<lag, periods, stopped, turns, ago>>

(* One player.  The comparison comes before the decrement: after the pool  *)
(* come one more period than there are.                                    *)
Charge(t) ==
    /\ pc[t] = "charge"
    /\ LET i == charged[t]
           diff == remaining[i] - delta[t]
       IN  \/ /\ stopped[i]
              /\ ToNext(t)
              /\ UNCHANGED <<remaining, periods>>
           \/ /\ ~stopped[i]
              /\ diff > 0
              /\ remaining' = [remaining EXCEPT ![i] = diff]
              /\ ToNext(t)
              /\ UNCHANGED periods
           \/ /\ ~stopped[i]
              /\ diff <= 0
              /\ periods[i] >= 0
              /\ periods' = [periods EXCEPT ![i] = @ - 1]
              /\ remaining' = [remaining EXCEPT ![i] = PeriodLength + diff]
              /\ ToNext(t)
           \/ /\ ~stopped[i]
              /\ diff <= 0
              /\ periods[i] < 0
              /\ periods' = [periods EXCEPT ![i] = @ - 1]
              /\ pc' = [pc EXCEPT ![t] = "expired"]
              /\ delta' = [delta EXCEPT ![t] = 0]
              /\ UNCHANGED <<remaining, charged>>
    /\ UNCHANGED <<lag, stopped, turns, ago>>

(* The worker waits for the battle mutex, too, which it holds.             *)
MutantExpire(t) ==
    /\ Go(t, "expired", "idle")
    /\ answering = NoParty /\ round # "running"
    /\ round' = "over"
    /\ charged' = [charged EXCEPT ![t] = 0]
    /\ UNCHANGED <<lag, clocks, asked, owes, answering, ago, delta>>

(* timeExpired: the player leaves the battle, which ends it (see           *)
(* BattleLocks); the timer thread has to wait for the battle mutex.        *)
Expire(t) ==
    /\ Go(t, "expired", "idle")
    /\ t = "timing" => answering = NoParty /\ round # "running"
    /\ round' = "over"
    /\ answering' = IF t = "worker" THEN NoParty ELSE answering
    /\ charged' = [charged EXCEPT ![t] = 0]
    /\ UNCHANGED <<lag, clocks, asked, owes, ago, delta>>

-----------------------------------------------------------------------------
(* The turns.                                                              *)

(* handleTurn, up to stopTimer's tick.                                     *)
HandleTurn(p) ==
    /\ round = "asking"
    /\ answering = NoParty
    /\ owes[p] > 0
    /\ owes' = [owes EXCEPT ![p] = @ - 1]
    /\ answering' = p
    /\ Go("worker", "idle", "clock")
    /\ UNCHANGED <<lag, clocks, round, asked, ago, delta, charged>>

(* The rest of stopTimer: once the pool is gone every answer refills the   *)
(* period.                                                                 *)
StopTimer ==
    /\ Go("worker", "stop", "next")
    /\ stopped' = [stopped EXCEPT ![answering] = TRUE]
    /\ remaining' = IF periods[answering] # Periods
                    THEN [remaining EXCEPT ![answering] = PeriodLength]
                    ELSE remaining
    /\ UNCHANGED <<lag, periods, turns, ago, delta, charged>>

(* The clock is not started for the next request of the party.             *)
MutantProceed ==
    /\ Go("worker", "next", "idle")
    /\ answering' = NoParty
    /\ round' = IF \A p \in Party : owes[p] = 0 THEN "running" ELSE round
    /\ UNCHANGED <<lag, clocks, asked, owes, ago, delta, charged>>

(* The rest of handleTurn: the next request of the party, or the turn, or  *)
(* nothing until the other party has answered.                             *)
Proceed ==
    /\ Go("worker", "next", "idle")
    /\ answering' = NoParty
    /\ stopped' = [stopped EXCEPT ![answering] = owes[answering] = 0]
    /\ round' = IF \A p \in Party : owes[p] = 0 THEN "running" ELSE round
    /\ UNCHANGED <<lag, remaining, periods, asked, owes, ago, delta, charged>>

(* cancelAction.                                                           *)
HandleCancelTurn(p) ==
    /\ round = "asking"
    /\ answering = NoParty
    /\ owes[p] \in 1 .. asked[p] - 1
    /\ owes' = [owes EXCEPT ![p] = @ + 1]
    /\ stopped' = [stopped EXCEPT ![p] = FALSE]
    /\ UNCHANGED <<lag, remaining, periods, round, asked, answering, pc, ago,
                   delta, charged>>

Ask(n) ==
    /\ round = "running"
    /\ round' = "asking"
    /\ asked' = n
    /\ owes' = n
    /\ UNCHANGED <<lag, remaining, periods, answering, pc, ago, delta,
                   charged>>

(* beginTurn: requestMoves, which asks both, and beginTicking.             *)
BeginTurn ==
    /\ \E n \in [Party -> 1 .. Slots] : Ask(n)
    /\ stopped' = [p \in Party |-> FALSE]

(* beginTicking is called after replacements were asked for, too.          *)
MutantRequestSome ==
    /\ \E n \in [Party -> 0 .. Slots] : Ask(n) /\ \E p \in Party : n[p] > 0
    /\ stopped' = [p \in Party |-> FALSE]

(* requestReplacements, and requestInactivePokemon in the middle of a turn *)
RequestSome ==
    \E n \in [Party -> 0 .. Slots] :
        /\ \E p \in Party : n[p] > 0
        /\ Ask(n)
        /\ stopped' = [p \in Party |-> n[p] = 0 /\ stopped[p]]

(* The turn decides the battle, or a player leaves between two turns.      *)
EndBattle ==
    /\ round # "over"
    /\ answering = NoParty
    /\ round' = "over"
    /\ UNCHANGED <<lag, clocks, asked, owes, answering, pc, ago, delta,
                   charged>>

-----------------------------------------------------------------------------
(* A second passes.  The bounds: no tick is more than MaxLag late, none is *)
(* interrupted for longer, and none that could give time back is while a   *)
(* player has more than he began with.                                     *)
Advance ==
    /\ round # "over"
    /\ lag < MaxLag
    /\ \A t \in Thread : Reading(t) =>
            ago[t] < MaxLag /\ \A p \in Party : remaining[p] <= Pool
    /\ lag' = lag + 1
    /\ ago' = [t \in Thread |-> IF Reading(t) THEN ago[t] + 1 ELSE 0]
    /\ UNCHANGED <<clocks, turns, pc, delta, charged>>

(* The first turn has been asked for.                                      *)
Init ==
    /\ lag \in 0 .. MaxLag
    /\ remaining = [p \in Party |-> Pool]
    /\ periods = [p \in Party |-> Periods]
    /\ stopped = [p \in Party |-> FALSE]
    /\ round = "asking"
    /\ asked \in [Party -> 1 .. Slots]
    /\ owes = asked
    /\ answering = NoParty
    /\ pc = [t \in Thread |-> "idle"]
    /\ ago = [t \in Thread |-> 0]
    /\ delta = [t \in Thread |-> 0]
    /\ charged = [t \in Thread |-> 0]

Tick(t) ==
    ReadClock(t) \/ ReadLast(t) \/ StoreLast(t) \/ Charge(t) \/ Expire(t)
Timing == BeginTick \/ Tick("timing")
Worker == Tick("worker") \/ StopTimer \/ Proceed
QueueThread == BeginTurn \/ RequestSome
Players == EndBattle \/ \E p \in Party : HandleTurn(p) \/ HandleCancelTurn(p)

Next == Timing \/ Worker \/ QueueThread \/ Players \/ Advance

Spec == Init /\ [][Next]_vars

-----------------------------------------------------------------------------
TypeOK ==
    /\ lag \in Nat
    /\ remaining \in [Party -> Int]
    /\ periods \in [Party -> Int]
    /\ stopped \in [Party -> BOOLEAN]
    /\ round \in {"asking", "running", "over"}
    /\ asked \in [Party -> Nat]
    /\ owes \in [Party -> Nat]
    /\ answering \in Party \cup {NoParty}
    /\ pc \in [Thread -> {"idle", "clock", "last", "store", "charge",
                          "expired", "stop", "next"}]
    /\ ago \in [Thread -> Nat]
    /\ delta \in [Thread -> Int]
    /\ charged \in [Thread -> Party]

(* Whenever no turn is being handled, a player's clock runs if and only if *)
(* he owes an answer: not while he waits for the other player, or for the  *)
(* turn to be executed, and again as soon as he is asked once more, for    *)
(* another slot, a replacement, a choice in the middle of a turn, or after *)
(* he took an answer back.                                                 *)
ClockRunsWhileOwed ==
    (answering = NoParty /\ round # "over") =>
        \A p \in Party : stopped[p] <=> owes[p] = 0

(* Nobody loses on time while it is the other player who is waited for:    *)
(* when a clock is found to have run out, its player owes an answer, or    *)
(* his answer is just being handled.                                       *)
OnlyDebtorsExpire ==
    [][\A t \in Thread : (round # "over" /\ pc[t] # "expired" /\ pc'[t] = "expired") =>
            owes[charged[t]] > 0 \/ answering = charged[t]]_vars

-----------------------------------------------------------------------------
(* Fairness: time passes, both threads that tick run and get the battle    *)
(* mutex.  Nobody has to answer, and no turn has to end.                   *)
Fairness ==
    /\ SF_vars(Advance)
    /\ SF_vars(Timing)
    /\ SF_vars(Worker)

FairSpec == Spec /\ Fairness

(* The players are not asked for ever: who owes an answer gives it or      *)
(* loses on time, unless he takes answers back for ever, which refills his *)
(* period each time he gives them again (possible with two slots or more). *)
RoundEnds ==
    \/ []<>(round # "asking")
    \/ \E p \in Party : []<><<HandleCancelTurn(p)>>_vars

(* A clock that ran out ends the battle, even if the answer arrives while  *)
(* the thread that found it waits for the battle mutex, or if a turn runs  *)
(* meanwhile, provided that turn ends.                                     *)
ExpiryEndsBattle ==
    \A t \in Thread :
        pc[t] = "expired" ~> (round = "over" \/ [](round = "running"))

=============================================================================
