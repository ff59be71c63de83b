------------------------- MODULE BattleTimerProofs -------------------------
(* The clocks of module BattleTimer, for every pool, period and number of  *)
(* slots, and without its bound on the delays.                             *)
EXTENDS BattleTimer, TLAPS

(* The strengthening: a worker may only have the clock of the player whose *)
(* answer it handles wrong, while a turn runs no answer is owed, and a     *)
(* worker ticks only while the players are asked.                          *)
ClockInv ==
    /\ TypeOK
    /\ round # "over" =>
            \A p \in Party : p # answering => (stopped[p] <=> owes[p] = 0)
    /\ round = "running" =>
            answering = NoParty /\ \A p \in Party : owes[p] = 0
    /\ pc["worker"] # "idle" => round = "asking" /\ answering \in Party

THEOREM InitClock == Init => ClockInv
  BY TimerAssumption DEF Init, ClockInv, TypeOK, Party, Thread, NoParty

THEOREM NextClock == ClockInv /\ [Next]_vars => ClockInv'
<1> SUFFICES ASSUME ClockInv, [Next]_vars
             PROVE  ClockInv'
  OBVIOUS
<1> USE TimerAssumption DEF ClockInv, TypeOK, turns, clocks, Go
<1>1. CASE BeginTick
  BY <1>1 DEF BeginTick, Thread
<1>2. ASSUME NEW t \in Thread, ReadClock(t)
      PROVE  ClockInv'
  BY <1>2 DEF ReadClock
<1>3. ASSUME NEW t \in Thread, ReadLast(t)
      PROVE  ClockInv'
  BY <1>3 DEF ReadLast
<1>4. ASSUME NEW t \in Thread, StoreLast(t)
      PROVE  ClockInv'
  BY <1>4 DEF StoreLast
<1>5. ASSUME NEW t \in Thread, Charge(t)
      PROVE  ClockInv'
  <2>1. UNCHANGED <<lag, stopped, turns, ago>>
    BY <1>5 DEF Charge
  <2>2. remaining' \in [Party -> Int] /\ periods' \in [Party -> Int]
    BY <1>5 DEF Charge
  <2>3. /\ pc' \in [Thread -> {"idle", "clock", "last", "store", "charge",
                              "expired", "stop", "next"}]
        /\ delta' \in [Thread -> Int]
        /\ charged' \in [Thread -> Party]
    BY <1>5 DEF Charge, ToNext, Charged, Party, Thread
  <2> QED
    BY <1>5, <2>1, <2>2, <2>3, SMTT(60) DEF Charge, ToNext, Charged, Thread
<1>6. ASSUME NEW t \in Thread, Expire(t)
      PROVE  ClockInv'
  BY <1>6, SMTT(60) DEF Expire, Party, NoParty, Thread
<1>7. ASSUME NEW p \in Party, HandleTurn(p)
      PROVE  ClockInv'
  BY <1>7 DEF HandleTurn, Thread, NoParty, Party
<1>8. CASE StopTimer
  <2>1. remaining' \in [Party -> Int]
    BY <1>8 DEF StopTimer
  <2>2. stopped' \in [Party -> BOOLEAN]
    BY <1>8 DEF StopTimer
  <2>3. \A p \in Party : p # answering => stopped'[p] = stopped[p]
    BY <1>8 DEF StopTimer
  <2>4. pc' \in [Thread -> {"idle", "clock", "last", "store", "charge",
                            "expired", "stop", "next"}]
    BY <1>8 DEF StopTimer, Thread
  <2> QED
    BY <1>8, <2>1, <2>2, <2>3, <2>4 DEF StopTimer, Thread
<1>9. CASE Proceed
  <2>1. /\ answering' = NoParty
        /\ stopped' \in [Party -> BOOLEAN]
        /\ \A p \in Party : stopped'[p] =
                IF p = answering THEN owes[p] = 0 ELSE stopped[p]
    BY <1>9 DEF Proceed
  <2>2. pc' \in [Thread -> {"idle", "clock", "last", "store", "charge",
                            "expired", "stop", "next"}]
    BY <1>9 DEF Proceed, Thread
  <2>3. /\ UNCHANGED <<lag, remaining, periods, asked, owes, ago, delta,
                       charged>>
        /\ round' = IF \A p \in Party : owes[p] = 0
                    THEN "running" ELSE round
    BY <1>9 DEF Proceed
  <2>4. round = "asking" /\ answering \in Party
    BY <1>9 DEF Proceed
  <2>5. \A p \in Party : stopped'[p] <=> owes[p] = 0
    BY <2>1, <2>4
  <2> QED
    BY <1>9, <2>1, <2>2, <2>3, <2>4, <2>5 DEF Proceed, Thread
<1>10. ASSUME NEW p \in Party, HandleCancelTurn(p)
       PROVE  ClockInv'
  BY <1>10 DEF HandleCancelTurn, NoParty, Party
<1>11. CASE BeginTurn
  BY <1>11 DEF BeginTurn, Ask
<1>12. CASE RequestSome
  <2>1. PICK n \in [Party -> 0 .. Slots] :
            Ask(n) /\ stopped' = [p \in Party |-> n[p] = 0 /\ stopped[p]]
    BY <1>12 DEF RequestSome
  <2>2. /\ round = "running" /\ round' = "asking"
        /\ asked' \in [Party -> Nat] /\ owes' = n /\ owes' \in [Party -> Nat]
        /\ UNCHANGED <<lag, remaining, periods, answering, pc, ago, delta,
                       charged>>
    BY <2>1 DEF Ask
  <2>3. \A p \in Party : stopped[p]
    BY <2>2 DEF Party, NoParty
  <2>4. stopped' = [p \in Party |-> n[p] = 0]
    BY <2>1, <2>3
  <2> QED
    BY <2>2, <2>4
<1>13. CASE EndBattle
  BY <1>13 DEF EndBattle, Party, NoParty
<1>14. CASE Advance
  <2>1. lag' \in Nat /\ ago' \in [Thread -> Nat]
    BY <1>14 DEF Advance
  <2>2. UNCHANGED <<clocks, turns, pc, delta, charged>>
    BY <1>14 DEF Advance
  <2> QED
    BY <2>1, <2>2
<1>15. CASE UNCHANGED vars
  BY <1>15 DEF vars, Thread, Party, NoParty
<1> HIDE DEF ClockInv, TypeOK, turns, clocks, Go
<1>16. CASE Timing
  BY <1>1, <1>2, <1>3, <1>4, <1>5, <1>6, <1>16 DEF Timing, Tick, Thread
<1>17. CASE Worker
  BY <1>2, <1>3, <1>4, <1>5, <1>6, <1>8, <1>9, <1>17 DEF Worker, Tick, Thread
<1>18. CASE QueueThread
  BY <1>11, <1>12, <1>18 DEF QueueThread
<1>19. CASE Players
  BY <1>7, <1>10, <1>13, <1>19 DEF Players
<1> QED
  BY <1>14, <1>15, <1>16, <1>17, <1>18, <1>19 DEF Next

THEOREM ClockInvariant == Spec => []ClockInv
  BY InitClock, NextClock, PTL DEF Spec

(* The variables keep their types.                                         *)
THEOREM TypeCorrect == Spec => []TypeOK
<1>1. ClockInv => TypeOK
  BY DEF ClockInv
<1> QED
  BY <1>1, ClockInvariant, PTL

(* Between two answers exactly the clocks of those who owe one run: no     *)
(* pause in stopTimer, no request in the middle of a turn and no cancelled *)
(* answer leaves a clock running or stopped by mistake.                    *)
THEOREM RunningClocks == Spec => []ClockRunsWhileOwed
<1>1. ClockInv => ClockRunsWhileOwed
  BY DEF ClockInv, ClockRunsWhileOwed, Party, NoParty
<1> QED
  BY <1>1, ClockInvariant, PTL

(* Whichever of the two threads finds a clock to have run out, however     *)
(* late, twice charged or interrupted its tick was, it is the clock of a   *)
(* player who owes an answer or whose answer is being handled.             *)
THEOREM DebtorsExpire == Spec => OnlyDebtorsExpire
<1>1. ASSUME ClockInv, [Next]_vars, NEW t \in Thread, round # "over",
             pc[t] # "expired", pc'[t] = "expired"
      PROVE  owes[charged[t]] > 0 \/ answering = charged[t]
  <2>1. Charge(t)
    BY <1>1 DEF ClockInv, TypeOK, Next, Timing, Worker, QueueThread, Players,
                Tick, Thread, BeginTick, ReadClock, ReadLast, StoreLast,
                Charge, ToNext, Charged, Expire, StopTimer, Proceed,
                HandleTurn, HandleCancelTurn, BeginTurn, RequestSome, Ask,
                EndBattle, Advance, vars, Go
  <2>2. ~stopped[charged[t]]
    BY <1>1, <2>1 DEF Charge, ToNext, Charged, ClockInv, TypeOK, Thread
  <2>3. charged[t] \in Party /\ owes[charged[t]] \in Nat
    BY <1>1 DEF ClockInv, TypeOK
  <2> QED
    BY <1>1, <2>2, <2>3 DEF ClockInv
<1>2. ClockInv /\ [Next]_vars =>
        [\A t \in Thread :
            (round # "over" /\ pc[t] # "expired" /\ pc'[t] = "expired") =>
                owes[charged[t]] > 0 \/ answering = charged[t]]_vars
  BY <1>1
<1> QED
  BY <1>2, ClockInvariant, PTL DEF Spec, OnlyDebtorsExpire

=============================================================================
