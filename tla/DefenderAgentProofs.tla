------------------------- MODULE DefenderAgentProofs -------------------------
(***************************************************************************)
(* Theorems about DefenderAgent.  The task may be stopped and started again*)
(* between any two functions of its state machine, so that everything rests*)
(* on what each state says about the client and the last report.           *)
(***************************************************************************)
EXTENDS DefenderAgent, TLAPS

\* Where the task can be inside of a state's function.
InFunction ==
    /\ pc \in {"published", "ackWait", "failWait"} => state = "SubscribeMqttSuccess"
    /\ pc = "sleep" => state \in SleepStates
    /\ pc = "published" => told \in {"sent", "accepted", "rejected"}
    /\ pc \in {"ackWait", "failWait"} => told # "never"

IInv ==
    /\ TypeOK /\ InFunction /\ ClientFitsState /\ StatusIsEarned

USE DEF DisconnectStates, DeleteStates, SleepStates, States

LEMMA InitHolds == Init => IInv
<1> SUFFICES ASSUME Init PROVE IInv
  OBVIOUS
<1>1. /\ active \in 0 .. MAX_ACTIVE /\ delay \in 0 .. (TICK_RANGE - 1)
      /\ earlier \in 0 .. MAX_EARLIER
  BY DefenderAssumption DEF Init
<1>2. kill \in BOOLEAN /\ stale \in BOOLEAN
  BY Zenon DEF Init
<1>3. TypeOK
  BY <1>1, <1>2 DEF Init, TypeOK
<1>4. InFunction /\ ClientFitsState /\ StatusIsEarned
  BY DEF Init, InFunction, ClientFitsState, StatusIsEarned
<1> QED BY <1>3, <1>4 DEF IInv

-----------------------------------------------------------------------------
(* prvStateSleep.                                                           *)

LEMMA ModOfPositive ==
    ASSUME NEW n \in Nat \ {0}, NEW x \in 0 .. (n - 1)
    PROVE  x % n = x
OBVIOUS

LEMMA ModOfNegative ==
    ASSUME NEW n \in Nat \ {0}, NEW x \in Int, -n <= x, x < 0
    PROVE  x % n = x + n
OBVIOUS

LEMMA ModIsLess ==
    ASSUME NEW n \in Nat \ {0}, NEW x \in Nat
    PROVE  x % n \in 0 .. (n - 1) /\ x % n <= x
OBVIOUS

LEMMA ProductIsMonotone ==
    ASSUME NEW x \in Nat, NEW y \in Nat, x <= y, NEW r \in Nat
    PROVE  x * r \in Nat /\ y * r \in Nat /\ x * r <= y * r
OBVIOUS

LEMMA ThousandsCancel ==
    ASSUME NEW x \in Nat, NEW y \in Nat, x <= y * 1000
    PROVE  x \div 1000 \in Nat /\ x \div 1000 <= y /\ x \div 1000 <= x
OBVIOUS

\* Where the products wrap around, the result is short of the period, never beyond it.
LEMMA PeriodTicksAreBounded ==
    ASSUME NEW p \in Periods
    PROVE  /\ p \in Nat /\ PeriodTicks(p) \in 0 .. (TICK_RANGE - 1)
           /\ p * TICK_RATE_HZ \in Nat /\ PeriodTicks(p) <= p * TICK_RATE_HZ
<1> DEFINE A == (p * 1000) % TICK_RANGE
           B == (A * TICK_RATE_HZ) % TICK_RANGE
<1>1. p \in Nat /\ TICK_RATE_HZ \in Nat /\ TICK_RANGE \in Nat \ {0}
  BY DefenderAssumption
<1>2. p * 1000 \in Nat
  BY <1>1
<1>3. A \in Nat /\ A <= p * 1000
  <2>1. A \in 0 .. (TICK_RANGE - 1) /\ A <= p * 1000
    BY <1>1, <1>2, ModIsLess, Zenon
  <2> HIDE DEF A
  <2> QED BY <1>1, <2>1
<1>4. /\ A * TICK_RATE_HZ \in Nat /\ (p * 1000) * TICK_RATE_HZ \in Nat
      /\ A * TICK_RATE_HZ <= (p * 1000) * TICK_RATE_HZ
  BY <1>1, <1>2, <1>3, ProductIsMonotone
<1>5. B \in 0 .. (TICK_RANGE - 1) /\ B <= A * TICK_RATE_HZ
  <2> DEFINE C == A * TICK_RATE_HZ
  <2>1. C \in Nat
    BY <1>4
  <2> HIDE DEF C
  <2>2. C % TICK_RANGE \in 0 .. (TICK_RANGE - 1) /\ C % TICK_RANGE <= C
    BY <1>1, <2>1, ModIsLess, Zenon
  <2> USE DEF C
  <2> HIDE DEF A
  <2> QED BY <2>2
<1>6. p * TICK_RATE_HZ \in Nat /\ (p * 1000) * TICK_RATE_HZ = (p * TICK_RATE_HZ) * 1000
  BY <1>1
<1>7. B \in Nat /\ B <= (p * TICK_RATE_HZ) * 1000
  <2> HIDE DEF A, B
  <2> QED BY <1>1, <1>4, <1>5, <1>6
<1>8. B \div 1000 \in Nat /\ B \div 1000 <= p * TICK_RATE_HZ /\ B \div 1000 <= B
  BY <1>6, <1>7, ThousandsCancel
<1>9. PeriodTicks(p) = B \div 1000
  BY DEF PeriodTicks
<1> HIDE DEF B
<1> QED BY <1>1, <1>5, <1>6, <1>8, <1>9

\* If the period has passed, the subtraction wraps around to more than the
\* period's seconds, and the sleep is one tick.
LEMMA SleepEndsInPeriod ==
    ASSUME NEW p \in Periods, NEW a \in 0 .. MAX_ACTIVE
    PROVE  /\ SleepPeriod(p, a) \in 0 .. (TICK_RANGE - 1)
           /\ SleepPeriod(p, a) <= 1 \/ a + SleepPeriod(p, a) <= p * TICK_RATE_HZ
<1> DEFINE P == PeriodTicks(p)
           Q == p * TICK_RATE_HZ
<1>1. /\ p \in Nat /\ P \in 0 .. (TICK_RANGE - 1) /\ Q \in Nat /\ P <= Q
      /\ a \in Nat /\ p + a < TICK_RANGE /\ TICK_RANGE \in Nat \ {0, 1}
  BY PeriodTicksAreBounded, DefenderAssumption
<1>2. SleepPeriod(p, a) = IF (P - a) % TICK_RANGE > p THEN 1 ELSE (P - a) % TICK_RANGE
  BY DEF SleepPeriod
<1> HIDE DEF P, Q
<1>3. CASE a <= P
  <2>1. P - a \in 0 .. (TICK_RANGE - 1)
    BY <1>1, <1>3
  <2>2. (P - a) % TICK_RANGE = P - a
    BY <1>1, <2>1, ModOfPositive
  <2> QED BY <1>1, <1>2, <1>3, <2>2 DEF Q
<1>4. CASE a > P
  <2>1. P - a \in Int /\ -TICK_RANGE <= P - a /\ P - a < 0
    BY <1>1, <1>4
  <2>2. (P - a) % TICK_RANGE = P - a + TICK_RANGE
    BY <1>1, <2>1, ModOfNegative
  <2>3. SleepPeriod(p, a) = 1
    BY <1>1, <1>2, <2>2
  <2> QED BY <1>1, <2>3
<1> QED BY <1>1, <1>3, <1>4

-----------------------------------------------------------------------------
LEMMA StepKeepsType == TypeOK /\ [Next]_vars => TypeOK'
<1> SUFFICES ASSUME TypeOK, [Next]_vars PROVE TypeOK'
  OBVIOUS
<1>1. CASE Start \/ Stop \/ ReportPeriodSet \/ LoopEnds
  BY <1>1 DEF TypeOK, Start, Stop, ReportPeriodSet, LoopEnds, clockVars, serviceVars
<1>2. CASE StateInit \/ StateNewMQTT \/ StateConnectMqtt \/ StateSubscribe \/ NoReport
  BY <1>2 DEF TypeOK, StateInit, StateNewMQTT, StateConnectMqtt, StateSubscribe, NoReport,
              Returns, clockVars, serviceVars
<1>3. CASE PublishIsSent \/ PublishReturns \/ PublishFails \/ WaitForAckEnds
  <2>1. Outdated \in 0 .. MAX_EARLIER /\ ACK_WAIT \in 0 .. (TICK_RANGE - 1)
    BY DefenderAssumption DEF TypeOK, Outdated
  <2> QED
    BY <1>3, <2>1
    DEF TypeOK, PublishIsSent, PublishReturns, PublishFails, WaitForAckEnds, Returns,
        clockVars, serviceVars
<1>4. CASE StateDisconnectMqtt \/ DisconnectFails \/ StateDeleteMqtt
  BY <1>4 DEF TypeOK, StateDisconnectMqtt, DisconnectFails, StateDeleteMqtt, Returns,
              clockVars, serviceVars
<1>5. CASE StateSleep
  BY <1>5, SleepEndsInPeriod DEF TypeOK, StateSleep, serviceVars
<1>6. CASE Wakes \/ Tick
  BY <1>6, DefenderAssumption DEF TypeOK, Wakes, Tick, Returns, serviceVars
<1>7. CASE AnsweredLate
  <2>1. earlier - 1 \in 0 .. MAX_EARLIER
    BY <1>7, DefenderAssumption DEF TypeOK, AnsweredLate
  <2> QED BY <1>7, <2>1 DEF TypeOK, AnsweredLate, clockVars
<1>8. CASE Answered \/ ConnectionLost
  BY <1>8 DEF TypeOK, Answered, ConnectionLost, clockVars, serviceVars
<1>9. CASE UNCHANGED vars
  BY <1>9 DEF TypeOK, vars
<1> QED BY <1>1, <1>2, <1>3, <1>4, <1>5, <1>6, <1>7, <1>8, <1>9 DEF Next, AgentTask

\* What the states say, step by step.
Fits == InFunction /\ ClientFitsState /\ StatusIsEarned

LEMMA StepKeepsFits == IInv /\ [Next]_vars => Fits'
<1> SUFFICES ASSUME IInv, [Next]_vars PROVE Fits'
  OBVIOUS
<1> USE DEF IInv, Fits, TypeOK, InFunction, ClientFitsState, StatusIsEarned
<1>1. CASE Start \/ Stop \/ ReportPeriodSet \/ LoopEnds
  BY <1>1 DEF Start, Stop, ReportPeriodSet, LoopEnds, clockVars, serviceVars
<1>2. CASE StateInit \/ StateNewMQTT \/ NoReport
  BY <1>2 DEF StateInit, StateNewMQTT, NoReport, Calls, Returns, clockVars, serviceVars
<1>3. CASE StateConnectMqtt \/ StateSubscribe
  BY <1>3 DEF StateConnectMqtt, StateSubscribe, Calls, Returns, clockVars, serviceVars
<1>4. CASE PublishIsSent
  BY <1>4 DEF PublishIsSent, Calls, clockVars, serviceVars
<1>5. CASE PublishReturns
  BY <1>5 DEF PublishReturns
<1>6. CASE PublishFails
  BY <1>6 DEF PublishFails, Calls
<1>7. CASE WaitForAckEnds
  BY <1>7 DEF WaitForAckEnds, Returns, clockVars, serviceVars
<1>8. CASE StateDisconnectMqtt \/ DisconnectFails
  BY <1>8 DEF StateDisconnectMqtt, DisconnectFails, Calls, Returns, clockVars, serviceVars
<1>9. CASE StateDeleteMqtt
  BY <1>9 DEF StateDeleteMqtt, Calls, Returns, clockVars, serviceVars
<1>10. CASE StateSleep \/ Wakes
  BY <1>10 DEF StateSleep, Wakes, Calls, Returns, serviceVars
<1>11. CASE Answered \/ AnsweredLate \/ ConnectionLost
  BY <1>11 DEF Answered, AnsweredLate, ConnectionLost, clockVars, serviceVars
<1>12. CASE Tick
  BY <1>12 DEF Tick, serviceVars
<1>13. CASE UNCHANGED vars
  BY <1>13 DEF vars
<1> QED
  BY <1>1, <1>2, <1>3, <1>4, <1>5, <1>6, <1>7, <1>8, <1>9, <1>10, <1>11, <1>12, <1>13
  DEF Next, AgentTask

LEMMA Invariance == Spec => []IInv
<1>1. IInv /\ [Next]_vars => IInv'
  BY StepKeepsType, StepKeepsFits DEF IInv, Fits
<1> QED BY <1>1, InitHolds, PTL DEF Spec

-----------------------------------------------------------------------------
\* The agent's data keep their types; the sleep stays in the range of a tick count.
THEOREM DefenderTypeCorrect == Spec => []TypeOK
BY Invariance, PTL DEF IInv

\* Clients are given back before the next is created, and deleted when closed.
THEOREM ClientsAreGivenBack == Spec => []ClientFitsState
BY Invariance, PTL DEF IInv

\* The status tells what became of the last report, until an answer to an earlier
\* report, of the present round or one before it, comes.
THEOREM StatusIsOfLastReport == Spec => []StatusIsEarned
BY Invariance, PTL DEF IInv

\* No sleep reaches beyond the end of the period, whether or not its milliseconds
\* and ticks fit in 32 bits.
THEOREM SleepsWithinPeriod == Spec => NeverOversleeps
<1>1. IInv /\ [Next]_vars =>
        [StateSleep => delay' <= 1 \/ active + delay' <= period * TICK_RATE_HZ]_vars
  <2> SUFFICES ASSUME IInv, StateSleep
               PROVE  delay' <= 1 \/ active + delay' <= period * TICK_RATE_HZ
    OBVIOUS
  <2>1. period \in Periods /\ active \in 0 .. MAX_ACTIVE
    BY DEF IInv, TypeOK
  <2> QED BY <2>1, SleepEndsInPeriod DEF StateSleep
<1> QED BY <1>1, Invariance, PTL DEF Spec, NeverOversleeps

=============================================================================
