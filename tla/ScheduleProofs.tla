--------------------------- MODULE ScheduleProofs ---------------------------
(***************************************************************************)
(* Proofs about Schedule, for every length of the day, every schedule and  *)
(* every set of other signals.                                             *)
(***************************************************************************)
EXTENDS Schedule, TLAPS

(* The duration given to alarm(2) is less than a day, and zero only in the  *)
(* second of the schedule itself.                                           *)
LEMMA DurationRange ==
    ASSUME now \in 0 .. DayLen - 1
    PROVE  /\ SleepDuration \in 0 .. DayLen - 1
           /\ SleepDuration = 0 <=> now = RunAt
BY DayLenAssumption, RunAtAssumption DEF SleepDuration

(* The type invariant and AlarmArmed are inductive together.                *)
IInv == TypeOK /\ AlarmArmed

LEMMA InitIInv == Init => IInv
<1>. SUFFICES ASSUME Init PROVE IInv
    OBVIOUS
<1>1. 0 \in 0 .. DayLen - 1
    BY DayLenAssumption
<1>2. TypeOK
    BY <1>1 DEF Init, TypeOK
<1>3. AlarmArmed
    BY DEF Init, AlarmArmed
<1>. QED
    BY <1>2, <1>3 DEF IInv

LEMMA NextIInv == ASSUME IInv, [Next]_vars PROVE IInv'
<1>. USE DEF IInv, TypeOK, AlarmArmed, Off
<1>1. CASE Tick
  <2>1. sec' \in 0 .. DayLen - 1
    BY <1>1, DayLenAssumption DEF Tick
  <2>2. timer' \in {Off} \cup 0 .. DayLen - 1 /\ (timer' = Off <=> timer = Off)
    BY <1>1, DayLenAssumption DEF Tick
  <2>. QED
    BY <1>1, <2>1, <2>2 DEF Tick
<1>2. CASE AlarmExpires
    BY <1>2 DEF AlarmExpires
<1>3. CASE \E s \in Signals : Kill(s)
    BY <1>3 DEF Kill
<1>4. CASE RegisterRead
    BY <1>4 DEF RegisterRead
<1>5. CASE RegisterArm
    BY <1>5, DurationRange DEF RegisterArm
<1>6. CASE \E s \in Signals \cup {"ALRM"} : SigWait(s)
  <2>1. PICK s \in Signals \cup {"ALRM"} : SigWait(s)
    BY <1>6
  <2>2. pc' \in {"task", "register", "quit"}
    BY <2>1, SignalsAssumption DEF SigWait
  <2>. QED
    BY <2>1, <2>2 DEF SigWait
<1>7. CASE TaskReturns
    BY <1>7 DEF TaskReturns
<1>8. CASE UNCHANGED vars
    BY <1>8 DEF vars
<1>. QED
    BY <1>1, <1>2, <1>3, <1>4, <1>5, <1>6, <1>7, <1>8 DEF Next, DaemonStep

(* Type correctness: in particular an alarm is never set for later than the *)
(* schedule's next time.                                                    *)
THEOREM TypeCorrect == Spec => []TypeOK
<1>1. IInv => TypeOK
    BY DEF IInv
<1>. QED
    BY <1>1, InitIInv, NextIInv, PTL DEF Spec

(* The scanner sleeps without an alarm only after register_alarm was called *)
(* in the very second of the schedule, whatever signals come in and however *)
(* time and the daemon interleave.                                          *)
THEOREM AlwaysArmed == Spec => []AlarmArmed
<1>1. IInv => AlarmArmed
    BY DEF IInv
<1>. QED
    BY <1>1, InitIInv, NextIInv, PTL DEF Spec
=============================================================================
