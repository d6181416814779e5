------------------------------ MODULE Schedule ------------------------------
(***************************************************************************)
(* The signal loop of the scanner daemon: before every sigwait it arms an  *)
(* alarm for the next time of the configured schedule, and a task is       *)
(* started by SIGALRM or, by hand, by SIGUSR1.  Seconds are the ticks of   *)
(* the clock; an alarm that is due goes off at some moment of its second.  *)
(***************************************************************************)
EXTENDS Integers, FiniteSets

CONSTANTS
    DayLen,     \* seconds in a day
    RunAt,      \* config.schedule: the second of the day a task is due
    Signals     \* which signals others send to the daemon

ASSUME DayLenAssumption  == DayLen \in Nat \ {0, 1}
ASSUME RunAtAssumption   == RunAt \in 0 .. DayLen - 1
ASSUME SignalsAssumption == Signals \subseteq {"USR1", "USR2", "HUP", "TERM"}

Off == -1     \* no alarm

VARIABLES
    sec,        \* the second of the day
    pc,         \* the main thread: register, arm, wait, task, term, quit
    now,        \* time_now in register_alarm
    timer,      \* seconds until the alarm is due, or Off
    pending,    \* signals that are blocked and wait for sigwait
    missed      \* history: register_alarm armed nothing, or put an alarm off

vars == <<sec, pc, now, timer, pending, missed>>

Init ==
    /\ sec \in 0 .. DayLen - 1
    /\ pc = "register" /\ now = 0
    /\ timer = Off /\ pending = {} /\ missed = FALSE

-----------------------------------------------------------------------------
(* A second passes; an alarm that is due has gone off before.               *)
Tick ==
    /\ timer # 0
    /\ sec' = (sec + 1) % DayLen
    /\ timer' = IF timer = Off THEN Off ELSE timer - 1
    /\ UNCHANGED <<pc, now, pending, missed>>

(* The alarm goes off: SIGALRM is blocked, so it stays pending.             *)
AlarmExpires ==
    /\ timer = 0
    /\ timer' = Off
    /\ pending' = pending \cup {"ALRM"}
    /\ UNCHANGED <<sec, pc, now, missed>>

(* Standard signals do not queue: one that is pending already is lost.      *)
Kill(s) ==
    /\ pc # "quit"
    /\ pending' = pending \cup {s}
    /\ UNCHANGED <<sec, pc, now, timer, missed>>

-----------------------------------------------------------------------------
(* hpssixd_daemon_scanner *)

(* register_alarm up to the comparison: time(NULL) is read.                 *)
RegisterRead ==
    /\ pc = "register"
    /\ now' = sec
    /\ pc' = "arm"
    /\ UNCHANGED <<sec, timer, pending, missed>>

(* Mutant: the first task is always tomorrow's.                             *)
SleepDurationTomorrow == RunAt + DayLen - now

(* Mutant: a time that has passed today is not moved to tomorrow.           *)
SleepDurationToday == IF RunAt < now THEN 0 ELSE RunAt - now

(* Today's time if it is not over, else tomorrow's.                         *)
SleepDuration == IF RunAt < now THEN RunAt + DayLen - now ELSE RunAt - now

(* alarm(2) replaces the alarm there was, and with 0 it arms none.          *)
RegisterArm ==
    /\ pc = "arm"
    /\ timer' = IF SleepDuration = 0 THEN Off ELSE SleepDuration
    /\ missed' = \/ missed
                 \/ now = RunAt
                 \/ timer # Off /\ SleepDuration > timer
    /\ pc' = "wait"
    /\ UNCHANGED <<sec, now, pending>>

(* Mutant: only the signal sent by hand starts a task.                      *)
SigWaitByHandOnly(s) ==
    /\ pc = "wait"
    /\ s \in pending
    /\ pending' = pending \ {s}
    /\ pc' = CASE s = "USR1" -> "task"
               [] s \in {"ALRM", "USR2", "HUP"} -> "register"
               [] s = "TERM" -> "quit"
    /\ UNCHANGED <<sec, now, timer, missed>>

(* sigwait takes any of the pending signals.                                *)
SigWait(s) ==
    /\ pc = "wait"
    /\ s \in pending
    /\ pending' = pending \ {s}
    /\ pc' = CASE s \in {"ALRM", "USR1"} -> "task"
               [] s \in {"USR2", "HUP"}  -> "register"
               [] s = "TERM"             -> "quit"
    /\ UNCHANGED <<sec, now, timer, missed>>

(* do_scanner returns, at once if a worker is not registered.               *)
TaskReturns ==
    /\ pc = "task"
    /\ pc' = "register"
    /\ UNCHANGED <<sec, now, timer, pending, missed>>

-----------------------------------------------------------------------------
DaemonStep ==
    \/ RegisterRead \/ RegisterArm \/ TaskReturns
    \/ \E s \in Signals \cup {"ALRM"} : SigWait(s)

Next == Tick \/ AlarmExpires \/ DaemonStep \/ \E s \in Signals : Kill(s)

Spec == Init /\ [][Next]_vars

(* Time passes, the timer is kept by the system, the daemon's thread is     *)
(* scheduled, and other signals do not come in so fast that sigwait leaves  *)
(* SIGALRM pending for ever.                                                *)
FairSpec ==
    /\ Spec
    /\ WF_vars(Tick) /\ WF_vars(AlarmExpires)
    /\ WF_vars(DaemonStep) /\ SF_vars(SigWait("ALRM"))

-----------------------------------------------------------------------------
(* Type invariant: in particular no alarm is set further away than a day.   *)
TypeOK ==
    /\ sec \in 0 .. DayLen - 1 /\ now \in 0 .. DayLen - 1
    /\ pc \in {"register", "arm", "wait", "task", "quit"}
    /\ timer \in {Off} \cup 0 .. DayLen - 1
    /\ pending \subseteq Signals \cup {"ALRM"}
    /\ missed \in BOOLEAN

(* The daemon never sleeps without an alarm, armed or gone off, unless      *)
(* register_alarm read the time in the very second of the schedule.         *)
AlarmArmed ==
    (pc = "wait" /\ ~missed) => (timer # Off \/ "ALRM" \in pending)

(* Tasks are started for ever, day after day, whatever other signals come   *)
(* in and however long tasks take, up to the end of the daemon.  The only   *)
(* exceptions are a register_alarm that arms nothing, and one that, delayed *)
(* between reading the time and arming, replaces an alarm by a later one.   *)
DailyUnlessMissed ==
    \/ <>(missed \/ "TERM" \in pending)
    \/ []<>(pc = "task")
=============================================================================
