---------------------------- MODULE DaemonsProofs ----------------------------
(***************************************************************************)
(* Proofs about Daemons, for every number of seconds, starts and tasks:    *)
(* type correctness, and that a task is recorded only after both workers   *)
(* are done with it, in order, with counts of its own.                     *)
(***************************************************************************)
EXTENDS Daemons, TLAPS

(* The extractor is called, or has been, only for a task the builder ended. *)
PastBuilder ==
    sc \in {CallPC(Extractor), WaitPC(Extractor), "record"}
        => /\ task \in ended[Builder]
           /\ nidx = task \/ task \in stale[Builder]

PastExtractor ==
    sc = "record" => /\ task \in ended[Extractor]
                     /\ nex = task \/ task \in stale[Extractor]

(* A reply on its way answers the call the scanner is waiting in.           *)
ReplyIsOfTask ==
    \A r \in rep : /\ sc = WaitPC(r.w)
                   /\ task \in ended[r.w]
                   /\ r.val = task \/ task \in stale[r.w]

(* A run request from the scanner that is up now is for its task.           *)
RequestIsOfTask ==
    \A w \in Worker : \A m \in req[w] :
        /\ m.from <= boots
        /\ m.op = "run" =>
              /\ m.task # 0
              /\ m.from = boots => sc = "down" \/ (sc = WaitPC(w) /\ m.task = task)
              /\ w = Extractor => m.task \in ended[Builder]

(* So is the job a worker is busy with.                                     *)
JobIsOfTask ==
    \A w \in Worker : ctl[w] = "busy" =>
        /\ job[w].from <= boots
        /\ job[w].task # 0
        /\ job[w].from = boots
              => sc = "down" \/ (sc = WaitPC(w) /\ job[w].task = task)
        /\ w = Extractor => job[w].task \in ended[Builder]

(* One call has one request, then one job, then one reply.                  *)
OnePlace ==
    /\ \A w \in Worker : \A m1, m2 \in req[w] :
          (m1.op = "run" /\ m2.op = "run" /\ m1.from = boots /\ m2.from = boots)
             => m1 = m2
    /\ \A w \in Worker : (ctl[w] = "busy" /\ job[w].from = boots)
          => \A m \in req[w] : m.op = "run" => m.from # boots
    /\ \A r \in rep :
          /\ ctl[r.w] = "busy" => job[r.w].from # boots
          /\ \A m \in req[r.w] : m.op = "run" => m.from # boots

(* Between two handlers, current_task is a task that ended, and the static  *)
(* result is its count unless its handler failed early.                     *)
ResultIsOfCurrent ==
    \A w \in Worker :
        (ctl[w] # "busy" /\ cur[w] # 0)
            => /\ cur[w] \in ended[w]
               /\ res[w] = cur[w] \/ cur[w] \in stale[w]

BusyWithCurrent ==
    \A w \in Worker : /\ ctl[w] = "busy" => cur[w] = job[w].task
                      /\ main[w] = "down" => ctl[w] = "off"
                      /\ ctl[w] = "off" => cur[w] = 0 /\ req[w] = {}

(* A scanner that is up was started, and a task it is in has an id.         *)
Started ==
    /\ sc # "down" => boots > 0
    /\ sc \in {"scan", "record"} \cup {CallPC(w) : w \in Worker}
                              \cup {WaitPC(w) : w \in Worker} => task # 0

(* The inductive invariant: the types, and what a step must preserve for    *)
(* the recorded tasks to be finished tasks.                                 *)
Core ==
    /\ PastBuilder /\ PastExtractor
    /\ ReplyIsOfTask /\ RequestIsOfTask /\ JobIsOfTask /\ OnePlace
    /\ ResultIsOfCurrent /\ BusyWithCurrent
    /\ RecordAfterBothTools /\ ExtractAfterBuild /\ CountsAreOwn

IInv == TypeOK /\ Started /\ Core

-----------------------------------------------------------------------------
(* The directory of the day is numbered no higher than the clock.           *)
LEMMA DivBound ==
    ASSUME NEW c \in Nat, NEW d \in Nat \ {0}
    PROVE  c \div d \in 0 .. c
BY SMT

LEMMA TodayBound ==
    ASSUME TypeOK
    PROVE  Today \in 0 .. MaxClock
<1>1. clock \in Nat /\ clock <= MaxClock
    BY MaxClockAssumption DEF TypeOK, Time
<1>2. Today \in 0 .. clock
    BY <1>1, DivBound, DayLenAssumption DEF Today
<1>. QED
    BY <1>1, <1>2, MaxClockAssumption

(* Type correctness, with what it needs to know of a scanner that is up.    *)
LEMMA TypeStep ==
    TypeOK /\ Started /\ [Next]_vars => TypeOK' /\ Started'
<1>. SUFFICES ASSUME TypeOK, Started, [Next]_vars
              PROVE  TypeOK' /\ Started'
    OBVIOUS
<1>. USE MaxClockAssumption, MaxBootsAssumption, MaxStartsAssumption,
         MaxTasksAssumption
     DEF TypeOK, Started, ScannerPC, Count, Time, Worker, Builder, Extractor,
         CallPC, WaitPC, TermPC, WaitTermPC, scanVars, workVars, ghostVars
<1>1. CASE Tick
    BY <1>1 DEF Tick, Request, Reply, Record, Job, NoJob
<1>2. CASE ScannerStart
    BY <1>2 DEF ScannerStart, Request, Reply, Record, Job, NoJob
<1>3. CASE ScannerKilled
    BY <1>3 DEF ScannerKilled, ScannerGone, Request, Reply, Record, Job, NoJob
<1>4. CASE DoScannerStart
    BY <1>4, TodayBound, SMTT(30) DEF DoScannerStart, Request, Job, NoJob
<1>5. CASE DoScannerScanned
    BY <1>5 DEF DoScannerScanned, DoScannerReturn, Request, Reply, Record, Job,
       NoJob
<1>6. CASE BuilderReplied
    BY <1>6 DEF BuilderReplied, Request, Reply, Record, Job, NoJob
<1>7. CASE ExtractorReplied
    BY <1>7 DEF ExtractorReplied, Request, Reply, Record, Job, NoJob
<1>8. CASE DoScannerRecord
    BY <1>8 DEF DoScannerRecord, DoScannerReturn, Request, Reply, Record, Job,
       NoJob
<1>9. CASE ScannerTerm
    BY <1>9 DEF ScannerTerm, Request, Reply, Record, Job, NoJob
<1>10. ASSUME NEW w \in Worker, RpcRun(w)
      PROVE  TypeOK' /\ Started'
    BY <1>10 DEF RpcRun, Request, Reply, Record, Job, NoJob
<1>11. ASSUME NEW w \in Worker, RpcRunUnreachable(w)
      PROVE  TypeOK' /\ Started'
    BY <1>11 DEF RpcRunUnreachable, ScannerGone, Request, Reply, Record, Job,
       NoJob
<1>12. ASSUME NEW w \in Worker, RpcRunFailed(w)
      PROVE  TypeOK' /\ Started'
    BY <1>12 DEF RpcRunFailed, ScannerGone, Request, Reply, Record, Job, NoJob
<1>13. ASSUME NEW w \in Worker, RpcTerm(w)
      PROVE  TypeOK' /\ Started'
    BY <1>13 DEF RpcTerm, Request, Reply, Record, Job, NoJob
<1>14. ASSUME NEW w \in Worker, RpcTermSkipped(w)
      PROVE  TypeOK' /\ Started'
  <2>1. CASE w = Builder
    BY <1>14, <2>1 DEF RpcTermSkipped, TermNext
  <2>2. CASE w = Extractor
    <3>1. ScannerGone /\ UNCHANGED <<clock, workVars, mdb, ghostVars>>
      BY <1>14, <2>2 DEF RpcTermSkipped, TermNext
    <3>. QED
      BY <3>1 DEF ScannerGone
  <2>. QED
    BY <2>1, <2>2
<1>15. ASSUME NEW w \in Worker, RpcTermUnreachable(w)
      PROVE  TypeOK' /\ Started'
    BY <1>15 DEF RpcTermUnreachable, ScannerGone, Request, Reply, Record, Job,
       NoJob
<1>16. ASSUME NEW w \in Worker, RpcTermReturned(w)
      PROVE  TypeOK' /\ Started'
  <2>1. CASE w = Builder
    BY <1>16, <2>1 DEF RpcTermReturned, TermNext
  <2>2. CASE w = Extractor
    <3>1. ScannerGone /\ UNCHANGED <<clock, workVars, mdb, ghostVars>>
      BY <1>16, <2>2 DEF RpcTermReturned, TermNext
    <3>. QED
      BY <3>1 DEF ScannerGone
  <2>. QED
    BY <2>1, <2>2
<1>17. ASSUME NEW w \in Worker, WorkerStart(w)
      PROVE  TypeOK' /\ Started'
    BY <1>17 DEF WorkerStart, Request, Reply, Record, Job, NoJob
<1>18. ASSUME NEW w \in Worker, ControlReady(w)
      PROVE  TypeOK' /\ Started'
    BY <1>18 DEF ControlReady, Request, Reply, Record, Job, NoJob
<1>19. ASSUME NEW w \in Worker, ScannerConnect(w)
      PROVE  TypeOK' /\ Started'
    BY <1>19 DEF ScannerConnect, Request, Reply, Record, Job, NoJob
<1>20. ASSUME NEW w \in Worker, ConnectReplied(w)
      PROVE  TypeOK' /\ Started'
    BY <1>20 DEF ConnectReplied, Request, Reply, Record, Job, NoJob
<1>21. ASSUME NEW w \in Worker, WorkerKilled(w)
      PROVE  TypeOK' /\ Started'
    BY <1>21 DEF WorkerKilled, WorkerGone, Request, Reply, Record, Job, NoJob
<1>22. ASSUME NEW w \in Worker, WorkerTerminate(w)
      PROVE  TypeOK' /\ Started'
    BY <1>22 DEF WorkerTerminate, WorkerGone, Request, Reply, Record, Job, NoJob
<1>23. ASSUME NEW w \in Worker, RunIgnored(w)
      PROVE  TypeOK' /\ Started'
    BY <1>23 DEF RunIgnored, SendReply, Request, Reply, Record, Job, NoJob
<1>24. ASSUME NEW w \in Worker, RunStarted(w)
      PROVE  TypeOK' /\ Started'
    BY <1>24, TodayBound, SMTT(30) DEF RunStarted, Request, Job, NoJob
<1>25. ASSUME NEW w \in Worker, RunFailed(w)
      PROVE  TypeOK' /\ Started'
    BY <1>25 DEF RunFailed, SendReply, Request, Reply, Record, Job, NoJob
<1>26. ASSUME NEW w \in Worker, RunEnded(w)
      PROVE  TypeOK' /\ Started'
    BY <1>26 DEF RunEnded, SendReply, Request, Reply, Record, Job, NoJob
<1>27. CASE UNCHANGED vars
    BY <1>27 DEF vars
<1>. QED
    BY <1>1, <1>2, <1>3, <1>4, <1>5, <1>6, <1>7, <1>8, <1>9, <1>10, <1>11,
       <1>12, <1>13, <1>14, <1>15, <1>16, <1>17, <1>18, <1>19, <1>20, <1>21,
       <1>22, <1>23, <1>24, <1>25, <1>26, <1>27
    DEF Next, ScannerStep, WorkerStep, Environment

LEMMA InitTyped == Init => TypeOK /\ Started
BY MaxClockAssumption, MaxBootsAssumption, MaxStartsAssumption, MaxTasksAssumption
DEF Init, TypeOK, Started, ScannerPC, Count, Request, Job, NoJob, Reply, Record,
    Time, Worker, Builder, Extractor, CallPC, WaitPC

(* Type correctness of the daemons' state, for every value of the bounds.   *)
THEOREM TypeCorrect == Spec => []TypeOK
BY InitTyped, TypeStep, PTL DEF Spec

-----------------------------------------------------------------------------
LEMMA CoreStep == IInv /\ TypeOK' /\ Started' /\ [Next]_vars => Core'
<1>. SUFFICES ASSUME TypeOK, Started, Core, TypeOK', Started', [Next]_vars
              PROVE  Core'
    BY DEF IInv
<1>. USE DEF TypeOK, Started, ScannerPC, Count, Time, Request, Job, NoJob, Reply,
         Record, Worker, Builder, Extractor, CallPC, WaitPC, TermPC, WaitTermPC,
         scanVars, workVars, ghostVars, Core, PastBuilder, PastExtractor, ReplyIsOfTask, RequestIsOfTask,
         JobIsOfTask, OnePlace, ResultIsOfCurrent, BusyWithCurrent,
         RecordAfterBothTools, ExtractAfterBuild, CountsAreOwn
<1>1. CASE Tick
    BY <1>1 DEF Tick
<1>2. CASE ScannerStart
    BY <1>2 DEF ScannerStart
<1>3. CASE ScannerKilled
    BY <1>3 DEF ScannerKilled, ScannerGone
<1>4. CASE DoScannerStart
    BY <1>4 DEF DoScannerStart
<1>5. CASE DoScannerScanned
    BY <1>5 DEF DoScannerScanned, DoScannerReturn
<1>6. CASE BuilderReplied
    BY <1>6 DEF BuilderReplied
<1>7. CASE ExtractorReplied
    BY <1>7 DEF ExtractorReplied
<1>8. CASE DoScannerRecord
    BY <1>8 DEF DoScannerRecord, DoScannerReturn
<1>9. CASE ScannerTerm
    BY <1>9 DEF ScannerTerm
<1>10. ASSUME NEW w \in Worker, RpcRun(w)
      PROVE  Core'
    BY <1>10 DEF RpcRun
<1>11. ASSUME NEW w \in Worker, RpcRunUnreachable(w)
      PROVE  Core'
    BY <1>11 DEF RpcRunUnreachable, ScannerGone
<1>12. ASSUME NEW w \in Worker, RpcRunFailed(w)
      PROVE  Core'
    BY <1>12 DEF RpcRunFailed, ScannerGone
<1>13. ASSUME NEW w \in Worker, RpcTerm(w)
      PROVE  Core'
    BY <1>13 DEF RpcTerm
<1>14. ASSUME NEW w \in Worker, RpcTermSkipped(w)
      PROVE  Core'
    BY <1>14 DEF RpcTermSkipped, TermNext, ScannerGone
<1>15. ASSUME NEW w \in Worker, RpcTermUnreachable(w)
      PROVE  Core'
    BY <1>15 DEF RpcTermUnreachable, ScannerGone
<1>16. ASSUME NEW w \in Worker, RpcTermReturned(w)
      PROVE  Core'
    BY <1>16 DEF RpcTermReturned, TermNext, ScannerGone
<1>17. ASSUME NEW w \in Worker, WorkerStart(w)
      PROVE  Core'
    BY <1>17 DEF WorkerStart
<1>18. ASSUME NEW w \in Worker, ControlReady(w)
      PROVE  Core'
    BY <1>18 DEF ControlReady
<1>19. ASSUME NEW w \in Worker, ScannerConnect(w)
      PROVE  Core'
    BY <1>19 DEF ScannerConnect
<1>20. ASSUME NEW w \in Worker, ConnectReplied(w)
      PROVE  Core'
    BY <1>20 DEF ConnectReplied
<1>21. ASSUME NEW w \in Worker, WorkerKilled(w)
      PROVE  Core'
    BY <1>21 DEF WorkerKilled, WorkerGone
<1>22. ASSUME NEW w \in Worker, WorkerTerminate(w)
      PROVE  Core'
    BY <1>22 DEF WorkerTerminate, WorkerGone
<1>23. ASSUME NEW w \in Worker, RunIgnored(w)
      PROVE  Core'
    BY <1>23 DEF RunIgnored, SendReply
<1>24. ASSUME NEW w \in Worker, RunStarted(w)
      PROVE  Core'
    BY <1>24 DEF RunStarted
<1>25. ASSUME NEW w \in Worker, RunFailed(w)
      PROVE  Core'
    BY <1>25 DEF RunFailed, SendReply
<1>26. ASSUME NEW w \in Worker, RunEnded(w)
      PROVE  Core'
    BY <1>26 DEF RunEnded, SendReply
<1>27. CASE UNCHANGED vars
    BY <1>27 DEF vars
<1>. QED
    BY <1>1, <1>2, <1>3, <1>4, <1>5, <1>6, <1>7, <1>8, <1>9, <1>10, <1>11,
       <1>12, <1>13, <1>14, <1>15, <1>16, <1>17, <1>18, <1>19, <1>20, <1>21,
       <1>22, <1>23, <1>24, <1>25, <1>26, <1>27
    DEF Next, ScannerStep, WorkerStep, Environment

LEMMA InitCore == Init => Core
BY DEF Init, Core, PastBuilder, PastExtractor, ReplyIsOfTask, RequestIsOfTask,
   JobIsOfTask, OnePlace, ResultIsOfCurrent, BusyWithCurrent,
   RecordAfterBothTools, ExtractAfterBuild, CountsAreOwn, Worker, Builder,
   Extractor, CallPC, WaitPC

(* The inductive invariant of the task protocol: which requests, tools and  *)
(* replies can be about the task under way, and what has ended before them. *)
THEOREM Inductive == Spec => []IInv
<1>1. Init => IInv
    BY InitTyped, InitCore DEF IInv
<1>2. IInv /\ [Next]_vars => IInv'
    BY TypeStep, CoreStep DEF IInv
<1>. QED
    BY <1>1, <1>2, PTL DEF Spec

(* A task is recorded only after the builder's and the extractor's handler  *)
(* for it returned (do_scanner, *_run_1_svc), over every interleaving of    *)
(* kills, restarts, time-outs, late replies and ignored repetitions.        *)
THEOREM RecordedAfterBothTools == Spec => []RecordAfterBothTools
<1>1. IInv => RecordAfterBothTools
    BY DEF IInv, Core
<1>. QED
    BY Inductive, <1>1, PTL

(* The extractor works only on tasks the builder has finished with.         *)
THEOREM ExtractedAfterBuild == Spec => []ExtractAfterBuild
<1>1. IInv => ExtractAfterBuild
    BY DEF IInv, Core
<1>. QED
    BY Inductive, <1>1, PTL

(* A record's counts are those of its own task, unless the handler failed   *)
(* before it could set the static result.                                   *)
THEOREM RecordedCountsAreOwn == Spec => []CountsAreOwn
<1>1. IInv => CountsAreOwn
    BY DEF IInv, Core
<1>. QED
    BY Inductive, <1>1, PTL

-----------------------------------------------------------------------------
(* The handlers that return are the steps of the pipeline up to the record. *)
LEMMA EndedStep ==
    ASSUME IInv, NEW w \in Worker, NEW t \in Time,
           ended' = [ended EXCEPT ![w] = @ \cup {t}], mdb' = mdb,
           w = Extractor => t \in ended[Builder]
    PROVE  P!Next
<1>1. ended \in [Worker -> SUBSET (0 .. MaxClock)] /\ Builder # Extractor
      /\ Worker = {Builder, Extractor}
    BY DEF IInv, TypeOK, Worker, Builder, Extractor
<1>2. CASE w = Builder
  <2>1. /\ ended'[Builder] = ended[Builder] \cup {t}
        /\ ended'[Extractor] = ended[Extractor]
    BY <1>1, <1>2
  <2>2. P!Build(t)
    BY <2>1 DEF P!Build
  <2>. QED
    BY <2>2 DEF P!Next
<1>3. CASE w = Extractor
  <2>1. /\ ended'[Extractor] = ended[Extractor] \cup {t}
        /\ ended'[Builder] = ended[Builder]
    BY <1>1, <1>3
  <2>2. P!Extract(t)
    BY <1>3, <2>1 DEF P!Extract
  <2>. QED
    BY <2>2 DEF P!Next
<1>. QED
    BY <1>1, <1>2, <1>3

LEMMA PipelineStep ==
    ASSUME IInv, [Next]_vars PROVE [P!Next]_(P!vars)
<1>1. CASE ended' = ended /\ mdb' = mdb
    BY <1>1 DEF P!vars
<1>2. ASSUME NEW w \in Worker, RunFailed(w) PROVE P!Next
  <2>1. PICK m \in req[w] :
           /\ m.op = "run"
           /\ ended' = [ended EXCEPT ![w] = @ \cup {m.task}]
    BY <1>2 DEF RunFailed
  <2>2. m.task \in 0 .. MaxClock
    BY DEF IInv, TypeOK, Request
  <2>3. m.task # 0 /\ (w = Extractor => m.task \in ended[Builder])
    BY <2>1 DEF IInv, Core, RequestIsOfTask
  <2>4. mdb' = mdb
    BY <1>2 DEF RunFailed
  <2>5. m.task \in Time
    BY <2>2, <2>3 DEF Time
  <2>. QED
    BY <2>1, <2>3, <2>4, <2>5, EndedStep
<1>3. ASSUME NEW w \in Worker, RunEnded(w) PROVE P!Next
  <2>1. /\ ctl[w] = "busy" /\ mdb' = mdb
        /\ ended' = [ended EXCEPT ![w] = @ \cup {job[w].task}]
    BY <1>3 DEF RunEnded
  <2>2. job[w].task \in 0 .. MaxClock
    BY DEF IInv, TypeOK, Job
  <2>3. job[w].task # 0 /\ (w = Extractor => job[w].task \in ended[Builder])
    BY <2>1 DEF IInv, Core, JobIsOfTask
  <2>4. job[w].task \in Time
    BY <2>2, <2>3 DEF Time
  <2>. QED
    BY <2>1, <2>3, <2>4, EndedStep
<1>4. CASE DoScannerRecord
  <2>1. ended' = ended
    BY <1>4 DEF DoScannerRecord, ghostVars
  <2>2. CASE mdb' = mdb
    BY <1>1, <2>1, <2>2
  <2>3. CASE mdb' # mdb
    <3>1. PICK r0, t : /\ mdb' = mdb \cup {r0}
                       /\ r0 = [task |-> task, dir |-> dir, nidx |-> nidx, nex |-> nex]
                       /\ t = task
      BY <1>4, <2>3 DEF DoScannerRecord
    <3>2. r0.task = t
      BY <3>1
    <3>3. {r.task : r \in mdb'} = {r.task : r \in mdb} \cup {t}
      BY <3>1, <3>2, Zenon
    <3>4. t \in Time /\ t \in ended[Extractor]
      BY <1>4, <3>1
      DEF IInv, TypeOK, Started, Core, PastExtractor, DoScannerRecord, Time
    <3>5. P!Record(t)
      BY <2>1, <3>3, <3>4 DEF P!Record
    <3>. QED
      BY <3>4, <3>5 DEF P!Next
  <2>. QED
    BY <2>2, <2>3
<1>5. \/ ended' = ended /\ mdb' = mdb
      \/ \E w \in Worker : RunFailed(w) \/ RunEnded(w)
      \/ DoScannerRecord
    BY DEF Next, ScannerStep, WorkerStep, Environment, vars, ghostVars, Tick,
       ScannerStart, ScannerKilled, DoScannerStart, DoScannerScanned, RpcRun,
       RpcRunUnreachable, RpcRunFailed, BuilderReplied, ExtractorReplied,
       ScannerTerm, RpcTerm, RpcTermSkipped, RpcTermUnreachable, RpcTermReturned,
       WorkerStart, ControlReady, ScannerConnect, ConnectReplied, WorkerKilled,
       WorkerTerminate, RunIgnored, RunStarted
<1>. QED
    BY <1>1, <1>2, <1>3, <1>4, <1>5

(* The daemons implement the abstract pipeline: whatever is killed or       *)
(* restarted, tasks are built, extracted and recorded in this order, one    *)
(* stage at a time, and nothing is undone.                                  *)
THEOREM Refinement == Spec => ImplementsPipeline
<1>1. Init => P!Init
    BY DEF Init, P!Init, Worker, Builder, Extractor
<1>. QED
    BY <1>1, PipelineStep, Inductive, PTL DEF Spec, ImplementsPipeline, P!Spec
=============================================================================
