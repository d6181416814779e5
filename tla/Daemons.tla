------------------------------- MODULE Daemons -------------------------------
(***************************************************************************)
(* The three hpssixd daemons: the scanner, which drives a daily task, and  *)
(* its two workers, the builder and the extractor.  A worker registers     *)
(* with the scanner once, when it starts (scanner_connect), and from then  *)
(* on serves one RPC at a time in its control thread.  A task is           *)
(*    scan -> builder_run RPC -> extractor_run RPC -> record in the mdb    *)
(* and every daemon may be killed and started again at any moment, a tool  *)
(* a worker launched outliving the worker.                                 *)
(***************************************************************************)
EXTENDS Integers, FiniteSets

CONSTANTS
    DayLen,      \* seconds in a day, as clock ticks
    MaxClock,    \* bound: the last second the model reaches
    MaxBoots,    \* bound: how many times the scanner is started
    MaxStarts,   \* bound: how many times workers are started, together
    MaxTasks,    \* bound: how many tasks the scanner starts
    MayKill      \* whether something kills the scanner from outside

ASSUME DayLenAssumption   == DayLen \in Nat \ {0}
ASSUME MaxClockAssumption == MaxClock \in Nat \ {0}
ASSUME MaxBootsAssumption == MaxBoots \in Nat \ {0}
ASSUME MaxStartsAssumption == MaxStarts \in Nat \ {0}
ASSUME MaxTasksAssumption == MaxTasks \in Nat \ {0}
ASSUME MayKillAssumption == MayKill \in BOOLEAN

Builder   == "builder"
Extractor == "extractor"
Worker    == {Builder, Extractor}

VARIABLES
    clock,    \* time(NULL)
    sc,       \* where the scanner's main thread is
    boots,    \* which start of the scanner this is: the identity of its sockets
    tasks,    \* how many tasks were started
    running,  \* builder_running, extractor_running
    task,     \* task_id = status.id of the do_scanner call under way
    dir,      \* the day of outdir in that call
    nidx,     \* status.n_indexed: the task whose count it is
    nex,      \* status.n_extracted, likewise
    rep,      \* the reply on its way to the scanner, if any
    mdb,      \* the records of the master database
    main,     \* each worker's main thread
    ctl,      \* each worker's control thread
    starts,   \* how often a worker was started
    cur,      \* current_task
    res,      \* the static result of *_run_1_svc: the task whose count it holds
    req,      \* requests waiting in each worker's socket
    job,      \* the request whose tool the control thread is waiting for
    ended,    \* history: tasks whose handler returned, per worker
    stale     \* history: tasks whose handler failed without setting result

scanVars   == <<sc, boots, tasks, running, task, dir, nidx, nex, rep>>
workVars   == <<main, ctl, starts, cur, res, req, job>>
ghostVars  == <<ended, stale>>
vars       == <<clock, scanVars, workVars, mdb, ghostVars>>

-----------------------------------------------------------------------------
(* Time.  hpssix_get_datadir_today names a directory by the current day. *)

Time  == 1 .. MaxClock
Today == clock \div DayLen

(* A count is represented by the task it was computed for, 0 for none.     *)
Count == 0 .. MaxClock

Request == [op : {"run", "term"}, task : 0 .. MaxClock, from : 1 .. MaxBoots]
NoJob   == [task |-> 0, dir |-> 0, from |-> 0]
Job     == [task : 0 .. MaxClock, dir : 0 .. MaxClock, from : 0 .. MaxBoots]

ScannerPC == {"down", "wait", "scan",
              "call_builder", "wait_builder", "call_extractor", "wait_extractor",
              "record", "term_builder", "wait_term_builder",
              "term_extractor", "wait_term_extractor"}
CallPC(w) == IF w = Builder THEN "call_builder" ELSE "call_extractor"
WaitPC(w) == IF w = Builder THEN "wait_builder" ELSE "wait_extractor"
TermPC(w) == IF w = Builder THEN "term_builder" ELSE "term_extractor"
WaitTermPC(w) ==
    IF w = Builder THEN "wait_term_builder" ELSE "wait_term_extractor"

Init ==
    /\ clock = 1
    /\ sc = "down" /\ boots = 0 /\ tasks = 0
    /\ running = [w \in Worker |-> FALSE]
    /\ task = 0 /\ dir = 0 /\ nidx = 0 /\ nex = 0
    /\ rep = {} /\ mdb = {}
    /\ main = [w \in Worker |-> "down"]
    /\ ctl = [w \in Worker |-> "off"]
    /\ starts = 0
    /\ cur = [w \in Worker |-> 0]
    /\ res = [w \in Worker |-> 0]
    /\ req = [w \in Worker |-> {}]
    /\ job = [w \in Worker |-> NoJob]
    /\ ended = [w \in Worker |-> {}]
    /\ stale = [w \in Worker |-> {}]

Tick ==
    /\ clock < MaxClock
    /\ clock' = clock + 1
    /\ UNCHANGED <<scanVars, workVars, mdb, ghostVars>>

-----------------------------------------------------------------------------
(* The scanner. *)

(* hpssixd --scanner: every static starts from zero.  The pid file's lock   *)
(* keeps a second scanner from starting while one is up.                    *)
ScannerStart ==
    /\ sc = "down"
    /\ boots < MaxBoots
    /\ sc' = "wait" /\ boots' = boots + 1
    /\ running' = [w \in Worker |-> FALSE]
    /\ UNCHANGED <<clock, tasks, task, dir, nidx, nex, rep, workVars, mdb,
                   ghostVars>>

(* The process is gone: its locals and statics with it, its sockets closed. *)
ScannerGone ==
    /\ sc' = "down"
    /\ running' = [w \in Worker |-> FALSE]
    /\ task' = 0 /\ dir' = 0 /\ nidx' = 0 /\ nex' = 0 /\ rep' = {}
    /\ UNCHANGED <<boots, tasks>>

ScannerKilled ==
    /\ MayKill
    /\ sc # "down"
    /\ ScannerGone
    /\ UNCHANGED <<clock, workVars, mdb, ghostVars>>

(* do_scanner returns to the signal loop: its locals are gone.              *)
DoScannerReturn ==
    /\ sc' = "wait"
    /\ task' = 0 /\ dir' = 0 /\ nidx' = 0 /\ nex' = 0

(* do_scanner up to launch_scanner_process.  Both flags must be set.        *)
DoScannerStart ==
    /\ sc = "wait"
    /\ \A w \in Worker : running[w]
    /\ tasks < MaxTasks
    /\ tasks' = tasks + 1
    /\ task' = clock
    /\ dir' = Today
    /\ sc' = "scan"
    /\ UNCHANGED <<clock, boots, running, nidx, nex, rep, workVars, mdb,
                   ghostVars>>

(* launch_scanner_process returns with records in outdir; or nothing was    *)
(* scanned, or the mdb, the directory or the script failed on the way here. *)
DoScannerScanned ==
    /\ sc = "scan"
    /\ \/ /\ sc' = CallPC(Builder)
          /\ UNCHANGED <<task, dir, nidx, nex>>
       \/ DoScannerReturn
    /\ UNCHANGED <<clock, boots, tasks, running, rep, workVars, mdb, ghostVars>>

(* rpc_run_worker: clnt_create reaches the worker's service and the request *)
(* is sent.                                                                 *)
RpcRun(w) ==
    /\ sc = CallPC(w)
    /\ ctl[w] # "off"
    /\ req' = [req EXCEPT ![w] =
                 @ \cup {[op |-> "run", task |-> task, from |-> boots]}]
    /\ sc' = WaitPC(w)
    /\ UNCHANGED <<clock, boots, tasks, running, task, dir, nidx, nex, rep,
                   main, ctl, starts, cur, res, job, mdb, ghostVars>>

(* clnt_create returns NULL and clnt_destroy(NULL) kills the scanner.       *)
RpcRunUnreachable(w) ==
    /\ sc = CallPC(w)
    /\ ScannerGone
    /\ UNCHANGED <<clock, workVars, mdb, ghostVars>>

(* Mutant: a NULL result of the extractor is taken for nothing extracted.   *)
RpcRunFailedGoesOn(w) ==
    /\ sc = WaitPC(w)
    /\ \/ /\ w = Builder
          /\ ScannerGone
       \/ /\ w = Extractor
          /\ sc' = "record"
          /\ UNCHANGED <<boots, tasks, running, task, dir, nidx, nex, rep>>
    /\ UNCHANGED <<clock, workVars, mdb, ghostVars>>

(* The call fails or times out: rpc_run_worker returns 0 with a NULL result *)
(* and do_scanner dereferences it.                                          *)
RpcRunFailed(w) ==
    /\ sc = WaitPC(w)
    /\ ScannerGone
    /\ UNCHANGED <<clock, workVars, mdb, ghostVars>>

(* The reply of the builder: *result is n_indexed, the extractor is next.   *)
BuilderReplied ==
    /\ sc = WaitPC(Builder)
    /\ \E r \in rep : /\ r.w = Builder
                      /\ nidx' = r.val
    /\ rep' = {}
    /\ sc' = CallPC(Extractor)
    /\ UNCHANGED <<clock, boots, tasks, running, task, dir, nex, workVars, mdb,
                   ghostVars>>

ExtractorReplied ==
    /\ sc = WaitPC(Extractor)
    /\ \E r \in rep : /\ r.w = Extractor
                      /\ nex' = r.val
    /\ rep' = {}
    /\ sc' = "record"
    /\ UNCHANGED <<clock, boots, tasks, running, task, dir, nidx, workVars, mdb,
                   ghostVars>>

(* Mutant: the master database is created anew for every record.            *)
DoScannerRecordAnew ==
    /\ sc = "record"
    /\ \/ mdb' = {[task |-> task, dir |-> dir, nidx |-> nidx, nex |-> nex]}
       \/ UNCHANGED mdb
    /\ DoScannerReturn
    /\ UNCHANGED <<clock, boots, tasks, running, rep, workVars, ghostVars>>

(* hpssix_mdb_record: the row is committed, or the insert fails and is only *)
(* logged.                                                                  *)
DoScannerRecord ==
    /\ sc = "record"
    /\ \/ mdb' = mdb \cup {[task |-> task, dir |-> dir,
                            nidx |-> nidx, nex |-> nex]}
       \/ UNCHANGED mdb
    /\ DoScannerReturn
    /\ UNCHANGED <<clock, boots, tasks, running, rep, workVars, ghostVars>>

(* SIGTERM: scanner_terminate_all, then the process ends.                   *)
ScannerTerm ==
    /\ sc = "wait"
    /\ sc' = TermPC(Builder)
    /\ UNCHANGED <<clock, boots, tasks, running, task, dir, nidx, nex, rep,
                   workVars, mdb, ghostVars>>

TermNext(w) ==
    \/ /\ w = Builder
       /\ sc' = TermPC(Extractor)
       /\ UNCHANGED <<boots, tasks, running, task, dir, nidx, nex, rep>>
    \/ /\ w = Extractor
       /\ ScannerGone

(* rpc_terminate_worker, for a worker whose flag is set.                    *)
RpcTerm(w) ==
    /\ sc = TermPC(w)
    /\ running[w]
    /\ ctl[w] # "off"
    /\ req' = [req EXCEPT ![w] =
                 @ \cup {[op |-> "term", task |-> 0, from |-> boots]}]
    /\ sc' = WaitTermPC(w)
    /\ UNCHANGED <<clock, boots, tasks, running, task, dir, nidx, nex, rep,
                   main, ctl, starts, cur, res, job, mdb, ghostVars>>

RpcTermSkipped(w) ==
    /\ sc = TermPC(w)
    /\ ~running[w]
    /\ TermNext(w)
    /\ UNCHANGED <<clock, workVars, mdb, ghostVars>>

RpcTermUnreachable(w) ==
    /\ sc = TermPC(w)
    /\ running[w]
    /\ ScannerGone
    /\ UNCHANGED <<clock, workVars, mdb, ghostVars>>

(* The worker dies before it can answer, or 60 seconds pass.                *)
RpcTermReturned(w) ==
    /\ sc = WaitTermPC(w)
    /\ TermNext(w)
    /\ UNCHANGED <<clock, workVars, mdb, ghostVars>>

-----------------------------------------------------------------------------
(* The workers. *)

(* hpssixd --builder, --extractor: the statics start from zero, the control *)
(* thread is created and the main thread calls connect_scanner.             *)
WorkerStart(w) ==
    /\ main[w] = "down"
    /\ starts < MaxStarts
    /\ starts' = starts + 1
    /\ main' = [main EXCEPT ![w] = "connecting"]
    /\ UNCHANGED <<clock, scanVars, ctl, cur, res, req, job, mdb, ghostVars>>

(* The control thread has registered its service and enters svc_run.        *)
ControlReady(w) ==
    /\ main[w] # "down"
    /\ ctl[w] = "off"
    /\ ctl' = [ctl EXCEPT ![w] = "idle"]
    /\ UNCHANGED <<clock, scanVars, main, starts, cur, res, req, job, mdb,
                   ghostVars>>

(* scanner_connect_1_svc, in the scanner's control thread.                  *)
ScannerConnect(w) ==
    /\ main[w] = "connecting"
    /\ sc # "down"
    /\ running' = [running EXCEPT ![w] = TRUE]
    /\ main' = [main EXCEPT ![w] = "connected"]
    /\ UNCHANGED <<clock, sc, boots, tasks, task, dir, nidx, nex, rep, ctl,
                   starts, cur, res, req, job, mdb, ghostVars>>

ConnectReplied(w) ==
    /\ main[w] = "connected"
    /\ main' = [main EXCEPT ![w] = "up"]
    /\ UNCHANGED <<clock, scanVars, ctl, starts, cur, res, req, job, mdb,
                   ghostVars>>

(* The process is gone, and with it what waits in its sockets.              *)
WorkerGone(w) ==
    /\ main' = [main EXCEPT ![w] = "down"]
    /\ ctl' = [ctl EXCEPT ![w] = "off"]
    /\ cur' = [cur EXCEPT ![w] = 0]
    /\ res' = [res EXCEPT ![w] = 0]
    /\ req' = [req EXCEPT ![w] = {}]
    /\ job' = [job EXCEPT ![w] = NoJob]
    /\ UNCHANGED starts

(* Killed, or connect_scanner failed: both ways out of it end the process,  *)
(* so a worker that loses its connection reply dies with its flag set.      *)
WorkerKilled(w) ==
    /\ main[w] # "down"
    /\ WorkerGone(w)
    /\ UNCHANGED <<clock, scanVars, mdb, ghostVars>>

(* *_terminate_1_svc raises SIGTERM, which nobody blocks or handles: the    *)
(* process ends before the reply is sent.                                   *)
WorkerTerminate(w) ==
    /\ ctl[w] = "idle"
    /\ \E m \in req[w] : m.op = "term"
    /\ WorkerGone(w)
    /\ UNCHANGED <<clock, scanVars, mdb, ghostVars>>

(* Mutant: a reply is delivered to whichever call is waiting.               *)
SendReplyToAnyCall(w, from, val) ==
    rep' = IF sc = WaitPC(w) THEN rep \cup {[w |-> w, val |-> val]} ELSE rep

(* svc_sendreply: it reaches the scanner only if the connection it came     *)
(* from is still open.                                                      *)
SendReply(w, from, val) ==
    rep' = IF from = boots /\ sc = WaitPC(w)
           THEN rep \cup {[w |-> w, val |-> val]}
           ELSE rep

(* *_run_1_svc for the task the worker ran last: ignored, and the static    *)
(* result is returned as it is.                                             *)
RunIgnored(w) ==
    /\ ctl[w] = "idle"
    /\ \E m \in req[w] :
          /\ m.op = "run"
          /\ m.task = cur[w]
          /\ req' = [req EXCEPT ![w] = @ \ {m}]
          /\ SendReply(w, m.from, res[w])
    /\ UNCHANGED <<clock, sc, boots, tasks, running, task, dir, nidx, nex, main,
                   ctl, starts, cur, res, job, mdb, ghostVars>>

(* *_run_1_svc for another task: do_builder and do_extractor look today's   *)
(* directory up and start the tool.                                         *)
RunStarted(w) ==
    /\ ctl[w] = "idle"
    /\ \E m \in req[w] :
          /\ m.op = "run"
          /\ m.task # cur[w]
          /\ req' = [req EXCEPT ![w] = @ \ {m}]
          /\ cur' = [cur EXCEPT ![w] = m.task]
          /\ job' = [job EXCEPT ![w] = [task |-> m.task, dir |-> Today,
                                        from |-> m.from]]
    /\ ctl' = [ctl EXCEPT ![w] = "busy"]
    /\ UNCHANGED <<clock, scanVars, main, starts, res, mdb, ghostVars>>

(* Mutant: the failing handler answers with an error code.                  *)
RunFailedWithCode(w) ==
    /\ ctl[w] = "idle"
    /\ \E m \in req[w] :
          /\ m.op = "run"
          /\ m.task # cur[w]
          /\ req' = [req EXCEPT ![w] = @ \ {m}]
          /\ cur' = [cur EXCEPT ![w] = m.task]
          /\ SendReply(w, m.from, -1)
          /\ ended' = [ended EXCEPT ![w] = @ \cup {m.task}]
          /\ stale' = [stale EXCEPT ![w] = @ \cup {m.task}]
    /\ UNCHANGED <<clock, sc, boots, tasks, running, task, dir, nidx, nex, main,
                   ctl, starts, res, job, mdb>>

(* The directory or the tool's pipe fails: the error is logged, the static  *)
(* result keeps its old value and is returned.                              *)
RunFailed(w) ==
    /\ ctl[w] = "idle"
    /\ \E m \in req[w] :
          /\ m.op = "run"
          /\ m.task # cur[w]
          /\ req' = [req EXCEPT ![w] = @ \ {m}]
          /\ cur' = [cur EXCEPT ![w] = m.task]
          /\ SendReply(w, m.from, res[w])
          /\ ended' = [ended EXCEPT ![w] = @ \cup {m.task}]
          /\ stale' = [stale EXCEPT ![w] = @ \cup {m.task}]
    /\ UNCHANGED <<clock, sc, boots, tasks, running, task, dir, nidx, nex, main,
                   ctl, starts, res, job, mdb>>

(* Mutant: result is set only for the first task of the process.            *)
RunEndedSetsOnce(w) ==
    /\ ctl[w] = "busy"
    /\ res' = [res EXCEPT ![w] = IF @ = 0 THEN job[w].task ELSE @]
    /\ SendReply(w, job[w].from, res'[w])
    /\ ended' = [ended EXCEPT ![w] = @ \cup {job[w].task}]
    /\ ctl' = [ctl EXCEPT ![w] = "idle"]
    /\ job' = [job EXCEPT ![w] = NoJob]
    /\ UNCHANGED <<clock, sc, boots, tasks, running, task, dir, nidx, nex, main,
                   starts, cur, req, mdb, stale>>

(* The tool's output ends: result is the count it printed (0 if it failed:  *)
(* nobody looks at its exit status), unless the pipe could not be read.     *)
RunEnded(w) ==
    /\ ctl[w] = "busy"
    /\ \/ /\ res' = [res EXCEPT ![w] = job[w].task]
          /\ SendReply(w, job[w].from, job[w].task)
          /\ UNCHANGED stale
       \/ /\ SendReply(w, job[w].from, res[w])
          /\ stale' = [stale EXCEPT ![w] = @ \cup {job[w].task}]
          /\ UNCHANGED res
    /\ ended' = [ended EXCEPT ![w] = @ \cup {job[w].task}]
    /\ ctl' = [ctl EXCEPT ![w] = "idle"]
    /\ job' = [job EXCEPT ![w] = NoJob]
    /\ UNCHANGED <<clock, sc, boots, tasks, running, task, dir, nidx, nex, main,
                   starts, cur, req, mdb>>

-----------------------------------------------------------------------------
ScannerStep ==
    \/ DoScannerScanned \/ BuilderReplied \/ ExtractorReplied \/ DoScannerRecord
    \/ \E w \in Worker : \/ RpcRun(w) \/ RpcRunUnreachable(w) \/ RpcRunFailed(w)
                         \/ RpcTerm(w) \/ RpcTermSkipped(w)
                         \/ RpcTermUnreachable(w) \/ RpcTermReturned(w)

WorkerStep(w) ==
    \/ ControlReady(w) \/ ScannerConnect(w) \/ ConnectReplied(w)
    \/ WorkerTerminate(w) \/ RunIgnored(w) \/ RunStarted(w) \/ RunFailed(w)
    \/ RunEnded(w)

Environment ==
    \/ Tick \/ ScannerStart \/ ScannerKilled \/ DoScannerStart \/ ScannerTerm
    \/ \E w \in Worker : WorkerStart(w) \/ WorkerKilled(w)

Next == ScannerStep \/ (\E w \in Worker : WorkerStep(w)) \/ Environment

Spec == Init /\ [][Next]_vars

-----------------------------------------------------------------------------
(* Type invariant. *)
Reply  == [w : Worker, val : Count]
Record == [task : 0 .. MaxClock, dir : 0 .. MaxClock, nidx : Count, nex : Count]
TypeOK ==
    /\ clock \in Time
    /\ sc \in ScannerPC
    /\ boots \in 0 .. MaxBoots /\ tasks \in 0 .. MaxTasks
    /\ running \in [Worker -> BOOLEAN]
    /\ task \in 0 .. MaxClock /\ dir \in 0 .. MaxClock
    /\ nidx \in Count /\ nex \in Count
    /\ rep \subseteq Reply
    /\ mdb \subseteq Record
    /\ main \in [Worker -> {"down", "connecting", "connected", "up"}]
    /\ ctl \in [Worker -> {"off", "idle", "busy"}]
    /\ starts \in 0 .. MaxStarts
    /\ cur \in [Worker -> 0 .. MaxClock]
    /\ res \in [Worker -> Count]
    /\ req \in [Worker -> SUBSET Request]
    /\ job \in [Worker -> Job]
    /\ ended \in [Worker -> SUBSET (0 .. MaxClock)]
    /\ stale \in [Worker -> SUBSET (0 .. MaxClock)]

(* A task is in the master database only after the builder's and the        *)
(* extractor's handler for that very task have returned, whatever replies   *)
(* to earlier scanners, ignored duplicates and restarts happened meanwhile. *)
RecordAfterBothTools ==
    \A r \in mdb : \A w \in Worker : r.task \in ended[w]

(* The extractor never starts on a task the builder has not finished with:  *)
(* it reads the work list and the objects the builder wrote.                *)
ExtractAfterBuild ==
    /\ ended[Extractor] \subseteq ended[Builder]
    /\ ctl[Extractor] = "busy" => job[Extractor].task \in ended[Builder]

(* The counts a record keeps were computed for the recorded task: the       *)
(* static result another task left behind gets there only when the handler  *)
(* failed before it could set it.                                           *)
CountsAreOwn ==
    \A r \in mdb :
        /\ r.nidx = r.task \/ r.task \in stale[Builder]
        /\ r.nex = r.task \/ r.task \in stale[Extractor]

(* "index -- ... automatically runs daily": when all three daemons are up,  *)
(* the scanner can run a task.                                              *)
UpWorkersAreRegistered ==
    (sc = "wait" /\ \A w \in Worker : main[w] = "up")
        => \A w \in Worker : running[w]

(* "builder failed, aborting task.", "extractor failed, aborting the job.": *)
(* a worker that cannot be reached or does not answer costs the task, not   *)
(* the scanner.                                                             *)
FailedCallOnlyAborts ==
    [][ (\E w \in Worker : sc \in {CallPC(w), WaitPC(w)}) => sc' # "down" ]_vars

(* Processes, calls and crashes put aside, a task is built, then extracted, *)
(* then recorded, one of these at a time, and stays so: no restart, stale   *)
(* request or late reply takes a task through the stages in another order,  *)
(* or makes one undone.                                                     *)
P == INSTANCE Pipeline WITH Task      <- Time,
                            built     <- ended[Builder],
                            extracted <- ended[Extractor],
                            recorded  <- {r.task : r \in mdb}
ImplementsPipeline == P!Spec
=============================================================================
