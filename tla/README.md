# HPSSIX in TLA+

HPSSIX keeps a searchable index of an HPSS archive. Once a day a *scanner* asks
HPSS's DB2 for the objects that are new, changed or deleted since the last task,
a *builder* brings them into a PostgreSQL index, and an *extractor* sends
documents through a tika server for full-text search. Users query the index and
tag files. This directory models the parts that write state and the search,
checks them with TLC and proves the main safety properties with TLAPS.

## Inventory

| Component | State | Operations | Talks to |
|---|---|---|---|
| scanner daemon (`hpssixd-scanner.c`) | registration flags, task under way, alarm | signal loop, `do_scanner`, calls to workers, termination | workers by RPC, scan script by pipe, master database |
| builder and extractor daemons (`hpssixd-builder.c`, `hpssixd-extractor.c`) | `current_task`, static `result` | connect once, serve run / terminate, one at a time | scanner by RPC, their tool by pipe |
| scan script (`hpssix-db2-scan.sh.in`) | `session.temp`, four files per task | collect, export, report | DB2, the day's directory |
| builder tool (`tools/builder`) | index tables, one transaction | fattr, path, xattrs, deleted, work list | files, PostgreSQL, sqlite work list |
| extractor tool (`tools/extractor`) | threads, `n_extracted` | share, fetch, extract, index | work list, tika, PostgreSQL |
| master database (`hpssix-mdb.c`, `hpssix-tmpdb.c`) | a sqlite file, one record per task | open, create, record, last status, history | scanner, `hpssix-admin` |
| work list (`hpssix-workdata.c`) | a sqlite file per task | create, append, dispatch | builder tool, extractor tool |
| `hpssix-admin` | how far a listing is | history, page by page | master database |
| `hpssix-search` | options in static variables | options, conditions, one query | index |
| daemonization (`hpssixd.c`, `hpssixd-daemon.c`) | one pid file and lock per kind | start, lock, write, end | other starts |
| `hpssix-tag` | extended attributes in HPSS | set, del, get | HPSS |
| `hpssix-meta` | none | one query | index |
| configuration, logging | constants | start-up | all |

What is hard here: three processes that are killed and restarted independently
and hold each other's state (flags, task ids, static results); a script whose
statements see the name space at different moments while users change it, and
whose failures nobody looks at; an incremental scan that is driven by two
watermarks, an object id and a date, read from the last successful task; threads
that share a counter; an alarm that every signal re-arms; a task that is committed
in two databases, one after the other, with results nobody looks at; a sqlite file
that whoever comes first creates, under locks that are retried in some places only. `PROJECT.json` lists
each of these at its line under `hazards`.

What makes the components correct: a task is recorded only when both workers
have been through it, with its own counts; every row of the work list is
extracted once; the watermark never passes an object that is not indexed, and no
change or deletion is forgotten; tasks go on day after day; the builder brings all
of a task into the index or nothing, and reports what is there; records stay and are
listed without gaps; a search finds what its options say; one daemon of a kind runs.

## Modules

| Module | Models | Proofs |
|---|---|---|
| `Pipeline` | abstract: a task is built, then extracted, then recorded | |
| `Daemons` | scanner, builder and extractor daemons and their calls; implements `Pipeline` | `DaemonsProofs` |
| `ExtractorTool` | `hpssix-extractor` | `ExtractorToolProofs` |
| `Indexing` | name space, scan script, builder as one step, builders that outlive their task, record | `IndexingProofs` |
| `AtomicTask` | abstract: a task is written, then committed in one step, then told | |
| `BuilderTool` | `hpssix-builder` call by call, its two databases; implements `AtomicTask` | `BuilderToolProofs` |
| `Schedule` | `register_alarm` and the signal loop | `ScheduleProofs` |
| `MasterDb` | the master database, the scanner's use of it and `hpssix-admin history` | `MasterDbProofs` |
| `Search` | `hpssix-search` | `SearchProofs` |
| `Pidfile` | how `hpssixd` starts | `PidfileProofs` |

The modules meet at the steps they share. `Daemons` relies on one daemon of a kind,
which is what `Pidfile` shows. `Indexing` has the builder as one step that commits or
rolls back, which is what `ImplementsAtomicTask` of `BuilderTool` shows, and the rows of
`ExtractorTool` are the list that `BuilderTool` writes. `Indexing` reads the last
record, and `RecordsStay` of `MasterDb` says that it is there.

`MC*` modules give the instances for TLC. Operators named after another with a
suffix and introduced by "Mutant:" are plausible mistakes in the code they stand
next to; no action uses them. They show that the properties can fail.

### Daemons

The scanner's main thread is `sc`: waiting for a signal, scanning, about to call
a worker or waiting for its answer, recording, terminating the workers. A worker
has two threads, `main` (connects to the scanner, then sleeps) and `ctl` (serves
requests, one at a time). Both workers are the same code but for names and are
one set of actions with a parameter.

* Time is a clock in seconds; a task's id is the second it was started in, so two
  tasks of a second have the same id, as in the code. `Today` names a directory.
* A count is represented by the task that it was computed for. `res` is the static
  variable of the handler and lives as long as the process.
* A request carries the boot of the scanner that sent it. A reply reaches the
  scanner only over the connection of the call it is waiting for (`SendReply`);
  requests of a scanner that is gone stay in the worker's socket and are served.
* `RpcRunUnreachable` and `RpcRunFailed` are what `rpc_run_worker` and its caller
  do with `NULL`: the process ends.
* `ScannerKilled`, `WorkerKilled` may happen in every state and lose everything
  that the process holds. A worker's termination handler raises SIGTERM, which
  nobody handles, so it ends before it answers.
* `ended` and `stale` are history variables: which handlers returned, and which of
  them did not set `res`.
* `Pipeline` has three sets, of tasks built, extracted and recorded; a task gets
  into one only after the one before it, and stays in it. `ImplementsPipeline` maps them
  to what `ended` and the master database have.

Bounds: 2 scanner boots, 4 worker starts together, 2 tasks, 2 seconds of which
one is another day. Two boots, with both workers started again so that the second
scanner knows them, are the fewest for a stale request to meet another task, and two tasks in
one second or in two for equal ids and stale counts.

### ExtractorTool

`total_objects` rows are divided by `get_work_allocation`. The main thread creates
threads, joins them and prints. A thread fetches its share (an empty one is an
error to it), connects, and takes each row through metadata, content and index.
`n_extracted++` is a load and a store. Every call may fail; a step of sqlite that does
ends a share early and the thread goes on with what it has. `failed` remembers
which threads met a failing call. When main exits, all threads stop where they are.
`ToolEnds` says that the tool comes to its end or a thread waits for tika: a request
has no time-out, so an answer is owed by nobody. `StepsRunOut` says the same without
fairness: each step lowers a measure of what main or a thread has left, six for a row.

Bounds: 3 threads, up to 4 rows: no rows, fewer rows than threads, a
remainder and none.

### Indexing

Objects are numbered as they are created. Attributes, paths and tags of an object
are versions, 0 for the first (for tags: none). HPSS keeps rows that ended in
history tables with the day (`hist`); this side is external and taken from how the
script queries it. Column names in the script are blinded, so statements are
modelled by what they select.

* One action per statement of the script; users act between any two of them.
  Statements may fail without anyone noticing (`MayFail`): one that collects leaves
  `temp` as it was, one that exports leaves no file or a part of one, which in an ordered
  file is its beginning. Lines are whole; one that is cut in the middle is a line that the
  builder refuses, a build that fails. Tasks may be lost
  anywhere (`MayAbort`; this includes a failed insert into the master database).
* A builder whose daemon was killed, or whose scanner gave up, goes on (`MayOrphan`):
  it commits or rolls back at any later time, before or beside the builder of a later
  task (`OrphanEnds`), and when both insert the same object or key the second fails
  (`OrphanWins`). One that is late by more than a day overwrites what is newer; `late`
  in `lossy` records it.
* `temp` is `session.temp`; `out` the four files; `EndOid` the last line of the
  ordered fattr file, 0 when it is empty.
* `Build` is the transaction of `do_builder` in the builder tool, `BuildFailed` its
  rollback. Both answer the scanner in the same way. A path or a tag refers to an object
  in the index, so a build whose fattr file is short of others fails.
* `hpssix-tag set` is two steps, `TagSet` (setxattr) and `TagTouch` (utime); the second
  may come at any later time or never.
* `NextLast` and `NextFrom` are what the next task will read from the last record.
* `lossy`, `above`, `untagged` and `untouched` are history variables: failures of tasks
  that went on, objects below a renamed directory, objects whose tags were removed, and
  those with a tag set that no utime has followed. The properties that hold name these as their exceptions.

Bounds: 2 objects, one of them the directory of the other, 1 user change besides
creations and deletions, 3 or 4 days. Three days are needed for the window of one
day to be passed, four for a record without an object id to be followed by a gap.
With failures and builders that outlive their task the run has one object and two
days, in which a lost builder meets a later task; the `late` exception, which takes a
third day, is not reached in it. This run ends a behaviour at a failed insert of new
objects and at a failed build (`Claims`): `lossy` only grows, and from there on neither
property claims anything. `NoneSkipped`, `MetadataFollows` and `DeletionsFollow` are
proved without these bounds; the proof of `MetadataFollows` has the late builder too.

### BuilderTool

A row has the version of an earlier task or of this one. `work` is what the
transaction sees and `db` what is committed; a call that fails makes the transaction
fail, and when BEGIN did not get through because the connection is lost, so does every
other. When BEGIN fails and the connection works, there is no transaction and each statement
commits itself (`auto`); the tool goes on without noticing. Rows of paths and tags refer to
objects in the index (`Refers`), and are refused otherwise. `pc` goes through
the stages of `hpssix_db_copy` for each file and through `process_xattrs`, with the
early returns that leave a COPY open or a transaction healthy, the crashes of the tag
parser, and `Killed` anywhere. The work list has a transaction of its own in sqlite.
stdout is a pipe, so the counts reach the daemon only at the end.

`AtomicTask` knows of none of this: a task is running, written, committed, lost or
failed, the index changes in the step to committed and in no other, and only what was
written is told. A task whose BEGIN failed is `bare`: it changes the index as it runs, but
still has all of it there before it is written. `AllOrNothing` names that case as its exception. `ImplementsAtomicTask` maps its phase to the place of the tool and to the
counts in stdout's buffer. It says more than `AllOrNothing`: a tool that sent END before
the work list was complete would have the index as a whole or not at all, and documents
that no extractor ever hears of.

Bounds: 2 objects of six kinds (a document, one too large, one whose extension begins
a listed one, one without an extension, an empty one, a directory), 3 earlier indices.
Every subset of the objects in each file is an initial state.

### MasterDb

sqlite locks a file as a whole: readers hold SHARED, a writer RESERVED, and a commit
needs that nobody else reads. There is no busy handler, so a step that meets a lock
returns at once. `last`, `insert` and a listing's `page` are retried in a loop, the
schema and the preparing of statements are not. Closing frees the statements without
finalizing them, so `sqlite3_close` leaves the connection open: harmless unless a
COMMIT failed, whose lock then stays (`leaked`) until the scanner is restarted. A
listing keeps `len` and `first` of its last page, which an error leaves as they were.

Bounds: the scanner with 5 tasks beside one listing of up to 5 records in pages of 2
(10 in the code), sqlite failing at any step. Two pages are the fewest for a record to
come in between, and a third is where a shift of more than one would show. The theorems
hold for any number of listings.

### Search

Options are read one by one into `val` and `tag_conds`. Strings are opaque: what
`sscanf`, `strtoull` and `mktime` make of them are constants, and an argument is given
as the parts `parse_op` splits it into. Numbers may be negative and have fractions: they are
counted in a unit of which 1 has `One`, and `Lf` is what printing with `%lf` does to one,
rounding to `Micro` units. An argument that is no option is stepped over (`operand`), so
that only a command line with nothing at all is refused for being empty.

`Wanted` is the reference: the objects that meet every option given, in the words of the
usage text, without operators, variables or joins. The program departs from it in three
ways that the properties name. `-F` is "Search only regular files" to the usage text, and
the bit that is tested is one that symbolic links have too: `LinksToo` are the links that
meet all other options. A number is read in two ways, or has more decimal places than are
printed (`ReadAlike`). And conditions on two tags are put on one row (`OneTag`). A count
with a keyword is refused by PostgreSQL (`Orderable`).

Assumed: numbers are finite and have no more digits than a double keeps; dates are of 1970
or later; and the two numbers of a BETWEEN are printed, although `sprintf` is given the tag's
name in front of them, as on x86-64, where floating-point arguments have registers of their own.

Bounds: 3 options of 44, on 9 objects, one of each sort that the options tell apart. The
unit is a hundredth and the last place printed a tenth, so that 8.5 is printed as it is
and 8.51 is not.

### Pidfile

`Main` is `main` up to the pid file: `-f` goes straight to it, the SysV way after two
forks, `-t` ends with ENOSYS, and a process whose parent is init skips it (`orphan`).
`Open`, `Lock`, `Truncate` and `Write` are the calls of `hpssixd_setup_pidfile`, each a
step of its own because other starts come in between. `End` is a call that fails or a
kill, anywhere; the lock, which belongs to the process, goes with it, the file stays.

Bounds: 3 starts, 2 kinds, every mode.

### Schedule

A day has `DayLen` seconds. `register_alarm` reads the time and arms in two
actions, with a clock that goes on. Signals are blocked and do not queue. A task
takes any time, including none. Bounds: a day of 4 seconds, all signals.

## Runs

Deadlock is not checked in any run: counters are bounded, and a system in which all
tasks are done and nobody acts may rest.

| Run | Shows |
|---|---|
| `Daemons` | `RecordAfterBothTools`, `ExtractAfterBuild`, `CountsAreOwn`, `ImplementsPipeline` over all kills, restarts, late replies |
| `ExtractorTool` | `NoRowTwice`, `AllRowsTried`, `ToolEnds`, `StepsRunOut`; `CountNeverOver`, what is left of the counter's meaning |
| `Indexing` | `NoneSkipped`, `MetadataFollows`, with changes between statements and lost tasks |
| `IndexingFaults` | the same when every statement and build may fail, files may be partial, and lost builders commit late |
| `IndexingLive` | `DeletionsFollow` and `IndexCatchesUp`, when a task comes to its end each day |
| `Schedule` | `AlarmArmed`, `DailyUnlessMissed` |
| `BuilderTool` | `AllOrNothing`, `ReportedIsIndexed`, `DocumentsAreListed`, `ImplementsAtomicTask`, whatever fails and wherever the tool ends |
| `MasterDb` | `RecordsStay`, `ListingHasNoGap`, `FetchedAreDistinct`, `RetriesEnd` for a scanner and a listing |
| `Search` | `FindsOnlyWanted`, `FindsAllWanted` for every three options |
| `Pidfile` | `FileNamesDaemon` for three starts at once |

Two runs end in a violation, each a disagreement of the code with what the
repository says (`findings` in `PROJECT.json` quotes the lines):

| Run | What happens |
|---|---|
| `DaemonsRegistered` | the scanner restarts, the workers do not connect again, tasks are refused |
| `DaemonsCallFails` | a worker that does not answer takes the scanner down |

Other weaknesses are not runs of their own. Properties that hold name them as
their exceptions, or the models have them as outcomes of an action:

* `n_extracted++` loses increments, so the count that is printed may be too small.
* Paths below a renamed directory stay as they were in the index, since only the
  renamed object's row ends (`above` in `MetadataFollows`); a removed tag stays, since
  `hpssix-tag del` leaves no trace that a scan would find (`untagged`), and neither does
  a `set` that ends before its utime (`untouched`).
* The builder looks the day's directory up again, and after midnight finds no files; a
  build that was rolled back for this or another reason answers 0 like one that was not,
  and the task is recorded as done (`build` in `NoneSkipped`). What `hpssix-builder`
  prints and lists is lost or wrong when END fails (`unended` in `ReportedIsIndexed`), and
  when BEGIN fails a task may stay half done (`auto` in `AllOrNothing`).
* A task that found only deletions is recorded with oid 0 and taken for the first scan
  by the next: after days without a task deletions are missed. `DeletionsFollow` is
  checked with a task each day for this reason.
* `register_alarm` in the very second of the schedule calls `alarm(0)`, which arms
  nothing, and around it may replace an alarm that is due by tomorrow's (both are
  `missed` in `AlarmArmed` and `DailyUnlessMissed`).
* Two tasks of one second have one id, and the workers take the second for a duplicate.
  `RecordAfterBothTools` and `CountsAreOwn` know tasks by their ids and do not tell the
  two apart.
* A record whose COMMIT fails is reported as written (`refused`), its lock stays
  (`leaked`), and two processes that create the file drop each other's table (`raced`).
  `hpssix-admin history -a` prints one page, where the usage says all.
* Extensions are compared as far as the file's goes (`BeginsListed`). A filter that
  cannot be read leaves no document to extract.
* In a search, conditions on two tags find nothing (`OneTag`), 010 is two numbers and a
  tag is compared with six decimal places (`ReadAlike`), `-F` finds symbolic links
  (`LinksToo`), `-c` with `-k` always fails, and with `-n` or
  `-p` the exit status is the length of a string.
* A daemon whose parent is init takes no lock, and one in the foreground that finds the
  lock taken exits with 0.

## Fairness

* `Daemons`: none, all its properties are safety properties. Each wait of the
  scanner is bounded by the time-out that `clnt_control` sets, and the time-out is a
  step of its own (`RpcRunFailed`, `RpcTermReturned`).
* `Indexing`: weak fairness of the task's steps and of `Launch`; users and days
  owe nothing. The run has no aborted tasks, since endless aborts would defeat any
  scan, and no failures, since a build that failed is not done again.
* `ExtractorTool`: weak fairness of the main thread and of each thread's own steps,
  which a scheduler grants; answers of tika are not among them.
* `MasterDb`: weak fairness of the scanner's and each listing's own steps, among them
  the failure of a statement whose schema has changed. Tasks between reading and
  recording, starts, kills and other failures owe nothing.
* `Schedule`: time passes, a due alarm goes off, the daemon is scheduled (weak
  fairness), and `SigWait("ALRM")` is strongly fair: other signals, which people
  send, do not come in so fast that sigwait finds another one pending each time.

## Proofs

Each theorem holds for every value of the constants under the named assumptions
of its module, which say no more than that bounds are naturals, flags Boolean, and
that an object's directory is older than the object. The last is not used by the
proofs of `IndexingProofs`: the objects whose path a rename changes are the exception
`above`, whichever they are. `DeletionsSafe` has hypotheses of its own, which are given with it.

* `DaemonsProofs`: `TypeCorrect`, `RecordedAfterBothTools`, `ExtractedAfterBuild`,
  `RecordedCountsAreOwn`. None of the invariants is inductive: a record is right
  because the reply before it was, and the reply because the request was. `IInv`
  says of each place where the task can be (request, job, reply, scanner) that it
  is about the task under way if it comes from the current boot, that it is in one
  place only, and what has ended before it got there.
* `ExtractorToolProofs`: `RowsOnce`, `RowsAll` from `IInv`, which says how far each
  thread is in its share, that a share which was not cut short is whole, and whom main has
  joined, and from lemmas on the division:
  shares are disjoint and cover all rows. `CountSafe` needs more, since a thread may
  store a value it loaded long ago. `CInv` bounds the counter and every value under way
  by the documents that no thread is counting at the moment (`Counted`): that set only
  grows, so what was loaded stays within it, and a store that adds one comes with the
  thread's own document, which joins the set in that step and which no other thread has,
  shares being disjoint. `StepsAreBounded` is what of `ToolEnds` can be proved: from
  `IInv` the measure of each thread is a natural, a step lowers its own and raises none,
  so the tool takes a bounded number of steps; that it takes them is fairness.
* `IndexingProofs`: `WatermarkSafe`. `IInv` adds to `NoneSkipped` that an existing
  object above `last` that is not in `temp` is newer than everything in it
  (`Uncollected`), that the fattr file has the collected objects that still exist up to
  its last line, without gaps, whether or not it was written to its end (`Exported`), and that after a commit they are in the index (`Built`).
  `Greatest` gives the watermark as the largest exported id.
  `MetadataSafe` is from `MInv`, which follows the versions on their way. The files of the
  task, and of a builder that outlived its task, are true of every object that was not
  changed since the day they were written on (`Fresh`); each file that has been exported
  has the rows of all collected objects (`Complete`); an object that the index is behind
  with is due in this task, or was changed since the day before it (`UnderWay`), and that
  is where the next task begins to look. A builder that is late by at most a day writes what is
  true or what the next task corrects; a later one is in `lossy`.
  `DeletionsSafe` is from `DInv`: what is stale was deleted late enough for the next task,
  and once a task has looked, or one was seen through today, it was deleted today
  (`StaleFound`), since an object that was exported was there on that day
  (`ExportedToday`). Its hypotheses are those of the run, except that tasks may be
  aborted anywhere: a task is seen through each day (`Daily`), because a record
  with oid 0 makes the next task look back only one day; no statement fails
  (`~MayFail`), because a failed export of deletions is noticed by nobody; and no builder
  outlives its task (`~MayOrphan`), because one that commits a day later brings a deleted
  object back after the tasks have looked for its deletion.
* `ScheduleProofs`: `AlwaysArmed`.
* `DaemonsProofs` also has `Refinement`, `Spec => ImplementsPipeline`: under `IInv` each
  step of the daemons is a step of `Pipeline` or leaves its sets alone.
* `BuilderToolProofs`: `TaskIsAtomic`, `ReportsAreTrue`, `ListHasDocuments`. `IInv`
  says for each stage which tables in the transaction are as before and which are done
  (`Tables`), that nothing is committed before the end (`Committed`), and that counts
  and list are out only when the tables are complete (`Said`). That old tags are deleted
  first makes no difference (`UpsertWithout`). Without a transaction what is committed is
  what the statements have done so far. `BuilderIsAtomic`, `Spec =>
  ImplementsAtomicTask`, takes each call to a step of `AtomicTask` or to none. It needs in
  addition that the tool comes to a successful END only with its counts in the
  buffer (`Ending`): otherwise a commit could not be told from a failure.
* `MasterDbProofs`: `CommittedRecordsStay`, from who may be in the schema's transaction
  while a file exists; `ListingsHaveNoGap` and `FetchedCountsRecords`, from the
  records printed being an interval whose lower end the offset gives.
* `SearchProofs`: `PrintedAreWanted` and `WantedAreFound`, from an invariant that says
  each variable holds the last option given for it, and lemmas on `ParseOp`, on the type
  bits and on what `Says` makes of a number that is read alike. They hold for every index,
  every sequence of options and every unit, within what is assumed above.
* `PidfileProofs`: `FileAlwaysNamesDaemon`, `OneRuns`, from the holder of the lock being
  the only one past it.

Every safety property that a run checks is proved. Only model-checked: liveness
(`IndexCatchesUp`, `DailyUnlessMissed`, `ToolEnds`, `RetriesEnd`), which is outside the
prover's reach, and the two violations.

## Plan

1. Done: `Daemons`, `ExtractorTool`, `Indexing`, `Schedule`, with proofs.
2. Done: `BuilderTool`, `MasterDb`, `Search`, `Pidfile`, with proofs; builders that
   outlive their task; `Pipeline` and the refinement.
3. Done: proofs of `CountNeverOver`, `MetadataFollows` and `DeletionsFollow`;
   `AtomicTask` and its refinement; `StepsRunOut`.
4. Left: what `IndexCatchesUp`, `DailyUnlessMissed` and `RetriesEnd` rest on, as theorems
   about steps.

## Not modelled

* Parsing of the configuration, logging and printing; `hpssix-meta`, which makes one
  query and changes nothing; `hpssix-tag get` and `list`.
* The parsing of a line of the scanner's files, beyond that it fails or not: its
  result is a row, and no property looks into one.
* HPSS's own order of commits, tika's and the databases' internals, which are outside
  the repository.
