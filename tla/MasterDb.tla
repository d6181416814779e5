------------------------------ MODULE MasterDb ------------------------------
(***************************************************************************)
(* The master database (hpssix-mdb over hpssix-tmpdb): one sqlite file that *)
(* the scanner keeps its tasks in and that hpssix-admin lists page by page. *)
(* Whoever finds no file creates it.  sqlite locks the file as a whole, and *)
(* no busy handler is set: a step that meets a lock returns SQLITE_BUSY at  *)
(* once, which the library retries in some places and not in others.        *)
(***************************************************************************)
EXTENDS Integers, FiniteSets

CONSTANTS
    Admins,      \* runs of hpssix-admin history
    PageSize,    \* NRECPERFETCH
    MaxCount,    \* bound: the largest --count
    MaxTasks,    \* bound: how many tasks the scanner begins
    MayFail      \* whether sqlite may fail for other reasons than a lock

ASSUME AdminsAssumption   == "scanner" \notin Admins
ASSUME PageSizeAssumption == PageSize \in Nat \ {0}
ASSUME MaxCountAssumption == MaxCount \in Nat
ASSUME MaxTasksAssumption == MaxTasks \in Nat
ASSUME MayFailAssumption  == MayFail \in BOOLEAN

Scanner == "scanner"
Proc    == Admins \cup {Scanner}

VARIABLES
    exists,   \* whether the file exists
    schema,   \* how often hpssix_mdb was created in it; 0: there is no table
    n,        \* the table's rows are numbered 1 .. n, in order of insertion
    pc,       \* where each process is
    lock,     \* the lock of each process's connection
    leaked,   \* whether a closed connection of the scanner still holds PENDING
    ver,      \* the schema that a process's statements were prepared for
    tasks,    \* how many tasks the scanner began
    asked,    \* --count of a listing, 0 for --all
    fetched,  \* fetched of a listing, which is its offset too
    first,    \* the newest record of the page in records,
    len,      \* and how many records the page has
    start,    \* history: the newest record when the first page was read
    printed,  \* history: the records a listing printed
    grew,     \* history: listings during which a record was added
    failed,   \* history: listings that met an error of sqlite
    acked,    \* history: how often hpssix_mdb_record returned 0
    refused,  \* history: how often it did although COMMIT had failed
    raced     \* history: two processes found no file and created one

fileVars == <<exists, schema, n>>
listVars == <<asked, fetched, first, len, start, printed, grew, failed>>
recVars  == <<tasks, acked, refused>>
vars     == <<fileVars, pc, lock, leaked, ver, listVars, recVars, raced>>

Init ==
    /\ exists = FALSE /\ schema = 0 /\ n = 0
    /\ pc = [p \in Proc |-> "idle"] /\ lock = [p \in Proc |-> "none"]
    /\ leaked = FALSE
    /\ ver = [p \in Proc |-> 0]
    /\ tasks = 0 /\ acked = 0 /\ refused = 0
    /\ asked = [a \in Admins |-> 0] /\ fetched = asked
    /\ first = asked /\ len = asked /\ start = asked
    /\ printed = [a \in Admins |-> {}]
    /\ grew = {} /\ failed = {} /\ raced = FALSE

-----------------------------------------------------------------------------
(* sqlite's locks.  PENDING stays behind only where COMMIT is not retried   *)
(* and its connection never closed, and then keeps all others out.          *)

Others(p)  == {q \in Proc \ {p} : lock[q] # "none"}
Blocked    == leaked
Reserved(p) == \E q \in Proc \ {p} : lock[q] = "reserved"

Step(p, to, l) ==
    /\ pc' = [pc EXCEPT ![p] = to]
    /\ lock' = [lock EXCEPT ![p] = l]

(* The caller goes home.                                                    *)
Return(p) == Step(p, IF p = Scanner THEN "idle" ELSE "done", "none")

-----------------------------------------------------------------------------
(* hpssix_mdb_open and hpssix_tmpdb_open. *)

(* Mutant: the schema is executed at every open.                            *)
OpenAlwaysInits(p) ==
    /\ pc[p] = "idle"
    /\ Step(p, "create", "none")
    /\ IF p = Scanner
       THEN /\ tasks < MaxTasks
            /\ tasks' = tasks + 1
            /\ UNCHANGED asked
       ELSE /\ \E c \in 0 .. MaxCount : asked' = [asked EXCEPT ![p] = c]
            /\ UNCHANGED tasks
    /\ UNCHANGED <<fileVars, leaked, ver, fetched, first, len, start, printed,
                   grew, failed, acked, refused, raced>>

(* A task or a listing begins: stat says whether the schema is needed.      *)
Open(p) ==
    /\ pc[p] = "idle"
    /\ Step(p, IF exists THEN "prepare" ELSE "create", "none")
    /\ IF p = Scanner
       THEN /\ tasks < MaxTasks
            /\ tasks' = tasks + 1
            /\ UNCHANGED asked
       ELSE /\ \E c \in 0 .. MaxCount : asked' = [asked EXCEPT ![p] = c]
            /\ UNCHANGED tasks
    /\ UNCHANGED <<fileVars, leaked, ver, fetched, first, len, start, printed,
                   grew, failed, acked, refused, raced>>

(* sqlite3_open creates the file.                                           *)
CreateFile(p) ==
    /\ pc[p] = "create"
    /\ Step(p, "drop", "none")
    /\ exists' = TRUE
    /\ raced' = (raced \/ \E q \in Proc \ {p} : pc[q] = "create")
    /\ UNCHANGED <<schema, n, leaked, ver, listVars, recVars>>

(* begin; drop table if exists: the transaction has read the schema, and    *)
(* writes when there is a table.                                            *)
SchemaDrop(p) ==
    /\ pc[p] = "drop"
    /\ \/ /\ ~Blocked /\ schema = 0
          /\ Step(p, "table", "shared")
       \/ /\ ~Blocked /\ schema # 0 /\ ~Reserved(p)
          /\ Step(p, "table", "reserved")
       \/ /\ Blocked \/ (schema # 0 /\ Reserved(p)) \/ MayFail
          /\ Return(p)
    /\ UNCHANGED <<fileVars, leaked, ver, listVars, recVars, raced>>

(* create table.                                                            *)
SchemaCreate(p) ==
    /\ pc[p] = "table"
    /\ \/ /\ ~Reserved(p)
          /\ Step(p, "end", "reserved")
       \/ /\ Reserved(p) \/ MayFail
          /\ Return(p)
    /\ UNCHANGED <<fileVars, leaked, ver, listVars, recVars, raced>>

(* end transaction: the new table is empty.  When somebody reads meanwhile  *)
(* the file is left without the table.                                      *)
SchemaEnd(p) ==
    /\ pc[p] = "end"
    /\ \/ /\ Others(p) = {}
          /\ schema' = schema + 1 /\ n' = 0
          /\ Step(p, "prepare", "none")
       \/ /\ Others(p) # {} \/ MayFail
          /\ Return(p)
          /\ UNCHANGED <<schema, n>>
    /\ UNCHANGED <<exists, leaked, ver, listVars, recVars, raced>>

(* sqlite3_prepare reads the schema under a SHARED lock.                    *)
Prepare(p) ==
    /\ pc[p] = "prepare"
    /\ \/ /\ ~Blocked
          /\ Step(p, "prepared", "shared")
       \/ /\ Blocked \/ MayFail
          /\ Return(p)
    /\ UNCHANGED <<fileVars, leaked, ver, listVars, recVars, raced>>

(* A statement on a table that is not there cannot be prepared.             *)
Prepared(p) ==
    /\ pc[p] = "prepared"
    /\ \/ /\ schema = 0
          /\ Return(p)
          /\ UNCHANGED ver
       \/ /\ schema # 0
          /\ Step(p, IF p = Scanner THEN "last" ELSE "page", "none")
          /\ ver' = [ver EXCEPT ![p] = schema]
    /\ UNCHANGED <<fileVars, leaked, listVars, recVars, raced>>

-----------------------------------------------------------------------------
(* The scanner: do_scanner from hpssix_mdb_open on. *)

(* Statements of sqlite3_prepare fail for good when the schema has changed. *)
Stale(p) == ver[p] # schema

(* hpssix_mdb_get_last_scanned_status, retried while it is busy.            *)
LastStatus ==
    /\ pc[Scanner] = "last"
    /\ ~Blocked
    /\ \/ /\ ~Stale(Scanner)
          /\ Step(Scanner, "work", "none")
       \/ /\ Stale(Scanner) \/ MayFail
          /\ Return(Scanner)
    /\ UNCHANGED <<fileVars, leaked, ver, listVars, recVars, raced>>

(* The task goes through its tools, or ends early.                          *)
Work ==
    /\ pc[Scanner] = "work"
    /\ \/ Step(Scanner, "insert", "none")
       \/ Return(Scanner)
    /\ UNCHANGED <<fileVars, leaked, ver, listVars, recVars, raced>>

(* hpssix_mdb_record: the insert is retried while another writes; if it     *)
(* fails it is rolled back and reported.                                    *)
Insert ==
    /\ pc[Scanner] = "insert"
    /\ ~Blocked /\ ~Reserved(Scanner)
    /\ \/ /\ ~Stale(Scanner)
          /\ Step(Scanner, "commit", "reserved")
       \/ /\ Stale(Scanner) \/ MayFail
          /\ Return(Scanner)
    /\ UNCHANGED <<fileVars, leaked, ver, listVars, recVars, raced>>

(* The end of hpssix_mdb_record and hpssix_mdb_close.  Nobody looks whether *)
(* the transaction ended: while somebody reads it does not, and since its   *)
(* statements are never finalized the connection stays open, its lock held. *)
Commit ==
    /\ pc[Scanner] = "commit"
    /\ \/ /\ Others(Scanner) = {}
          /\ n' = n + 1
          /\ grew' = grew \cup {a \in Admins : pc[a] = "page" /\ fetched[a] > 0}
          /\ UNCHANGED <<leaked, refused>>
       \/ /\ Others(Scanner) # {}
          /\ leaked' = TRUE
          /\ refused' = refused + 1
          /\ UNCHANGED <<n, grew>>
       \/ /\ MayFail
          /\ refused' = refused + 1
          /\ UNCHANGED <<n, grew, leaked>>
    /\ acked' = acked + 1
    /\ Return(Scanner)
    /\ UNCHANGED <<exists, schema, ver, tasks, asked, fetched, first, len, start,
                   printed, failed, raced>>

ScannerKilled ==
    /\ pc[Scanner] # "idle" \/ leaked
    /\ Return(Scanner)
    /\ leaked' = FALSE
    /\ UNCHANGED <<fileVars, ver, listVars, recVars, raced>>

-----------------------------------------------------------------------------
(* hpssix-admin history: do_history_fetch. *)

(* history_cmd_main: --all sets count to 0, which stands for one page.      *)
Count(a) == IF asked[a] = 0 THEN PageSize ELSE asked[a]

Least(x, y) == IF x < y THEN x ELSE y

(* Mutant: the offset of a page is one after that of the last record.       *)
OffsetOneMore(a) == IF fetched[a] = 0 THEN 0 ELSE fetched[a] + 1

(* offset and fetched go on together.                                       *)
Offset(a) == fetched[a]

(* Mutant: the limit is the page's size, whatever is left.                  *)
ToFetchPage(a) == PageSize

(* What is left of count, up to a page.                                     *)
ToFetch(a) == Least(PageSize, Count(a) - fetched[a])

(* print_history_record; offset and fetched go on by what was printed.      *)
PrintHistory(a, top, m) ==
    /\ printed' = [printed EXCEPT ![a] = @ \cup (top - m + 1 .. top)]
    /\ fetched' = [fetched EXCEPT ![a] = @ + m]

HistoryEnd(a) ==
    /\ pc[a] = "page"
    /\ fetched[a] >= Count(a)
    /\ Return(a)
    /\ UNCHANGED <<fileVars, leaked, ver, listVars, recVars, raced>>

(* Mutant: an empty page does not end the loop.                             *)
FetchNoneGoesOn(a) ==
    /\ pc[a] = "page"
    /\ fetched[a] < Count(a)
    /\ ~Blocked /\ ~Stale(a)
    /\ n <= Offset(a)
    /\ len' = [len EXCEPT ![a] = 0]
    /\ UNCHANGED <<fileVars, pc, lock, leaked, ver, asked, fetched, first, start,
                   printed, grew, failed, recVars, raced>>

(* hpssix_mdb_fetch_history past the last record: the loop ends.            *)
FetchNone(a) ==
    /\ pc[a] = "page"
    /\ fetched[a] < Count(a)
    /\ ~Blocked /\ ~Stale(a)
    /\ n <= Offset(a)
    /\ len' = [len EXCEPT ![a] = 0]
    /\ Return(a)
    /\ UNCHANGED <<fileVars, leaked, ver, asked, fetched, first, start, printed,
                   grew, failed, recVars, raced>>

(* Mutant: every page is taken for a full one.                              *)
FetchRowFullPage(a) ==
    /\ pc[a] = "page"
    /\ fetched[a] < Count(a)
    /\ ~Blocked /\ ~Stale(a)
    /\ n > Offset(a)
    /\ first' = [first EXCEPT ![a] = n - Offset(a)]
    /\ len' = [len EXCEPT ![a] = ToFetch(a)]
    /\ start' = [start EXCEPT ![a] = IF fetched[a] = 0 THEN n ELSE @]
    /\ Step(a, "rows", "shared")
    /\ UNCHANGED <<fileVars, leaked, ver, asked, fetched, printed, grew, failed,
                   recVars, raced>>

(* The first row of a page: order by id desc limit fetched, ToFetch.        *)
FetchRow(a) ==
    /\ pc[a] = "page"
    /\ fetched[a] < Count(a)
    /\ ~Blocked /\ ~Stale(a)
    /\ n > Offset(a)
    /\ first' = [first EXCEPT ![a] = n - Offset(a)]
    /\ len' = [len EXCEPT ![a] = Least(ToFetch(a), n - Offset(a))]
    /\ start' = [start EXCEPT ![a] = IF fetched[a] = 0 THEN n ELSE @]
    /\ Step(a, "rows", "shared")
    /\ UNCHANGED <<fileVars, leaked, ver, asked, fetched, printed, grew, failed,
                   recVars, raced>>

(* fill_history reads the rest of the page, or as much as it can; 0 is      *)
(* returned in both cases and the page printed.                             *)
FetchRest(a) ==
    /\ pc[a] = "rows"
    /\ \E m \in 1 .. len[a] :
          /\ m = len[a] \/ MayFail
          /\ PrintHistory(a, first[a], m)
          /\ len' = [len EXCEPT ![a] = m]
    /\ Step(a, "page", "none")
    /\ UNCHANGED <<fileVars, leaked, ver, asked, first, start, grew, failed,
                   recVars, raced>>

(* The first step fails: 0 is returned, and outlen and records are those of *)
(* the page before, which is printed again; without one the listing ends.   *)
FetchFails(a) ==
    /\ pc[a] = "page"
    /\ fetched[a] < Count(a)
    /\ ~Blocked
    /\ Stale(a) \/ MayFail
    /\ failed' = failed \cup {a}
    /\ \/ /\ len[a] # 0
          /\ PrintHistory(a, first[a], len[a])
          /\ UNCHANGED <<pc, lock>>
       \/ /\ len[a] = 0
          /\ Return(a)
          /\ UNCHANGED <<printed, fetched>>
    /\ UNCHANGED <<fileVars, leaked, ver, asked, first, len, start, grew, recVars,
                   raced>>

AdminKilled(a) ==
    /\ pc[a] \notin {"idle", "done"}
    /\ Return(a)
    /\ UNCHANGED <<fileVars, leaked, ver, listVars, recVars, raced>>

-----------------------------------------------------------------------------
OpenStep(p) ==
    \/ CreateFile(p) \/ SchemaDrop(p) \/ SchemaCreate(p) \/ SchemaEnd(p)
    \/ Prepare(p) \/ Prepared(p)

ScannerStep == OpenStep(Scanner) \/ LastStatus \/ Insert \/ Commit

AdminStep(a) ==
    \/ OpenStep(a) \/ FetchNone(a) \/ FetchRow(a) \/ FetchRest(a)
    \/ HistoryEnd(a)

Next ==
    \/ ScannerStep \/ Work \/ ScannerKilled
    \/ \E p \in Proc : Open(p)
    \/ \E a \in Admins : AdminStep(a) \/ FetchFails(a) \/ AdminKilled(a)

Spec == Init /\ [][Next]_vars

(* The processes run.  Nobody has to start or to kill one, the tools of a   *)
(* task may take for ever, and only a changed schema is bound to fail.      *)
FairSpec ==
    /\ Spec
    /\ WF_vars(ScannerStep)
    /\ \A a \in Admins :
          WF_vars(AdminStep(a) \/ (Stale(a) /\ FetchFails(a)))

-----------------------------------------------------------------------------
(* Type invariant. *)
TypeOK ==
    /\ exists \in BOOLEAN /\ schema \in Nat /\ n \in Nat
    /\ pc \in [Proc -> {"idle", "create", "drop", "table", "end", "prepare",
                        "prepared", "last", "work", "insert", "commit",
                        "page", "rows", "done"}]
    /\ lock \in [Proc -> {"none", "shared", "reserved"}]
    /\ leaked \in BOOLEAN
    /\ ver \in [Proc -> Nat]
    /\ tasks \in 0 .. MaxTasks /\ acked \in Nat /\ refused \in Nat
    /\ asked \in [Admins -> 0 .. MaxCount]
    /\ fetched \in [Admins -> Nat]
    /\ first \in [Admins -> Nat]
    /\ len \in [Admins -> 0 .. PageSize]
    /\ start \in [Admins -> Nat]
    /\ printed \in [Admins -> SUBSET (Nat \ {0})]
    /\ grew \subseteq Admins /\ failed \subseteq Admins /\ raced \in BOOLEAN

(* A record that was committed is there for good: what the scanner has been *)
(* told is written is in the table unless COMMIT failed, whoever opens the  *)
(* database meanwhile.  The exception is two processes that found no file,  *)
(* the later of which drops the table of the earlier.                       *)
RecordsStay == ~raced => n = acked - refused

(* Of the records that were there when a listing began, it prints the       *)
(* newest ones and leaves none out between them, although each page is a    *)
(* query of its own and records are added between pages.  An error of       *)
(* sqlite, which is not reported, makes a gap.                              *)
ListingHasNoGap ==
    \A a \in Admins \ failed :
        \A i \in printed[a] : \A j \in i .. start[a] : j \in printed[a]

(* "## %lu records fetched.": the number a listing ends with is the number  *)
(* of records printed, and no more than were asked for; with an error or a  *)
(* record added between two pages some are printed, and counted, twice.     *)
FetchedAreDistinct ==
    \A a \in Admins \ failed :
        /\ fetched[a] <= Count(a)
        /\ a \in grew \/ Cardinality(printed[a]) = fetched[a]

(* The loops that retry while the database is busy come to an end.  The     *)
(* scanner's always do; a listing's, unless the lock of a failed COMMIT     *)
(* is left behind.                                                          *)
RetriesEnd ==
    /\ pc[Scanner] \in {"last", "insert"} ~> pc[Scanner] \notin {"last", "insert"}
    /\ \A a \in Admins : pc[a] = "page" ~> (pc[a] = "done" \/ leaked)
=============================================================================
