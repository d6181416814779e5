---------------------------- MODULE ExtractorTool ----------------------------
(***************************************************************************)
(* hpssix-extractor, the tool the extractor daemon launches: it counts the *)
(* rows of the work list the builder left, starts nthreads threads, gives  *)
(* each a consecutive share of the rows, and prints how many documents it  *)
(* indexed.  A thread fetches its share from the work list, then takes row *)
(* after row through the tika server into hpssix_attr_document.            *)
(* n_extracted is shared by the threads without any lock.                  *)
(***************************************************************************)
EXTENDS Integers, FiniteSets

CONSTANTS
    MaxObjects,     \* bound: the longest work list
    NThreads,       \* nthreads
    Verbose         \* --verbose: it decides where a failed row goes on

ASSUME MaxObjectsAssumption == MaxObjects \in Nat
ASSUME NThreadsAssumption == NThreads \in Nat \ {0}
ASSUME VerboseAssumption == Verbose \in BOOLEAN

Thread == 0 .. NThreads - 1
Main   == -1      \* the main thread, among those that failed

VARIABLES
    total_objects,\* the rows of the work list
    mainpc,       \* the main thread
    created,      \* how many threads pthread_create has started
    joined,       \* how many of them pthread_join has waited for
    printed,      \* the count in "## files extracted", -1 before it is printed
    tpc,          \* each worker thread
    idx,          \* the row of its list a thread is at
    last,         \* the end of its list, after hpssix_workdata_dispatch
    meta,         \* whether do_extract has metadata of the row
    reg,          \* the value n_extracted++ has loaded
    n_extracted,
    docs,         \* rows with a document of this run in hpssix_attr_document
    tried,        \* history: the rows do_extract was called for, per thread
    failed        \* history: threads, and main, that met a failing call

mainVars   == <<total_objects, mainpc, created, joined, printed>>
threadVars == <<tpc, idx, last, meta, reg, n_extracted, docs, tried>>
vars       == <<mainVars, threadVars, failed>>

-----------------------------------------------------------------------------
(* get_work_allocation: an equal share each, the rest to the last thread.   *)

PerEach == total_objects \div NThreads

OffsetOf(id) == PerEach * id

(* Mutant: the rest goes to every thread.                                   *)
CountOfRestForAll(id) == PerEach + (total_objects % NThreads)

CountOf(id) == PerEach + (IF id = NThreads - 1 THEN total_objects % NThreads ELSE 0)

(* The rows that "order by id asc limit offset, count" fetches.             *)
EndOf(id) ==
    IF OffsetOf(id) + CountOf(id) <= total_objects
    THEN OffsetOf(id) + CountOf(id) ELSE total_objects
Row       == 0 .. total_objects - 1
Share(id) == OffsetOf(id) .. EndOf(id) - 1

Init ==
    /\ total_objects \in 0 .. MaxObjects
    /\ mainpc = "start" /\ created = 0 /\ joined = 0 /\ printed = -1
    /\ tpc = [t \in Thread |-> "none"]
    /\ idx = [t \in Thread |-> 0]
    /\ last = [t \in Thread |-> 0]
    /\ meta = [t \in Thread |-> FALSE]
    /\ reg = [t \in Thread |-> 0]
    /\ n_extracted = 0
    /\ docs = {}
    /\ tried = [t \in Thread |-> {}]
    /\ failed = {}

-----------------------------------------------------------------------------
(* main *)

(* check_builder_output, hpssix_workdata_open and _get_total_count: without *)
(* a work list the tool ends with nothing printed; an empty one is reported *)
(* as nothing extracted.                                                    *)
MainStart ==
    /\ mainpc = "start"
    /\ \/ /\ total_objects > 0
          /\ mainpc' = "create"
          /\ UNCHANGED <<printed, failed>>
       \/ /\ total_objects = 0
          /\ mainpc' = "exit" /\ printed' = n_extracted
          /\ UNCHANGED failed
       \/ /\ mainpc' = "exit" /\ failed' = failed \cup {Main}
          /\ UNCHANGED printed
    /\ UNCHANGED <<total_objects, created, joined, threadVars>>

(* pthread_create; a failure goes straight to the end.                      *)
MainCreate ==
    /\ mainpc = "create"
    /\ \/ /\ created < NThreads
          /\ created' = created + 1
          /\ tpc' = [tpc EXCEPT ![created] = "dispatch"]
          /\ UNCHANGED <<mainpc, failed>>
       \/ /\ created = NThreads
          /\ mainpc' = "join"
          /\ UNCHANGED <<created, tpc, failed>>
       \/ /\ created < NThreads
          /\ mainpc' = "print" /\ failed' = failed \cup {Main}
          /\ UNCHANGED <<created, tpc>>
    /\ UNCHANGED <<total_objects, joined, printed, idx, last, meta, reg,
                   n_extracted, docs, tried>>

(* Mutant: the loop that joins stops one thread early.                      *)
MainJoinAllButLast ==
    /\ mainpc = "join"
    /\ \/ /\ joined < NThreads - 1
          /\ tpc[joined] = "done"
          /\ joined' = joined + 1
          /\ UNCHANGED mainpc
       \/ /\ joined = NThreads - 1
          /\ mainpc' = "print"
          /\ UNCHANGED joined
    /\ UNCHANGED <<total_objects, created, printed, threadVars, failed>>

MainJoin ==
    /\ mainpc = "join"
    /\ \/ /\ joined < NThreads
          /\ tpc[joined] = "done"
          /\ joined' = joined + 1
          /\ UNCHANGED mainpc
       \/ /\ joined = NThreads
          /\ mainpc' = "print"
          /\ UNCHANGED joined
    /\ UNCHANGED <<total_objects, created, printed, threadVars, failed>>

(* The count is printed and main returns, which ends every thread left.     *)
MainPrint ==
    /\ mainpc = "print"
    /\ printed' = n_extracted
    /\ mainpc' = "exit"
    /\ UNCHANGED <<total_objects, created, joined, threadVars, failed>>

-----------------------------------------------------------------------------
(* extractor_worker_func *)

Runs(t) == mainpc # "exit" /\ tpc[t] \notin {"none", "done"}

(* hpssix_workdata_open and _dispatch.  An empty share is an EIO, too; a    *)
(* step that fails behind the first row is taken for the end of the share.  *)
Dispatch(t) ==
    /\ Runs(t) /\ tpc[t] = "dispatch"
    /\ \/ \E n \in OffsetOf(t) + 1 .. EndOf(t) :
             /\ idx' = [idx EXCEPT ![t] = OffsetOf(t)]
             /\ last' = [last EXCEPT ![t] = n]
             /\ tpc' = [tpc EXCEPT ![t] = "connect"]
             /\ failed' = IF n = EndOf(t) THEN failed ELSE failed \cup {t}
       \/ /\ Share(t) = {}
          /\ tpc' = [tpc EXCEPT ![t] = "done"]
          /\ UNCHANGED <<idx, last, failed>>
       \/ /\ tpc' = [tpc EXCEPT ![t] = "done"]
          /\ failed' = failed \cup {t}
          /\ UNCHANGED <<idx, last>>
    /\ UNCHANGED <<mainVars, meta, reg, n_extracted, docs, tried>>

(* hpssix_db_connect: every thread has a connection of its own.             *)
Connect(t) ==
    /\ Runs(t) /\ tpc[t] = "connect"
    /\ \/ /\ tpc' = [tpc EXCEPT ![t] = "loop"]
          /\ UNCHANGED failed
       \/ /\ tpc' = [tpc EXCEPT ![t] = "done"]
          /\ failed' = failed \cup {t}
    /\ UNCHANGED <<mainVars, idx, last, meta, reg, n_extracted, docs, tried>>

(* Mutant: the loop runs to its bound inclusively.                          *)
NextRowOneMore(t) ==
    /\ Runs(t) /\ tpc[t] = "loop"
    /\ \/ /\ idx[t] <= last[t]
          /\ tried' = [tried EXCEPT ![t] = @ \cup {idx[t]}]
          /\ tpc' = [tpc EXCEPT ![t] = "meta"]
       \/ /\ idx[t] > last[t]
          /\ tpc' = [tpc EXCEPT ![t] = "done"]
          /\ UNCHANGED tried
    /\ UNCHANGED <<mainVars, idx, last, meta, reg, n_extracted, docs, failed>>

(* The loop over the list: do_extract is called for the next row, or the    *)
(* list ends.                                                               *)
NextRow(t) ==
    /\ Runs(t) /\ tpc[t] = "loop"
    /\ \/ /\ idx[t] < last[t]
          /\ tried' = [tried EXCEPT ![t] = @ \cup {idx[t]}]
          /\ tpc' = [tpc EXCEPT ![t] = "meta"]
       \/ /\ idx[t] = last[t]
          /\ tpc' = [tpc EXCEPT ![t] = "done"]
          /\ UNCHANGED tried
    /\ UNCHANGED <<mainVars, idx, last, meta, reg, n_extracted, docs, failed>>

(* Whatever do_extract returns, the loop goes on with the row after it.     *)
Advance(t) ==
    /\ tpc' = [tpc EXCEPT ![t] = "loop"]
    /\ idx' = [idx EXCEPT ![t] = @ + 1]

(* do_extract up to hpssix_extractor_get_meta: the file cannot be opened;   *)
(* tika gives metadata; or it gives none and --verbose skips the content.   *)
ExtractMeta(t) ==
    /\ Runs(t) /\ tpc[t] = "meta"
    /\ \/ /\ Advance(t)
          /\ UNCHANGED meta
       \/ \E got \in BOOLEAN :
             /\ meta' = [meta EXCEPT ![t] = got]
             /\ tpc' = [tpc EXCEPT ![t] =
                          IF ~got /\ Verbose THEN "index" ELSE "content"]
             /\ UNCHANGED idx
    /\ UNCHANGED <<mainVars, last, reg, n_extracted, docs, tried, failed>>

(* hpssix_extractor_get_content: with or without text, indexing is next.    *)
ExtractContent(t) ==
    /\ Runs(t) /\ tpc[t] = "content"
    /\ tpc' = [tpc EXCEPT ![t] = "index"]
    /\ UNCHANGED <<mainVars, idx, last, meta, reg, n_extracted, docs, tried,
                   failed>>

(* Mutant: the count goes up although the insert failed.                    *)
IndexTsvAlwaysCounts(t) ==
    /\ Runs(t) /\ tpc[t] = "index"
    /\ \/ /\ meta[t]
          /\ docs' \in {docs, docs \cup {idx[t]}}
          /\ tpc' = [tpc EXCEPT ![t] = "load"]
          /\ UNCHANGED idx
       \/ /\ ~meta[t]
          /\ Advance(t)
          /\ UNCHANGED docs
    /\ UNCHANGED <<mainVars, last, meta, reg, n_extracted, tried, failed>>

(* Mutant: a row that could not be indexed is tried again.                  *)
IndexTsvRetries(t) ==
    /\ Runs(t) /\ tpc[t] = "index"
    /\ \/ /\ meta[t]
          /\ docs' = docs \cup {idx[t]}
          /\ tpc' = [tpc EXCEPT ![t] = "load"]
       \/ /\ tpc' = [tpc EXCEPT ![t] = "loop"]
          /\ UNCHANGED docs
    /\ UNCHANGED <<mainVars, idx, last, meta, reg, n_extracted, tried, failed>>

(* hpssix_db_index_tsv, for a row with metadata.                            *)
IndexTsv(t) ==
    /\ Runs(t) /\ tpc[t] = "index"
    /\ \/ /\ meta[t]
          /\ docs' = docs \cup {idx[t]}
          /\ tpc' = [tpc EXCEPT ![t] = "load"]
          /\ UNCHANGED idx
       \/ /\ Advance(t)
          /\ UNCHANGED docs
    /\ UNCHANGED <<mainVars, last, meta, reg, n_extracted, tried, failed>>

(* n_extracted++ is a load and a store of a variable the threads share.     *)
CountLoad(t) ==
    /\ Runs(t) /\ tpc[t] = "load"
    /\ reg' = [reg EXCEPT ![t] = n_extracted]
    /\ tpc' = [tpc EXCEPT ![t] = "store"]
    /\ UNCHANGED <<mainVars, idx, last, meta, n_extracted, docs, tried, failed>>

CountStore(t) ==
    /\ Runs(t) /\ tpc[t] = "store"
    /\ n_extracted' = reg[t] + 1
    /\ Advance(t)
    /\ UNCHANGED <<mainVars, last, meta, reg, docs, tried, failed>>

-----------------------------------------------------------------------------
ThreadStep(t) ==
    \/ Dispatch(t) \/ Connect(t) \/ NextRow(t) \/ ExtractMeta(t)
    \/ ExtractContent(t) \/ IndexTsv(t) \/ CountLoad(t) \/ CountStore(t)

MainStep == MainStart \/ MainCreate \/ MainJoin \/ MainPrint

Next == MainStep \/ \E t \in Thread : ThreadStep(t)

Spec == Init /\ [][Next]_vars

(* Threads are scheduled and their calls return, except those to the tika   *)
(* server, which have no time-out.                                          *)
OwnStep(t) ==
    \/ Dispatch(t) \/ Connect(t) \/ NextRow(t) \/ IndexTsv(t)
    \/ CountLoad(t) \/ CountStore(t)

FairSpec ==
    /\ Spec
    /\ WF_vars(MainStep) /\ \A t \in Thread : WF_vars(OwnStep(t))

-----------------------------------------------------------------------------
(* Type invariant: in particular no thread goes past the rows there are.    *)
TypeOK ==
    /\ total_objects \in 0 .. MaxObjects
    /\ mainpc \in {"start", "create", "join", "print", "exit"}
    /\ created \in 0 .. NThreads /\ joined \in 0 .. NThreads
    /\ printed \in Int
    /\ tpc \in [Thread -> {"none", "dispatch", "connect", "loop", "meta", "content",
                            "index", "load", "store", "done"}]
    /\ idx \in [Thread -> 0 .. MaxObjects]
    /\ last \in [Thread -> 0 .. MaxObjects]
    /\ meta \in [Thread -> BOOLEAN]
    /\ reg \in [Thread -> Nat]
    /\ n_extracted \in Nat
    /\ docs \subseteq Row
    /\ tried \in [Thread -> SUBSET Row]
    /\ failed \subseteq Thread \cup {Main}

(* Two threads never work on the same row: the shares get_work_allocation   *)
(* computes do not overlap, whatever the remainder of the division.         *)
NoRowTwice ==
    \A t, u \in Thread : t # u => tried[t] \cap tried[u] = {}

(* When the tool prints its count and no call failed on the way, noticed or *)
(* not, every row of the work list has been through do_extract: the shares  *)
(* leave no gap, also with fewer rows than threads, and main waits for all  *)
(* of them.                                                                 *)
AllRowsTried ==
    (printed >= 0 /\ failed = {}) => UNION {tried[t] : t \in Thread} = Row

(* The unlocked n_extracted may lose increments and go back, but it never   *)
(* counts a document that was not indexed.                                  *)
CountNeverOver ==
    n_extracted <= Cardinality(docs) /\ printed <= Cardinality(docs)

(* The tool comes to its end, or a thread waits for the tika server for     *)
(* ever: neither empty shares, failed rows, failed threads nor the order in *)
(* which threads are joined can hold it up.                                 *)
ToolEnds ==
    \/ <>(mainpc = "exit")
    \/ \E t \in Thread : <>[](tpc[t] \in {"meta", "content"})

(* How many steps a thread and main have left at most: six for a row.       *)
RowsLeft(t) == last[t] - idx[t]
StepsLeft(t) ==
    CASE tpc[t] = "none"     -> 6 * (EndOf(t) - OffsetOf(t)) + 4
      [] tpc[t] = "dispatch" -> 6 * (EndOf(t) - OffsetOf(t)) + 3
      [] tpc[t] = "connect"  -> 6 * RowsLeft(t) + 2
      [] tpc[t] = "loop"     -> 6 * RowsLeft(t) + 1
      [] tpc[t] = "meta"     -> 6 * RowsLeft(t)
      [] tpc[t] = "content"  -> 6 * RowsLeft(t) - 1
      [] tpc[t] = "index"    -> 6 * RowsLeft(t) - 2
      [] tpc[t] = "load"     -> 6 * RowsLeft(t) - 3
      [] tpc[t] = "store"    -> 6 * RowsLeft(t) - 4
      [] tpc[t] = "done"     -> 0
MainLeft ==
    CASE mainpc = "start"  -> 2 * NThreads + 4
      [] mainpc = "create" -> 2 * NThreads + 3 - created
      [] mainpc = "join"   -> NThreads + 2 - joined
      [] mainpc = "print"  -> 1
      [] mainpc = "exit"   -> 0

Shrinks ==
    /\ MainLeft \in Nat /\ MainLeft' <= MainLeft
    /\ \A t \in Thread : StepsLeft(t) \in Nat /\ StepsLeft(t)' <= StepsLeft(t)
    /\ MainLeft' < MainLeft \/ \E t \in Thread : StepsLeft(t)' < StepsLeft(t)

(* The tool's steps run out on every schedule, fair or not: each brings the *)
(* thread that takes it nearer to its end and takes none further from it.   *)
(* No failing call sends a thread back to a row it has been at, and the     *)
(* rest of the division makes no list endless.                              *)
StepsRunOut == [][Shrinks]_vars
=============================================================================
