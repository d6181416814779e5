---------------------------- MODULE BuilderTool -----------------------------
(***************************************************************************)
(* hpssix-builder: the four files of a task are brought into the index one *)
(* after the other in a transaction of PostgreSQL, and the documents among *)
(* them written to a work list, which is a sqlite file with a transaction  *)
(* of its own.  Calls of both databases fail, files are missing or cannot  *)
(* be parsed, and the tool crashes or is killed anywhere.                  *)
(*                                                                         *)
(* Indexing has the whole of it as one step, Build or BuildFailed.         *)
(***************************************************************************)
EXTENDS Integers, FiniteSets

CONSTANTS
    Oid,          \* object ids
    Kinds,        \* what an object may be: st_mode, st_size, extension
    MaxFileSize,  \* config->extractor_maxfilesize
    Exts,         \* the extensions of extfilter.conf, in lower case
    Begins,       \* pairs of extensions, the first of which begins the second
    Indices       \* what the index may have before

NoExt == "no dot"

ASSUME OidAssumption   == IsFiniteSet(Oid)
ASSUME KindsAssumption == Kinds \subseteq [reg : BOOLEAN, size : Nat, ext : STRING]
ASSUME MaxFileSizeAssumption == MaxFileSize \in Nat
ASSUME ExtsAssumption  == NoExt \notin Exts

(* The tables of the index, with the version each row has: of an earlier    *)
(* task, or of this one.                                                    *)
Ver   == {"old", "new"}
Rows  == UNION {[S -> Ver] : S \in SUBSET Oid}
Index == [object : Rows, invalid : SUBSET Oid, file : Rows, attr_val : Rows]
Empty == [object |-> [o \in {} |-> "old"], invalid |-> {},
          file |-> [o \in {} |-> "old"], attr_val |-> [o \in {} |-> "old"]]

ASSUME IndicesAssumption == Indices \subseteq Index

File == {"fattr", "path", "xattr", "deleted"}

VARIABLES
    files,    \* the rows of the scanner's four files, by object id
    kind,     \* st_mode, st_size and extension of each object in them
    initdb,   \* --init
    filter,   \* the extensions read from extfilter.conf
    pc,       \* where the tool is
    stage,    \* the file that is being processed
    ret,      \* whether do_builder's ret is still 0
    txn,      \* the transaction: none, open, or failed
    auto,     \* whether BEGIN failed, so that each statement is a transaction
    copying,  \* whether the connection is in COPY_IN state
    work,     \* the tables as the transaction sees them
    db,       \* the tables as they are committed
    list,     \* hpssix_workdata in builder.<task>.db, as committed
    buffer,   \* "files indexed" in the buffer of stdout
    printed,  \* and as read by the daemon; -1: nothing
    before,   \* history: db when the tool was started
    unended,  \* history: END did not get through, or was not reached
    unlisted  \* history: the work list's end transaction failed

pgVars   == <<txn, copying, work, db>>
taskVars == <<files, kind, initdb, before, auto>>
vars     == <<taskVars, filter, pc, stage, ret, pgVars, list, buffer, printed,
              unended, unlisted>>

(* A file may end early, when its EXPORT failed.                            *)
Init ==
    /\ files \in [fattr : SUBSET Oid, path : SUBSET Oid, xattr : SUBSET Oid,
                  deleted : SUBSET Oid]
    /\ kind \in [Oid -> Kinds]
    /\ initdb \in BOOLEAN
    /\ db \in Indices /\ before = db /\ work = db
    /\ pc = "start" /\ stage = "fattr" /\ ret = TRUE
    /\ txn = "none" /\ auto = FALSE /\ copying = FALSE
    /\ filter = {} /\ list = {}
    /\ buffer = -1 /\ printed = -1
    /\ unended = FALSE /\ unlisted = FALSE

-----------------------------------------------------------------------------
(* UPDATE the rows there are, INSERT the others.                            *)
Upsert(rows, S) ==
    [o \in DOMAIN rows \cup S |-> IF o \in S THEN "new" ELSE rows[o]]

Without(rows, S) == [o \in DOMAIN rows \ S |-> rows[o]]

(* A call succeeded.                                                        *)
Goto(to) == pc' = to /\ UNCHANGED ret

(* goto out_finish with an error.                                           *)
Abort == pc' = "finish" /\ ret' = FALSE

(* A statement changed the tables.                                          *)
Visible == db' = IF auto THEN work' ELSE db

(* PQexec, or the end of a copy: outside of a transaction that is well      *)
(* nothing succeeds, and whatever fails in it makes it fail as a whole.     *)
PqFails == Abort /\ txn' = "failed" /\ copying' = FALSE /\ UNCHANGED <<work, db>>

(* The process ends: PostgreSQL and sqlite roll back what is open, and what *)
(* is in a buffer is lost.                                                  *)
Gone ==
    /\ pc' = "gone"
    /\ txn' = "none" /\ copying' = FALSE /\ work' = db
    /\ UNCHANGED <<ret, db>>

-----------------------------------------------------------------------------
(* main. *)

(* hpssix_extfilter_get, where a read error leaves no extension, and the    *)
(* connection to the database; without them the tool ends.                  *)
Start ==
    /\ pc = "start" /\ ~initdb
    /\ \/ /\ filter' \in {Exts, {}}
          /\ Goto("begin")
          /\ UNCHANGED pgVars
       \/ Gone /\ UNCHANGED filter
    /\ UNCHANGED <<taskVars, stage, list, buffer, printed, unended, unlisted>>

(* hpssix_db_initialize sends the schema, a transaction, in one string.     *)
Initialize ==
    /\ pc = "start" /\ initdb
    /\ db' \in {Empty, db}
    /\ work' = db'
    /\ Goto("gone")
    /\ UNCHANGED <<taskVars, filter, stage, txn, copying, list, buffer, printed,
                   unended, unlisted>>

(* BEGIN: nobody looks whether it failed.  When the connection is lost no   *)
(* other call succeeds; when it is not, they do without a transaction.      *)
Begin ==
    /\ pc = "begin"
    /\ Goto("open")
    /\ \/ txn' \in {"open", "failed"} /\ UNCHANGED auto
       \/ txn' = "open" /\ auto' = TRUE
    /\ UNCHANGED <<files, kind, initdb, before, filter, stage, copying, work, db, list, buffer,
                   printed, unended, unlisted>>

-----------------------------------------------------------------------------
(* hpssix_db_copy, for fattr, path and deleted.                             *)

AfterStage == [fattr |-> "path", path |-> "xattr", xattr |-> "deleted",
               deleted |-> "deleted"]
NextStep   == [fattr |-> "open", path |-> "collect", xattr |-> "open",
               deleted |-> "list"]

CopyOpen ==
    /\ pc = "open"
    /\ Goto("copy") \/ Abort
    /\ UNCHANGED <<taskVars, filter, stage, pgVars, list, buffer, printed, unended,
                   unlisted>>

(* CREATE TEMPORARY TABLE and COPY.  process_xattrs copies without a table. *)
CopyInit ==
    /\ pc = "copy"
    /\ \/ /\ txn = "open"
          /\ copying' = TRUE
          /\ Goto("lines")
          /\ UNCHANGED <<txn, work, db>>
       \/ PqFails
    /\ UNCHANGED <<taskVars, filter, stage, list, buffer, printed, unended, unlisted>>

(* The lines, each through line_processor if there is one.  With an error   *)
(* the copy is aborted, unless it comes with the first line: then it is     *)
(* left to the next PQexec.  A tag without a value is a null pointer.       *)
CopyLines ==
    /\ pc = "lines"
    /\ \/ Goto("end") /\ UNCHANGED pgVars
       \/ PqFails
       \/ /\ stage # "xattr"
          /\ Abort /\ UNCHANGED pgVars
       \/ stage = "xattr" /\ files.xattr # {} /\ Gone
    /\ UNCHANGED <<taskVars, filter, stage, list, buffer, printed, unended, unlisted>>

(* What the copied rows do to the tables: stmt_fini, or in the case of tags *)
(* the copy itself.                                                         *)
Apply ==
    work' = CASE stage = "fattr"   -> [work EXCEPT !.object = Upsert(@, files.fattr)]
              [] stage = "path"    -> [work EXCEPT !.file = Upsert(@, files.path)]
              [] stage = "xattr"   -> [work EXCEPT !.attr_val = Upsert(@, files.xattr)]
              [] stage = "deleted" ->
                    [work EXCEPT !.invalid =
                        @ \cup (files.deleted \cap DOMAIN work.object)]

(* hpssix_file and hpssix_attr_val refer to hpssix_object.                  *)
Refers == stage \in {"path", "xattr"} => files[stage] \subseteq DOMAIN work.object

(* Mutant: END comes before the work list.                                  *)
CopyEndCommits ==
    /\ pc = "end"
    /\ \/ /\ txn = "open"
          /\ copying' = FALSE
          /\ Apply
          /\ Goto(NextStep[stage])
          /\ stage' = AfterStage[stage]
          /\ db' = IF stage = "deleted" THEN work' ELSE db
          /\ UNCHANGED txn
       \/ PqFails /\ UNCHANGED stage
    /\ UNCHANGED <<taskVars, filter, list, buffer, printed, unended, unlisted>>

(* hpssix_db_copy_end, which is where a row is refused, and stmt_fini.      *)
CopyEnd ==
    /\ pc = "end"
    /\ \/ /\ txn = "open" /\ Refers
          /\ copying' = FALSE
          /\ Apply /\ Visible
          /\ Goto(NextStep[stage])
          /\ stage' = AfterStage[stage]
          /\ UNCHANGED txn
       \/ PqFails /\ UNCHANGED stage
    /\ UNCHANGED <<taskVars, filter, list, buffer, printed, unended, unlisted>>

-----------------------------------------------------------------------------
(* hpssix_builder_process_xattrs.                                           *)

(* builder_collect_xattrs.  After a line that cannot be parsed the clean-up *)
(* goes below index 0, which is never less than 0, and the tool crashes.    *)
Collect ==
    /\ pc = "collect"
    /\ \/ Goto("delete") /\ UNCHANGED pgVars
       \/ Abort /\ UNCHANGED pgVars
       \/ files.xattr # {} /\ Gone
    /\ UNCHANGED <<taskVars, filter, stage, list, buffer, printed, unended, unlisted>>

(* hpssix_db_delete_xattrs and hpssix_db_populate_xattr_keys.  A call for   *)
(* each object, which may fail when some are done.                          *)
DeleteXattrs ==
    /\ pc = "delete"
    /\ \/ /\ txn = "open"
          /\ work' = [work EXCEPT !.attr_val = Without(@, files.xattr)]
          /\ Visible
          /\ Goto("copy")
          /\ UNCHANGED <<txn, copying>>
       \/ PqFails
       \/ /\ txn = "open"
          /\ \E S \in SUBSET files.xattr :
                work' = [work EXCEPT !.attr_val = Without(@, S)]
          /\ Visible
          /\ Abort
          /\ txn' = "failed" /\ UNCHANGED copying
    /\ UNCHANGED <<taskVars, filter, stage, list, buffer, printed, unended, unlisted>>

-----------------------------------------------------------------------------
(* hpssix_builder_create_workdata.                                          *)

(* hpssix_workdata_create: a new file with an empty table.                  *)
WorkCreate ==
    /\ pc = "list"
    /\ Goto("query") \/ Abort
    /\ UNCHANGED <<taskVars, filter, stage, pgVars, list, buffer, printed, unended,
                   unlisted>>

WorkQuery ==
    /\ pc = "query"
    /\ \/ txn = "open" /\ Goto("append") /\ UNCHANGED pgVars
       \/ PqFails
    /\ UNCHANGED <<taskVars, filter, stage, list, buffer, printed, unended, unlisted>>

(* Mutant: the largest size is one too many.                                *)
FilterMetaExtractBelow(k) ==
    /\ k.reg /\ k.size < MaxFileSize
    /\ k.ext # NoExt
    /\ \E e \in filter : k.ext = e \/ <<k.ext, e>> \in Begins

(* builder_filter_meta_extract compares as many characters as the file's    *)
(* extension has.                                                           *)
FilterMetaExtract(k) ==
    /\ k.reg /\ k.size <= MaxFileSize
    /\ k.ext # NoExt
    /\ \E e \in filter : k.ext = e \/ <<k.ext, e>> \in Begins

WorkRows ==
    {o \in files.fattr \cap files.path :
        kind[o].size > 0 /\ FilterMetaExtract(kind[o])}

(* Mutant: what was appended before an error is kept.                       *)
WorkAppendKeeps ==
    /\ pc = "append"
    /\ \/ /\ Goto("finish")
          /\ buffer' = Cardinality(files.fattr)
          /\ list' = WorkRows
       \/ /\ Abort
          /\ list' = WorkRows
          /\ UNCHANGED buffer
    /\ UNCHANGED <<taskVars, filter, stage, pgVars, printed, unended, unlisted>>

(* The rows are appended and the list's transaction ended, of which nobody  *)
(* looks whether it did; the counts go to stdout.  Or a row cannot be       *)
(* appended and the list is rolled back.                                    *)
WorkAppend ==
    /\ pc = "append"
    /\ \/ /\ Goto("finish")
          /\ buffer' = Cardinality(files.fattr)
          /\ \/ list' = WorkRows /\ UNCHANGED unlisted
             \/ unlisted' = TRUE /\ UNCHANGED list
       \/ /\ Abort
          /\ UNCHANGED <<list, buffer, unlisted>>
    /\ UNCHANGED <<taskVars, filter, stage, pgVars, printed, unended>>

-----------------------------------------------------------------------------
(* Mutant: the transaction is ended in any case.                            *)
FinishEnds ==
    /\ pc = "finish"
    /\ Goto("exit")
    /\ IF txn = "open"
       THEN db' = work /\ UNCHANGED <<work, unended>>
       ELSE work' = db /\ UNCHANGED <<db, unended>>
    /\ txn' = "none" /\ copying' = FALSE
    /\ UNCHANGED <<taskVars, filter, stage, list, buffer, printed, unlisted>>

(* Mutant: the counts are flushed with END still to come.                   *)
FinishFlushes ==
    /\ pc = "finish"
    /\ Goto("exit")
    /\ printed' = buffer
    /\ work' = db
    /\ txn' = "none" /\ copying' = FALSE
    /\ UNCHANGED <<taskVars, filter, stage, db, list, buffer, unended, unlisted>>

(* END or ABORT; nobody looks whether END did.                              *)
Finish ==
    /\ pc = "finish"
    /\ Goto("exit")
    /\ \/ /\ ret /\ txn = "open"
          /\ db' = work
          /\ UNCHANGED <<work, unended>>
       \/ /\ ret
          /\ work' = db /\ unended' = TRUE
          /\ UNCHANGED db
       \/ /\ ~ret
          /\ work' = db
          /\ UNCHANGED <<db, unended>>
    /\ txn' = "none" /\ copying' = FALSE
    /\ UNCHANGED <<taskVars, filter, stage, list, buffer, printed, unlisted>>

(* stdout is a pipe and flushed at the end.                                 *)
Exit ==
    /\ pc = "exit"
    /\ printed' = buffer
    /\ Goto("gone")
    /\ UNCHANGED <<taskVars, filter, stage, pgVars, list, buffer, unended, unlisted>>

Killed ==
    /\ pc # "gone"
    /\ Gone
    /\ unended' = (unended \/ (pc = "finish" /\ ret))
    /\ UNCHANGED <<taskVars, filter, stage, list, buffer, printed, unlisted>>

-----------------------------------------------------------------------------
Next ==
    \/ Start \/ Initialize \/ Begin
    \/ CopyOpen \/ CopyInit \/ CopyLines \/ CopyEnd
    \/ Collect \/ DeleteXattrs
    \/ WorkCreate \/ WorkQuery \/ WorkAppend
    \/ Finish \/ Exit \/ Killed

Spec == Init /\ [][Next]_vars

-----------------------------------------------------------------------------
(* Type invariant: a count is printed at most by a tool that has ended.     *)
TypeOK ==
    /\ files \in [fattr : SUBSET Oid, path : SUBSET Oid, xattr : SUBSET Oid,
                  deleted : SUBSET Oid]
    /\ kind \in [Oid -> Kinds]
    /\ initdb \in BOOLEAN /\ ret \in BOOLEAN /\ copying \in BOOLEAN /\ auto \in BOOLEAN
    /\ unended \in BOOLEAN /\ unlisted \in BOOLEAN
    /\ filter \in {Exts, {}}
    /\ pc \in {"start", "begin", "open", "copy", "lines", "end", "collect",
               "delete", "list", "query", "append", "finish", "exit", "gone"}
    /\ stage \in File
    /\ txn \in {"none", "open", "failed"}
    /\ work \in Index /\ db \in Index /\ before \in Index
    /\ list \subseteq Oid
    /\ buffer \in Int /\ printed \in Int
    /\ printed # -1 => pc = "gone"

(* What a task's files make of the index.                                   *)
Result ==
    [object   |-> Upsert(before.object, files.fattr),
     file     |-> Upsert(before.file, files.path),
     attr_val |-> Upsert(before.attr_val, files.xattr),
     invalid  |-> before.invalid \cup
                  (files.deleted \cap (DOMAIN before.object \cup files.fattr))]

(* The index has all of a task or nothing, whatever fails and wherever the  *)
(* tool ends: Build and BuildFailed of Indexing are all there is.  Only a   *)
(* BEGIN that fails on a connection that works makes it otherwise.          *)
AllOrNothing == ~auto => db \in {before, IF initdb THEN Empty ELSE Result}

(* "## files indexed" and the work list are written before END: what they   *)
(* name is in the index, unless END did not get through or the tool was     *)
(* killed between.                                                          *)
ReportedIsIndexed ==
    (pc = "gone" /\ (printed > 0 \/ list # {}) /\ ~unended) =>
        db = Result /\ printed \in {-1, Cardinality(files.fattr)}

(* "This is a whitelist, meaning that the contents from files having the    *)
(* following extensions will be extracted and indexed": what is documented, *)
(* and what is found beyond it, an extension that only begins a listed one. *)
Listed(k) ==
    k.reg /\ k.size \in 1 .. MaxFileSize /\ k.ext \in Exts
BeginsListed(k) == \E e \in Exts : <<k.ext, e>> \in Begins

(* When a task is committed its work list has every document that           *)
(* extfilter.conf asks for, and others only if their extension begins one   *)
(* of those.  The list is lost when the filter could not be read or the     *)
(* list's own transaction did not end, neither of which stops the tool.     *)
DocumentsAreListed ==
    (printed # -1 /\ ~unlisted /\ filter = Exts) =>
        \A o \in files.fattr \cap files.path :
            /\ Listed(kind[o]) => o \in list
            /\ o \in list => Listed(kind[o]) \/ BeginsListed(kind[o])
(* The steps of hpssix-builder as AtomicTask has them: how far the task is  *)
(* can be seen from the counts in stdout's buffer, which are put there when *)
(* tables and list are complete.                                            *)
Target == IF initdb THEN Empty ELSE Result

Phase ==
    IF pc \notin {"exit", "gone"}
    THEN IF buffer = -1 THEN "running" ELSE "written"
    ELSE IF buffer = -1 THEN IF initdb /\ db = Empty THEN "committed" ELSE "failed"
    ELSE IF unended THEN "lost" ELSE "committed"

Promise == INSTANCE AtomicTask WITH
    reset <- initdb, target <- Target, index <- db, phase <- Phase,
    told <- (printed # -1), bare <- auto

(* Over every failing call and every crash the tool implements AtomicTask:  *)
(* the index changes in one step, once, after the work list is complete,    *)
(* and is not touched again; the counts go out after that step.  If BEGIN   *)
(* fails the index changes in several steps, all of them before that.       *)
ImplementsAtomicTask == Promise!Spec
=============================================================================
