------------------------------ MODULE Indexing ------------------------------
(***************************************************************************)
(* What one task does to the index: the scan script collects objects from  *)
(* the HPSS name space by id and by date and exports what it knows of them *)
(* to files, statement after statement while the name space goes on        *)
(* changing; the builder brings the files into the index in one            *)
(* transaction; the scanner records how far the task came, and the next    *)
(* task starts from that record.                                           *)
(***************************************************************************)
EXTENDS Integers, FiniteSets

CONSTANTS
    MaxOid,      \* bound: objects are numbered 1 .. MaxOid, in order of creation
    Parent,      \* the directory of each object, 0 for the root
    FirstOid,    \* config->first_oid
    MaxDay,      \* bound: the last day the model reaches
    MaxChanges,  \* bound: how often users change what they created
    MayFail,     \* whether statements of the script and the builder may fail
    MayAbort,    \* whether tasks may be aborted, by an error or a crash
    MayOrphan,   \* whether builders may outlive their daemon or their task
    MayUntag,    \* whether users remove tags
    Daily        \* whether every day sees a task through

Oid == 1 .. MaxOid

ASSUME MaxOidAssumption     == MaxOid \in Nat
ASSUME ParentAssumption     == \A o \in Oid : Parent[o] \in 0 .. o - 1
ASSUME FirstOidAssumption   == FirstOid \in Nat
ASSUME MaxDayAssumption     == MaxDay \in Nat \ {0}
ASSUME MaxChangesAssumption == MaxChanges \in Nat
ASSUME FlagsAssumption      == {MayFail, MayAbort, MayOrphan, MayUntag, Daily}
                               \subseteq BOOLEAN

VARIABLES
    day,        \* today
    ran,        \* whether a task came to its end today
    nxt,        \* the newest object's id
    live,       \* objecttable: the objects that exist
    attr,       \* the version of each object's attributes,
    path,       \* of its full path
    tag,        \* and of its tags, 0 for none
    changes,    \* how many changes users made
    hist,       \* objecttable_history, fileinfo_history
    pc,         \* where the task is
    last, from, \* last_objid and fromdate of the scan script
    ts,         \* status.scanner_start, as a day
    temp,       \* session.temp
    out,        \* the exported files: rows by object id
    missing,    \* the files whose EXPORT failed
    orphan,     \* the files of a builder whose task is gone, and that task's day
    object,     \* hpssix_object,
    invalid,    \* the objects of it with valid = false,
    file,       \* hpssix_file
    attr_val,   \* and hpssix_attr_val in the index database
    mdb,        \* the newest record of the master database, 0 where there is none
    lossy,      \* history: what failed in a task that went on all the same
    above,      \* history: objects that moved with a directory above them
    untagged,   \* history: objects that lost their tags
    untouched   \* history: objects with a tag set and no utime after it

hpssVars  == <<nxt, live, attr, path, tag, changes, hist, above, untagged,
               untouched>>
taskVars  == <<last, from, ts, temp, out, missing>>
indexVars == <<object, invalid, file, attr_val>>
vars      == <<day, ran, pc, hpssVars, taskVars, indexVars, mdb, lossy, orphan>>

-----------------------------------------------------------------------------
Ver   == 0 .. MaxChanges
Table == {"object", "fileinfo"}
File  == {"fattr", "path", "xattr", "deleted"}
Empty == [o \in {} |-> 0]
NoFiles == [fattr |-> Empty, path |-> Empty, xattr |-> Empty, deleted |-> {}]
NoOrphan == [day |-> 0, out |-> NoFiles]

(* Row sets with versions, as partial functions of the object id.           *)
Rows == UNION {[S -> Ver] : S \in SUBSET Oid}

(* UPDATE the rows there are, INSERT the others.                            *)
Upsert(old, new) ==
    [o \in DOMAIN old \cup DOMAIN new |->
        IF o \in DOMAIN new THEN new[o] ELSE old[o]]

(* o and what is below it: fullpath follows parent_id up to the root.       *)
Below(d) ==
    LET in[o \in Oid] == o = d \/ (Parent[o] # 0 /\ in[Parent[o]])
    IN  {o \in Oid : in[o]}

Init ==
    /\ day = 1 /\ ran = FALSE /\ nxt = 0 /\ live = {} /\ changes = 0 /\ hist = {}
    /\ attr = [o \in Oid |-> 0] /\ path = attr /\ tag = attr
    /\ pc = "idle" /\ last = 0 /\ from = 0 /\ ts = 0
    /\ temp = {} /\ out = NoFiles /\ missing = {}
    /\ object = Empty /\ invalid = {} /\ file = Empty /\ attr_val = Empty
    /\ mdb = [oid_end |-> 0, ts |-> 0] /\ orphan = NoOrphan
    /\ lossy = {} /\ above = {} /\ untagged = {} /\ untouched = {}

-----------------------------------------------------------------------------
(* Users of the name space.  HPSS keeps the old row of a changed or deleted *)
(* object in a history table, under the day it ended.                       *)

Changed(o, t) == hist' = hist \cup {[table |-> t, oid |-> o, day |-> day]}

Create ==
    /\ nxt < MaxOid
    /\ Parent[nxt + 1] = 0 \/ Parent[nxt + 1] \in live
    /\ nxt' = nxt + 1
    /\ live' = live \cup {nxt + 1}
    /\ UNCHANGED <<day, ran, pc, attr, path, tag, changes, hist, above, untagged,
                   untouched, taskVars, indexVars, mdb, lossy, orphan>>

Delete(o) ==
    /\ o \in live
    /\ \A c \in live : Parent[c] # o
    /\ live' = live \ {o}
    /\ Changed(o, "object")
    /\ UNCHANGED <<day, ran, pc, nxt, attr, path, tag, changes, above, untagged,
                   untouched, taskVars, indexVars, mdb, lossy, orphan>>

(* chmod and chown end a row of objecttable, writes one of fileinfo.        *)
SetAttr(o, t) ==
    /\ o \in live
    /\ changes < MaxChanges
    /\ changes' = changes + 1
    /\ attr' = [attr EXCEPT ![o] = changes + 1]
    /\ Changed(o, t)
    /\ UNCHANGED <<day, ran, pc, nxt, live, path, tag, above, untagged,
                   untouched, taskVars, indexVars, mdb, lossy, orphan>>

(* A path is put together from the names above the object: renaming moves   *)
(* everything below, and ends the row of the renamed object only.           *)
Rename(o) ==
    /\ o \in live
    /\ changes < MaxChanges
    /\ changes' = changes + 1
    /\ path' = [q \in Oid |-> IF q \in Below(o) THEN changes + 1 ELSE path[q]]
    /\ above' = above \cup (Below(o) \ {o})
    /\ Changed(o, "object")
    /\ UNCHANGED <<day, ran, pc, nxt, live, attr, tag, untagged, untouched,
                   taskVars, indexVars, mdb, lossy, orphan>>

(* hpssix-tag set: setxattr,                                                *)
TagSet(o) ==
    /\ o \in live
    /\ changes < MaxChanges
    /\ changes' = changes + 1
    /\ tag' = [tag EXCEPT ![o] = changes + 1]
    /\ untouched' = untouched \cup {o}
    /\ UNCHANGED <<day, ran, pc, nxt, live, attr, path, hist, above, untagged,
                   taskVars, indexVars, mdb, lossy, orphan>>

(* and utime, so that the change is noticed.  It never comes when the tool  *)
(* is killed between the two, or utime fails.  (attr leaves out the times.) *)
TagTouch(o) ==
    /\ o \in live \cap untouched
    /\ untouched' = untouched \ {o}
    /\ Changed(o, "fileinfo")
    /\ UNCHANGED <<day, ran, pc, nxt, live, attr, path, tag, changes, above, untagged,
                   taskVars, indexVars, mdb, lossy, orphan>>

(* hpssix-tag del: removexattr, without utime.                              *)
TagDel(o) ==
    /\ MayUntag
    /\ o \in live /\ tag[o] # 0
    /\ tag' = [tag EXCEPT ![o] = 0]
    /\ untagged' = untagged \cup {o}
    /\ UNCHANGED <<day, ran, pc, nxt, live, attr, path, changes, hist, above,
                   untouched, taskVars, indexVars, mdb, lossy, orphan>>

Tick ==
    /\ day < MaxDay
    /\ Daily => ran /\ pc = "idle"
    /\ day' = day + 1 /\ ran' = FALSE
    /\ UNCHANGED <<pc, hpssVars, taskVars, indexVars, mdb, lossy, orphan>>

-----------------------------------------------------------------------------
(* The task, up to launch_scanner_process. *)

(* Mutant: only the last day counts, however old the record is.             *)
NextFromYesterday == day - 1

(* Mutant: the scan starts from today when there is no last oid.            *)
NextFromToday == IF mdb.oid_end = 0 THEN day ELSE mdb.ts - 1

(* Mutant: no day is taken off the day of the record.                       *)
NextFromRecord == IF mdb.oid_end = 0 THEN day - 1 ELSE mdb.ts

(* hpssix_mdb_get_last_scanned_status gives the newest record; the test for *)
(* the first scan looks at its oid alone.  Then one day is taken off.       *)
NextLast == IF mdb.oid_end = 0 THEN FirstOid ELSE mdb.oid_end
NextFrom == IF mdb.oid_end = 0 THEN day - 1 ELSE mdb.ts - 1

Launch ==
    /\ pc = "idle"
    /\ pc' = "new"
    /\ last' = NextLast /\ from' = NextFrom /\ ts' = day
    /\ UNCHANGED <<day, ran, hpssVars, temp, out, missing, indexVars, mdb, lossy, orphan>>

(* The task ends without a record: a call failed, or a daemon died.         *)
TaskGone ==
    /\ pc' = "idle" /\ last' = 0 /\ from' = 0 /\ ts' = 0
    /\ temp' = {} /\ out' = NoFiles /\ missing' = {}

(* Mutant: an empty string is not a number, and taken for an error.         *)
EndOidOrError ==
    IF DOMAIN out.fattr = {} THEN -1
    ELSE CHOOSE o \in DOMAIN out.fattr : \A q \in DOMAIN out.fattr : q <= o

(* end_oid is the id in the last line of the fattr file, which is ordered;  *)
(* from an empty file, an empty string and then 0.                          *)
EndOid ==
    IF DOMAIN out.fattr = {} THEN 0
    ELSE CHOOSE o \in DOMAIN out.fattr : \A q \in DOMAIN out.fattr : q <= o

(* Mutant: a task whose builder did not answer is put on record like any.   *)
TaskAbortedRecords ==
    /\ MayAbort
    /\ pc = "build" /\ DOMAIN out.fattr # {}
    /\ mdb' = [oid_end |-> EndOid, ts |-> ts]
    /\ TaskGone
    /\ UNCHANGED <<day, ran, hpssVars, indexVars, lossy, orphan>>

(* A builder that had begun goes on when its daemon is killed, or when the   *)
(* scanner has given up the call.  Bound: one such builder at a time.       *)
TaskAborted ==
    /\ MayAbort
    /\ pc # "idle"
    /\ TaskGone
    /\ \/ UNCHANGED orphan
       \/ /\ MayOrphan
          /\ pc = "build" /\ missing = {} /\ orphan = NoOrphan
          /\ orphan' = [day |-> ts, out |-> out]
    /\ UNCHANGED <<day, ran, hpssVars, indexVars, mdb, lossy>>

(* The objects that were changed or deleted since fromdate, by table.       *)
Ended(t) == {h.oid : h \in {x \in hist : x.table = t /\ x.day >= from}}

(* Mutant: the newest object already scanned is taken for scanned, and the  *)
(* one after it, too.                                                       *)
CollectNewOffByOne ==
    /\ pc = "new"
    /\ pc' = "changed"
    /\ \/ /\ temp' = {o \in live : o > last + 1}
          /\ UNCHANGED lossy
       \/ /\ MayFail
          /\ lossy' = lossy \cup {"new"}
          /\ UNCHANGED temp
    /\ UNCHANGED <<day, ran, hpssVars, last, from, ts, out, missing, indexVars, mdb,
                   orphan>>

(* INSERT INTO session.temp, the objects with a new id.  As with every      *)
(* statement of the script, nobody looks whether it failed.                 *)
CollectNew ==
    /\ pc = "new"
    /\ pc' = "changed"
    /\ \/ /\ temp' = {o \in live : o > last}
          /\ UNCHANGED lossy
       \/ /\ MayFail
          /\ lossy' = lossy \cup {"new"}
          /\ UNCHANGED temp
    /\ UNCHANGED <<day, ran, hpssVars, last, from, ts, out, missing, indexVars, mdb,
                   orphan>>

(* INSERT INTO session.temp, the known objects whose row ended.             *)
CollectChanged ==
    /\ pc = "changed"
    /\ pc' = "merge"
    /\ \/ /\ temp' = temp \cup {o \in Ended("object") : o <= last}
          /\ UNCHANGED lossy
       \/ /\ MayFail
          /\ lossy' = lossy \cup {"changed"}
          /\ UNCHANGED temp
    /\ UNCHANGED <<day, ran, hpssVars, last, from, ts, out, missing, indexVars, mdb,
                   orphan>>

(* Mutant: the comparison with the last oid is turned round.                *)
CollectMergeNewOnly ==
    /\ pc = "merge"
    /\ pc' = "fattr"
    /\ temp' = temp \cup {o \in live \cap Ended("fileinfo") : o > last}
    /\ UNCHANGED <<day, ran, hpssVars, last, from, ts, out, missing, indexVars, mdb,
                   lossy, orphan>>

(* MERGE INTO session.temp, the known objects whose fileinfo ended.         *)
CollectMerge ==
    /\ pc = "merge"
    /\ pc' = "fattr"
    /\ \/ /\ temp' = temp \cup {o \in live \cap Ended("fileinfo") : o <= last}
          /\ UNCHANGED lossy
       \/ /\ MayFail
          /\ lossy' = lossy \cup {"changed"}
          /\ UNCHANGED temp
    /\ UNCHANGED <<day, ran, hpssVars, last, from, ts, out, missing, indexVars, mdb,
                   orphan>>

(* The rows of the objects in S, with the versions v has.                   *)
RowsOf(v, S) == [o \in S |-> v[o]]

(* What may be left of a file with an ORDER BY that was not written to its  *)
(* end.  Lines are whole.                                                   *)
Beginnings(S) == {{o \in S : o < n} : n \in S}

(* An EXPORT statement: the rows as they are now; or it fails, and there is *)
(* no file, or one with a part of the rows.                                 *)
Export(f, rows, parts) ==
    /\ \/ /\ out' = [out EXCEPT ![f] = rows]
          /\ UNCHANGED <<missing, lossy>>
       \/ /\ MayFail
          /\ missing' = missing \cup {f}
          /\ UNCHANGED <<out, lossy>>
       \/ /\ MayFail
          /\ \E part \in parts : out' = [out EXCEPT ![f] = part]
          /\ lossy' = lossy \cup {"part"}
          /\ UNCHANGED missing
    /\ UNCHANGED <<day, ran, hpssVars, last, from, ts, temp, indexVars, mdb, orphan>>

ExportFattr ==
    /\ pc = "fattr" /\ pc' = "path"
    /\ Export("fattr", RowsOf(attr, temp \cap live),
              {RowsOf(attr, S) : S \in Beginnings(temp \cap live)})

ExportPath ==
    /\ pc = "path" /\ pc' = "xattr"
    /\ Export("path", RowsOf(path, temp \cap live),
              {RowsOf(path, S) : S \in Beginnings(temp \cap live)})

(* The tagged objects, in no order.                                         *)
ExportXattr ==
    LET tagged == {o \in temp \cap live : tag[o] # 0}
    IN  /\ pc = "xattr" /\ pc' = "deleted"
        /\ Export("xattr", RowsOf(tag, tagged),
                  {RowsOf(tag, S) : S \in SUBSET tagged})

ExportDeleted ==
    /\ pc = "deleted" /\ pc' = "report"
    /\ Export("deleted", Ended("object") \ live, Beginnings(Ended("object") \ live))

(* do_scanner reads the counts, and stops when there is nothing to do.      *)
Report ==
    /\ pc = "report"
    /\ \/ /\ DOMAIN out.fattr # {} \/ out.deleted # {}
          /\ pc' = "build"
          /\ UNCHANGED <<ran, taskVars>>
       \/ /\ DOMAIN out.fattr = {} /\ out.deleted = {}
          /\ TaskGone
          /\ ran' = TRUE
    /\ UNCHANGED <<day, hpssVars, indexVars, mdb, lossy, orphan>>

-----------------------------------------------------------------------------
(* The builder, do_builder of hpssix-builder: one transaction. *)

(* hpssix_builder_process_*: objects, paths and tags in turn, and last the  *)
(* objects to mark, among those there are by then.  A path or a tag refers  *)
(* to an object of the index.                                               *)
ProcessFattr(files)   == object' = Upsert(object, files.fattr)
ProcessPath(files)    == file' = Upsert(file, files.path)
ProcessXattrs(files)  == attr_val' = Upsert(attr_val, files.xattr)
ProcessDeleted(files) == invalid' = invalid \cup (files.deleted \cap DOMAIN object')

Process(files) ==
    /\ ProcessFattr(files) /\ ProcessPath(files) /\ ProcessXattrs(files)
    /\ ProcessDeleted(files)
    /\ DOMAIN files.path \cup DOMAIN files.xattr \subseteq DOMAIN object'

Build ==
    /\ pc = "build"
    /\ missing = {}
    /\ pc' = "record"
    /\ Process(out)
    /\ UNCHANGED <<day, ran, hpssVars, taskVars, mdb, lossy, orphan>>

(* A file is missing or a statement failed: all is rolled back, no count is *)
(* printed, and the daemon answers 0 as if nothing had been there.          *)
BuildFailed ==
    /\ pc = "build"
    /\ MayFail
    /\ pc' = "record"
    /\ lossy' = lossy \cup {"build"}
    /\ UNCHANGED <<day, ran, hpssVars, taskVars, indexVars, mdb, orphan>>

(* The builder of a lost task comes to its end, before or after the ones of *)
(* later tasks: it commits what was true when its files were written, or    *)
(* rolls back.                                                              *)
OrphanEnds ==
    /\ orphan # NoOrphan
    /\ orphan' = NoOrphan
    /\ \/ /\ Process(orphan.out)
          /\ lossy' = IF day > orphan.day + 1 THEN lossy \cup {"late"} ELSE lossy
       \/ UNCHANGED <<indexVars, lossy>>
    /\ UNCHANGED <<day, ran, pc, hpssVars, taskVars, mdb>>

(* Two builders insert the same object, or the same new key of a tag: the   *)
(* second waits for the first, and is rolled back.                          *)
OrphanWins ==
    /\ orphan # NoOrphan /\ pc = "build"
    /\ \/ (DOMAIN orphan.out.fattr \cap DOMAIN out.fattr) \ DOMAIN object # {}
       \/ DOMAIN orphan.out.xattr # {} /\ DOMAIN out.xattr # {}
    /\ orphan' = NoOrphan
    /\ Process(orphan.out)
    /\ pc' = "record"
    /\ lossy' = lossy \cup {"build"}
    /\ UNCHANGED <<day, ran, hpssVars, taskVars, mdb>>

(* hpssix_mdb_record, with status 0, once the workers have answered.        *)
Record ==
    /\ pc = "record"
    /\ mdb' = [oid_end |-> EndOid, ts |-> ts]
    /\ TaskGone
    /\ ran' = TRUE
    /\ UNCHANGED <<day, hpssVars, indexVars, lossy, orphan>>

-----------------------------------------------------------------------------
TaskStep ==
    \/ CollectNew \/ CollectChanged \/ CollectMerge
    \/ ExportFattr \/ ExportPath \/ ExportXattr \/ ExportDeleted
    \/ Report \/ Build \/ BuildFailed \/ Record

UserStep ==
    \/ Create
    \/ \E o \in Oid : \/ Delete(o) \/ Rename(o) \/ TagSet(o) \/ TagTouch(o) \/ TagDel(o)
                      \/ \E t \in Table : SetAttr(o, t)

Next ==
    \/ UserStep \/ Tick \/ Launch \/ TaskStep
    \/ TaskAborted \/ OrphanEnds \/ OrphanWins

Spec == Init /\ [][Next]_vars

(* The scanner's thread and the script go on by themselves, and tasks are   *)
(* launched again and again.                                                *)
FairSpec ==
    /\ Spec
    /\ WF_vars(TaskStep) /\ WF_vars(Launch)

-----------------------------------------------------------------------------
(* Type invariant. *)
TypeOK ==
    /\ day \in 1 .. MaxDay /\ ran \in BOOLEAN
    /\ nxt \in 0 .. MaxOid /\ live \subseteq 1 .. nxt
    /\ attr \in [Oid -> Ver] /\ path \in [Oid -> Ver] /\ tag \in [Oid -> Ver]
    /\ changes \in Ver
    /\ hist \subseteq [table : Table, oid : 1 .. nxt, day : 1 .. day]
    /\ pc \in {"idle", "new", "changed", "merge", "fattr", "path", "xattr",
               "deleted", "report", "build", "record"}
    /\ last \in Nat /\ from \in Int /\ ts \in 0 .. day
    /\ temp \subseteq 1 .. nxt
    /\ out \in [fattr : Rows, path : Rows, xattr : Rows, deleted : SUBSET Oid]
    /\ missing \subseteq File
    /\ object \in Rows /\ file \in Rows /\ attr_val \in Rows
    /\ invalid \subseteq DOMAIN object
    /\ mdb \in [oid_end : 0 .. nxt, ts : 0 .. day]
    /\ lossy \subseteq {"new", "changed", "part", "build", "late"}
    /\ orphan \in [day : Nat,
                   out : [fattr : Rows, path : Rows, xattr : Rows, deleted : SUBSET Oid]]
    /\ above \subseteq Oid /\ untagged \subseteq Oid /\ untouched \subseteq Oid

(* The objects the next task will collect.                                  *)
Coming ==
    {o \in live : \/ o > NextLast
                  \/ \E h \in hist : h.oid = o /\ h.day >= NextFrom}

(* The watermark a task leaves in the master database never passes over an  *)
(* object that exists and is not in the index, although objects come and go *)
(* between the statements of the script, tasks are aborted anywhere, and    *)
(* the watermark may go back.  Only two failures can make it: of the INSERT *)
(* that collects the new objects, and of the builder.                       *)
NoneSkipped ==
    lossy \cap {"new", "build"} = {} =>
        \A o \in live : (FirstOid < o /\ o <= NextLast) => o \in DOMAIN object

(* Whatever the index has of an existing object is what the name space has, *)
(* or the next task will collect the object again: a change made during a   *)
(* scan, between two of its exports, or while a task is aborted, is not     *)
(* forgotten.  Left out: paths that changed with a directory above, tags    *)
(* that were removed, and tags that were set without the utime after it.    *)
MetadataFollows ==
    lossy = {} => \A o \in live :
        \/ o <= FirstOid
        \/ o \in Coming
        \/ /\ o \in DOMAIN object /\ object[o] = attr[o]
           /\ o \in DOMAIN file
           /\ o \in above \/ file[o] = path[o]
           /\ \/ o \in untagged \cup untouched
              \/ tag[o] = 0
              \/ o \in DOMAIN attr_val /\ attr_val[o] = tag[o]

(* "scanning from the previous day for deleted/updated files": an object    *)
(* that was deleted is invalid in the index, or the next task will find it. *)
DeletionsFollow ==
    (lossy = {} /\ pc = "idle") => \A o \in DOMAIN object \ invalid :
        \/ o \in live
        \/ \E h \in hist : h.table = "object" /\ h.oid = o /\ h.day >= NextFrom

(* When users stop changing things, the index comes to agree with the name  *)
(* space: all its objects are there, with their attributes, and what was    *)
(* deleted is invalid.                                                      *)
Agrees ==
    /\ \A o \in live : o > FirstOid => o \in DOMAIN object /\ object[o] = attr[o]
    /\ DOMAIN object \ invalid \subseteq live
IndexCatchesUp == <>[]Agrees
=============================================================================
