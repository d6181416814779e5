------------------------- MODULE BuilderToolProofs --------------------------
(***************************************************************************)
(* hpssix-builder leaves all of a task in the index or nothing, and what   *)
(* it reports and lists is in the index, for every set of objects, index   *)
(* and filter; call by call it implements AtomicTask.                      *)
(***************************************************************************)
EXTENDS BuilderTool, FiniteSetTheorems, TLAPS

(* Tables in the transaction, by how far it has come.                       *)
FattrDone   == work.object = Upsert(before.object, files.fattr)
PathDone    == work.file = Upsert(before.file, files.path)
XattrDone   == work.attr_val = Upsert(before.attr_val, files.xattr)
DeletedDone == work.invalid = before.invalid \cup
                   (files.deleted \cap (DOMAIN before.object \cup files.fattr))

InTables == {"begin", "open", "copy", "lines", "end", "collect", "delete"}
InList   == {"list", "query", "append"}

Tables ==
    /\ pc \in InTables =>
          /\ IF stage = "fattr" THEN work.object = before.object ELSE FattrDone
          /\ IF stage \in {"fattr", "path"} THEN work.file = before.file ELSE PathDone
          /\ IF stage = "deleted" THEN XattrDone
             ELSE work.attr_val \in {before.attr_val,
                                     Without(before.attr_val, files.xattr)}
          /\ work.invalid = before.invalid
    /\ pc \in {"collect", "delete"} => stage = "xattr"
    /\ pc \notin {"finish", "exit", "gone"} => ret
    /\ pc = "begin" => stage = "fattr"
    /\ pc = "start" => work = before /\ stage = "fattr"
    /\ (pc \in InList \/ (pc = "finish" /\ ret)) =>
          FattrDone /\ PathDone /\ XattrDone /\ DeletedDone

(* What is committed, and what has been said of it.                         *)
Committed ==
    /\ pc \notin {"exit", "gone"} => db = IF auto THEN work ELSE before
    /\ pc \in {"start", "begin"} => ~auto /\ work = before
    /\ pc \notin {"start", "gone"} => ~initdb
    /\ ~auto => db \in {before, IF initdb THEN Empty ELSE Result}

Said ==
    /\ buffer # -1 \/ list # {} =>
          \/ pc = "finish" /\ ret
          \/ pc \in {"exit", "gone"} /\ (unended \/ db = Result)
    /\ buffer \in {-1, Cardinality(files.fattr)}
    /\ buffer # -1 => unlisted \/ list = WorkRows
    /\ printed \in {-1, buffer}

IInv == TypeOK /\ Tables /\ Committed /\ Said

-----------------------------------------------------------------------------
(* Lemmas on the tables.                                                    *)

LEMMA UpsertRows ==
  ASSUME NEW r \in Rows, NEW S \in SUBSET Oid
  PROVE  Upsert(r, S) \in Rows /\ DOMAIN Upsert(r, S) = DOMAIN r \cup S
<1>1. DOMAIN r \subseteq Oid /\ r \in [DOMAIN r -> Ver]
  BY DEF Rows
<1>2. Upsert(r, S) \in [DOMAIN r \cup S -> Ver] /\ DOMAIN r \cup S \in SUBSET Oid
  BY <1>1 DEF Upsert, Ver
<1> QED
  BY <1>2 DEF Rows

LEMMA WithoutRows ==
  ASSUME NEW r \in Rows, NEW S \in SUBSET Oid
  PROVE  Without(r, S) \in Rows
<1>1. DOMAIN r \subseteq Oid /\ r \in [DOMAIN r -> Ver]
  BY DEF Rows
<1>2. Without(r, S) \in [DOMAIN r \ S -> Ver] /\ DOMAIN r \ S \in SUBSET Oid
  BY <1>1 DEF Without
<1> QED
  BY <1>2 DEF Rows

(* Old tags are deleted first, and it makes no difference to the result.    *)
LEMMA UpsertWithout ==
  ASSUME NEW r \in Rows, NEW S \in SUBSET Oid
  PROVE  /\ Upsert(Without(r, S), S) = Upsert(r, S)
         /\ Without(Without(r, S), S) = Without(r, S)
BY DEF Upsert, Without

LEMMA EmptyIndex == Empty \in Index
<1>1. [o \in {} |-> "old"] \in [{} -> Ver]
  BY DEF Ver
<1>2. [o \in {} |-> "old"] \in Rows
  BY <1>1 DEF Rows
<1> QED
  BY <1>2 DEF Empty, Index

-----------------------------------------------------------------------------
LEMMA InitInv == Init => IInv
<1> SUFFICES ASSUME Init PROVE IInv
  OBVIOUS
<1>1. db \in Index /\ work \in Index /\ before \in Index
  BY IndicesAssumption DEF Init
<1>1a. /\ initdb \in BOOLEAN /\ ret \in BOOLEAN /\ copying \in BOOLEAN
       /\ unended \in BOOLEAN /\ unlisted \in BOOLEAN /\ auto \in BOOLEAN
  BY DEF Init
<1>1b. /\ files \in [fattr : SUBSET Oid, path : SUBSET Oid, xattr : SUBSET Oid,
                      deleted : SUBSET Oid]
       /\ kind \in [Oid -> Kinds]
       /\ filter \in {Exts, {}}
       /\ stage \in File
       /\ list \subseteq Oid
       /\ buffer \in Int /\ printed \in Int
  BY DEF Init, File
<1>1c. TypeOK
  BY <1>1, <1>1a, <1>1b DEF Init, TypeOK
<1>2. Tables /\ Committed /\ Said
  BY DEF Init, Tables, FattrDone, PathDone, XattrDone, DeletedDone, Committed, Said,
     InTables, InList
<1> QED
  BY <1>1c, <1>2 DEF IInv

(* Before END the transaction has what the task makes of the index.         *)
LEMMA WorkIsResult ==
  ASSUME IInv, pc \in InList \/ (pc = "finish" /\ ret)
  PROVE  work = Result
<1>1. FattrDone /\ PathDone /\ XattrDone /\ DeletedDone
  BY DEF IInv, Tables
<1>2. work = [object |-> work.object, invalid |-> work.invalid,
              file |-> work.file, attr_val |-> work.attr_val]
  BY DEF IInv, TypeOK, Index
<1> QED
  BY <1>1, <1>2 DEF Result, FattrDone, PathDone, XattrDone, DeletedDone

(* Every step preserves the invariant.                                      *)
LEMMA NextInv == IInv /\ [Next]_vars => IInv'
<1> SUFFICES ASSUME IInv, [Next]_vars PROVE IInv'
  OBVIOUS
<1> USE DEF IInv
<1>1. CASE Start
  <2>1. TypeOK'
    BY <1>1 DEF TypeOK, Start, Goto, Abort, PqFails, Gone, vars, taskVars, pgVars
  <2>2. Tables'
    <3>1. CASE Gone
      BY <3>1 DEF Tables, InTables, InList, Gone
    <3>2. CASE Goto("begin") /\ UNCHANGED pgVars
      <4>1. ret' /\ pc' = "begin"
        BY <1>1, <3>2 DEF Tables, Start, Goto
      <4>2. stage' = "fattr" /\ work' = before'
        BY <1>1, <3>2 DEF Tables, Start, taskVars, pgVars
      <4> QED
        BY <4>1, <4>2 DEF Tables, InTables, InList
    <3> QED
      BY <1>1, <3>1, <3>2 DEF Start
  <2>3. Committed'
    BY <1>1 DEF TypeOK, Committed, Result, Start, Goto, Abort, PqFails, Gone, vars, taskVars, pgVars
  <2>4. Said'
    BY <1>1 DEF TypeOK, Said, Committed, Result, WorkRows, FilterMetaExtract, Start, Goto, Abort, PqFails, Gone, vars, taskVars, pgVars
  <2> QED
    BY <2>1, <2>2, <2>3, <2>4
<1>2. CASE Initialize
  <2>1. TypeOK'
    BY <1>2, EmptyIndex DEF TypeOK, Initialize, Goto, taskVars
  <2>2. Tables'
    BY <1>2 DEF TypeOK, Tables, InTables, InList, FattrDone, PathDone, XattrDone,
       DeletedDone, Initialize, Goto, Abort, PqFails, Gone, vars, taskVars, pgVars
  <2>3. Committed'
    BY <1>2 DEF TypeOK, Committed, Result, Initialize, Goto, Abort, PqFails, Gone, vars, taskVars, pgVars
  <2>4. Said'
    BY <1>2 DEF TypeOK, Said, Committed, Result, WorkRows, FilterMetaExtract, Initialize, Goto, Abort, PqFails, Gone, vars, taskVars, pgVars
  <2> QED
    BY <2>1, <2>2, <2>3, <2>4
<1>3. CASE Begin
  <2>1. TypeOK'
    BY <1>3 DEF TypeOK, Begin, Goto, Abort, PqFails, Gone, vars, taskVars, pgVars
  <2>2. Tables'
    BY <1>3 DEF TypeOK, Tables, InTables, InList, FattrDone, PathDone, XattrDone,
       DeletedDone, Begin, Goto, Abort, PqFails, Gone, vars, taskVars, pgVars
  <2>3. Committed'
    BY <1>3 DEF TypeOK, Committed, Result, Begin, Goto, Abort, PqFails, Gone, vars, taskVars, pgVars
  <2>4. Said'
    BY <1>3 DEF TypeOK, Said, Committed, Result, WorkRows, FilterMetaExtract, Begin, Goto, Abort, PqFails, Gone, vars, taskVars, pgVars
  <2> QED
    BY <2>1, <2>2, <2>3, <2>4
<1>4. CASE CopyOpen
  <2>1. TypeOK'
    BY <1>4 DEF TypeOK, CopyOpen, Goto, Abort, PqFails, Gone, vars, taskVars, pgVars
  <2>2. Tables'
    BY <1>4 DEF TypeOK, Tables, InTables, InList, FattrDone, PathDone, XattrDone,
       DeletedDone, CopyOpen, Goto, Abort, PqFails, Gone, vars, taskVars, pgVars
  <2>3. Committed'
    BY <1>4 DEF TypeOK, Committed, Result, CopyOpen, Goto, Abort, PqFails, Gone, vars, taskVars, pgVars
  <2>4. Said'
    BY <1>4 DEF TypeOK, Said, Committed, Result, WorkRows, FilterMetaExtract, CopyOpen, Goto, Abort, PqFails, Gone, vars, taskVars, pgVars
  <2> QED
    BY <2>1, <2>2, <2>3, <2>4
<1>5. CASE CopyInit
  <2>1. TypeOK'
    BY <1>5 DEF TypeOK, CopyInit, Goto, Abort, PqFails, Gone, vars, taskVars, pgVars
  <2>2. Tables'
    BY <1>5 DEF TypeOK, Tables, InTables, InList, FattrDone, PathDone, XattrDone,
       DeletedDone, CopyInit, Goto, Abort, PqFails, Gone, vars, taskVars, pgVars
  <2>3. Committed'
    BY <1>5 DEF TypeOK, Committed, Result, CopyInit, Goto, Abort, PqFails, Gone, vars, taskVars, pgVars
  <2>4. Said'
    BY <1>5 DEF TypeOK, Said, Committed, Result, WorkRows, FilterMetaExtract, CopyInit, Goto, Abort, PqFails, Gone, vars, taskVars, pgVars
  <2> QED
    BY <2>1, <2>2, <2>3, <2>4
<1>6. CASE CopyLines
  <2>1. TypeOK'
    BY <1>6 DEF TypeOK, CopyLines, Goto, Abort, PqFails, Gone, vars, taskVars, pgVars
  <2>2. Tables'
    BY <1>6 DEF TypeOK, Tables, InTables, InList, FattrDone, PathDone, XattrDone,
       DeletedDone, CopyLines, Goto, Abort, PqFails, Gone, vars, taskVars, pgVars
  <2>3. Committed'
    BY <1>6 DEF TypeOK, Committed, Result, CopyLines, Goto, Abort, PqFails, Gone, vars, taskVars, pgVars
  <2>4. Said'
    BY <1>6 DEF TypeOK, Said, Committed, Result, WorkRows, FilterMetaExtract, CopyLines, Goto, Abort, PqFails, Gone, vars, taskVars, pgVars
  <2> QED
    BY <2>1, <2>2, <2>3, <2>4
<1>7. CASE CopyEnd
  <2> USE <1>7
  <2>0. ASSUME PqFails, UNCHANGED stage PROVE TypeOK' /\ Tables'
    <3>1. TypeOK'
      BY <2>0 DEF TypeOK, CopyEnd, PqFails, Abort, taskVars
    <3>2. Tables'
      BY <2>0 DEF Tables, InTables, InList, CopyEnd, PqFails, Abort, taskVars
    <3> QED
      BY <3>1, <3>2
  <2>a. ASSUME Apply, Goto(NextStep[stage]), stage' = AfterStage[stage],
               copying' = FALSE, Visible, UNCHANGED txn
        PROVE  TypeOK' /\ Tables'
    <3>1. /\ work.object \in Rows /\ work.file \in Rows /\ work.attr_val \in Rows
          /\ work.invalid \in SUBSET Oid
          /\ before.object \in Rows /\ before.attr_val \in Rows
          /\ work = [object |-> work.object, invalid |-> work.invalid,
                     file |-> work.file, attr_val |-> work.attr_val]
          /\ files.fattr \in SUBSET Oid /\ files.path \in SUBSET Oid
          /\ files.xattr \in SUBSET Oid /\ files.deleted \in SUBSET Oid
      BY DEF TypeOK, Index
    <3>2. /\ Upsert(work.object, files.fattr) \in Rows
          /\ Upsert(work.file, files.path) \in Rows
          /\ Upsert(work.attr_val, files.xattr) \in Rows
          /\ DOMAIN Upsert(before.object, files.fattr) = DOMAIN before.object \cup files.fattr
          /\ Upsert(Without(before.attr_val, files.xattr), files.xattr)
                = Upsert(before.attr_val, files.xattr)
      BY <3>1, UpsertRows, UpsertWithout
    <3>3. /\ files' = files /\ before' = before
          /\ pc = "end" /\ stage \in File
          /\ pc' = NextStep[stage] /\ stage' = AfterStage[stage] /\ ret' = ret
      BY <2>a DEF CopyEnd, Goto, taskVars, TypeOK
    <3>4. /\ work' \in Index
          /\ pc' \in {"open", "collect", "list"} /\ stage' \in File
          /\ Tables'
      <4>1. CASE stage = "fattr"
        <5>1. pc' = "open" /\ stage' = "path"
          BY <3>3, <4>1 DEF NextStep, AfterStage
        <5>2. work' = [work EXCEPT !.object = Upsert(@, files.fattr)]
          BY <2>a, <4>1 DEF Apply
        <5> QED
          BY <3>1, <3>2, <3>3, <4>1, <5>1, <5>2 DEF Tables, InTables, InList, FattrDone,
             PathDone, XattrDone, DeletedDone, Index, File
      <4>2. CASE stage = "path"
        <5>1. pc' = "collect" /\ stage' = "xattr"
          BY <3>3, <4>2 DEF NextStep, AfterStage
        <5>2. work' = [work EXCEPT !.file = Upsert(@, files.path)]
          BY <2>a, <4>2 DEF Apply
        <5> QED
          BY <3>1, <3>2, <3>3, <4>2, <5>1, <5>2 DEF Tables, InTables, InList, FattrDone,
             PathDone, XattrDone, DeletedDone, Index, File
      <4>3. CASE stage = "xattr"
        <5>1. pc' = "open" /\ stage' = "deleted"
          BY <3>3, <4>3 DEF NextStep, AfterStage
        <5>2. work' = [work EXCEPT !.attr_val = Upsert(@, files.xattr)]
          BY <2>a, <4>3 DEF Apply
        <5> QED
          BY <3>1, <3>2, <3>3, <4>3, <5>1, <5>2 DEF Tables, InTables, InList, FattrDone,
             PathDone, XattrDone, DeletedDone, Index, File
      <4>4. CASE stage = "deleted"
        <5>1. pc' = "list" /\ stage' = "deleted"
          BY <3>3, <4>4 DEF NextStep, AfterStage
        <5>2. work' = [work EXCEPT !.invalid =
                          @ \cup (files.deleted \cap DOMAIN work.object)]
          BY <2>a, <4>4 DEF Apply
        <5> QED
          BY <3>1, <3>2, <3>3, <4>4, <5>1, <5>2 DEF Tables, InTables, InList, FattrDone,
             PathDone, XattrDone, DeletedDone, Index, File
      <4> QED
        BY <3>3, <4>1, <4>2, <4>3, <4>4 DEF File
    <3>5. TypeOK'
      BY <2>a, <3>3, <3>4 DEF TypeOK, CopyEnd, Goto, taskVars, Visible
    <3> QED
      BY <3>4, <3>5
  <2>1. TypeOK' /\ Tables'
    BY <2>0, <2>a DEF CopyEnd
  <2>3. Committed'
    BY <1>7 DEF TypeOK, File, NextStep, Visible, Committed, Result, CopyEnd, Goto, Abort, PqFails, Gone, vars, taskVars, pgVars
  <2>4. Said'
    BY <1>7 DEF TypeOK, Said, Committed, Result, WorkRows, FilterMetaExtract, CopyEnd, Goto, Abort, PqFails, Gone, vars, taskVars, pgVars
  <2> QED
    BY <2>1, <2>3, <2>4
<1>8. CASE Collect
  <2>1. TypeOK'
    BY <1>8 DEF TypeOK, Collect, Goto, Abort, PqFails, Gone, vars, taskVars, pgVars
  <2>2. Tables'
    BY <1>8 DEF TypeOK, Tables, InTables, InList, FattrDone, PathDone, XattrDone,
       DeletedDone, Collect, Goto, Abort, PqFails, Gone, vars, taskVars, pgVars
  <2>3. Committed'
    BY <1>8 DEF TypeOK, Committed, Result, Collect, Goto, Abort, PqFails, Gone, vars, taskVars, pgVars
  <2>4. Said'
    BY <1>8 DEF TypeOK, Said, Committed, Result, WorkRows, FilterMetaExtract, Collect, Goto, Abort, PqFails, Gone, vars, taskVars, pgVars
  <2> QED
    BY <2>1, <2>2, <2>3, <2>4
<1>9. CASE DeleteXattrs
  <2>0. /\ work \in Index /\ work.attr_val \in Rows /\ files.xattr \in SUBSET Oid
        /\ before.attr_val \in Rows
        /\ Without(work.attr_val, files.xattr) \in Rows
        /\ Without(Without(before.attr_val, files.xattr), files.xattr)
              = Without(before.attr_val, files.xattr)
        /\ work = [object |-> work.object, invalid |-> work.invalid,
                   file |-> work.file, attr_val |-> work.attr_val]
    BY WithoutRows, UpsertWithout DEF TypeOK, Index
  <2>a. work' \in Index
    <3>1. \A S \in SUBSET files.xattr : Without(work.attr_val, S) \in Rows
      BY <2>0, WithoutRows
    <3> QED
      BY <1>9, <2>0, <3>1 DEF DeleteXattrs, PqFails, Index
  <2>1. TypeOK'
    BY <1>9, <2>a DEF TypeOK, Visible, DeleteXattrs, Goto, Abort, PqFails, taskVars
  <2>2. Tables'
    BY <1>9, <2>0 DEF TypeOK, Tables, InTables, InList, FattrDone, PathDone, XattrDone,
       DeletedDone, Index, DeleteXattrs, Goto, Abort, PqFails, taskVars
  <2>3. Committed'
    BY <1>9 DEF TypeOK, Visible, Committed, Result, DeleteXattrs, Goto, Abort, PqFails, Gone, vars, taskVars, pgVars
  <2>4. Said'
    BY <1>9 DEF TypeOK, Said, Committed, Result, WorkRows, FilterMetaExtract, DeleteXattrs, Goto, Abort, PqFails, Gone, vars, taskVars, pgVars
  <2> QED
    BY <2>1, <2>2, <2>3, <2>4
<1>10. CASE WorkCreate
  <2>1. TypeOK'
    BY <1>10 DEF TypeOK, WorkCreate, Goto, Abort, PqFails, Gone, vars, taskVars, pgVars
  <2>2. Tables'
    BY <1>10 DEF TypeOK, Tables, InTables, InList, FattrDone, PathDone, XattrDone,
       DeletedDone, WorkCreate, Goto, Abort, PqFails, Gone, vars, taskVars, pgVars
  <2>3. Committed'
    BY <1>10 DEF TypeOK, Committed, Result, WorkCreate, Goto, Abort, PqFails, Gone, vars, taskVars, pgVars
  <2>4. Said'
    BY <1>10 DEF TypeOK, Said, Committed, Result, WorkRows, FilterMetaExtract, WorkCreate, Goto, Abort, PqFails, Gone, vars, taskVars, pgVars
  <2> QED
    BY <2>1, <2>2, <2>3, <2>4
<1>11. CASE WorkQuery
  <2>1. TypeOK'
    BY <1>11 DEF TypeOK, WorkQuery, Goto, Abort, PqFails, Gone, vars, taskVars, pgVars
  <2>2. Tables'
    BY <1>11 DEF TypeOK, Tables, InTables, InList, FattrDone, PathDone, XattrDone,
       DeletedDone, WorkQuery, Goto, Abort, PqFails, Gone, vars, taskVars, pgVars
  <2>3. Committed'
    BY <1>11 DEF TypeOK, Committed, Result, WorkQuery, Goto, Abort, PqFails, Gone, vars, taskVars, pgVars
  <2>4. Said'
    BY <1>11 DEF TypeOK, Said, Committed, Result, WorkRows, FilterMetaExtract, WorkQuery, Goto, Abort, PqFails, Gone, vars, taskVars, pgVars
  <2> QED
    BY <2>1, <2>2, <2>3, <2>4
<1>12. CASE WorkAppend
  <2> USE <1>12
  <2>0. Cardinality(files.fattr) \in Nat
    BY OidAssumption, FS_Subset, FS_CardinalityType DEF TypeOK
  <2>a. WorkRows \subseteq Oid /\ WorkRows' = WorkRows
    BY DEF TypeOK, WorkRows, WorkAppend, FilterMetaExtract, taskVars
  <2>b. buffer = -1 /\ list = {} /\ printed = -1 /\ pc = "append"
    BY DEF Said, WorkAppend, TypeOK
  <2>c. /\ buffer' \in {-1, Cardinality(files.fattr)} /\ buffer' \in Int
        /\ list' \in {{}, WorkRows}
        /\ files' = files /\ printed' = -1 /\ unlisted' \in BOOLEAN
        /\ buffer' # -1 => unlisted' \/ list' = WorkRows
        /\ buffer' # -1 \/ list' # {} => pc' = "finish" /\ ret'
    <3>1. CASE Abort /\ UNCHANGED <<list, buffer, unlisted>>
      BY <3>1, <2>b DEF WorkAppend, taskVars, TypeOK
    <3>2. CASE Goto("finish") /\ buffer' = Cardinality(files.fattr)
               /\ (\/ list' = WorkRows /\ UNCHANGED unlisted
                   \/ unlisted' = TRUE /\ UNCHANGED list)
      <4>1. ret
        BY <2>b DEF Tables
      <4>2. ret' /\ pc' = "finish" /\ files' = files /\ printed' = -1
        BY <3>2, <2>b, <4>1 DEF WorkAppend, Goto, taskVars
      <4>3. unlisted' \in BOOLEAN
        BY <3>2 DEF TypeOK
      <4> QED
        BY <3>2, <2>b, <2>0, <4>1, <4>2, <4>3
    <3> QED
      BY <3>1, <3>2 DEF WorkAppend
  <2>1. TypeOK'
    BY <2>a, <2>b, <2>c DEF TypeOK, WorkAppend, Goto, Abort, taskVars, pgVars
  <2>2. Tables'
    BY DEF TypeOK, Tables, InTables, InList, FattrDone, PathDone, XattrDone,
       DeletedDone, WorkAppend, Goto, Abort, taskVars, pgVars
  <2>3. Committed'
    BY DEF TypeOK, Committed, Result, WorkAppend, Goto, Abort, taskVars, pgVars
  <2>4. Said'
    BY <2>a, <2>c DEF Said
  <2> QED
    BY <2>1, <2>2, <2>3, <2>4
<1>13. CASE Finish
  <2> USE <1>13
  <2>0. /\ pc = "finish" /\ pc' = "exit" /\ ret' = ret
        /\ files' = files /\ before' = before /\ initdb' = initdb
        /\ buffer' = buffer /\ list' = list /\ printed' = printed
        /\ kind' = kind /\ filter' = filter /\ unlisted' = unlisted
        /\ auto' = auto /\ db = (IF auto THEN work ELSE before) /\ ~initdb
    BY DEF Finish, Goto, taskVars, Committed
  <2>a. Result' = Result /\ WorkRows' = WorkRows
    BY <2>0 DEF Result, WorkRows, FilterMetaExtract
  <2>b. ret => work = Result
    BY <2>0, WorkIsResult
  <2>c. (~auto => db' \in {before, Result}) /\ (ret => unended' \/ db' = Result)
    BY <2>0, <2>b DEF Finish
  <2>1. TypeOK'
    BY DEF TypeOK, Finish, Goto, taskVars
  <2>2. Tables'
    BY <2>0 DEF Tables, InTables, InList
  <2>3. Committed'
    BY <2>0, <2>a, <2>c DEF Committed
  <2>4. Said'
    BY <2>0, <2>a, <2>c DEF Said
  <2> QED
    BY <2>1, <2>2, <2>3, <2>4
<1>14. CASE Exit
  <2>1. TypeOK'
    BY <1>14 DEF TypeOK, Exit, Goto, Abort, PqFails, Gone, vars, taskVars, pgVars
  <2>2. Tables'
    BY <1>14 DEF TypeOK, Tables, InTables, InList, FattrDone, PathDone, XattrDone,
       DeletedDone, Exit, Goto, Abort, PqFails, Gone, vars, taskVars, pgVars
  <2>3. Committed'
    BY <1>14 DEF TypeOK, Committed, Result, Exit, Goto, Abort, PqFails, Gone, vars, taskVars, pgVars
  <2>4. Said'
    BY <1>14 DEF TypeOK, Said, Committed, Result, WorkRows, FilterMetaExtract, Exit, Goto, Abort, PqFails, Gone, vars, taskVars, pgVars
  <2> QED
    BY <2>1, <2>2, <2>3, <2>4
<1>15. CASE Killed
  <2>1. TypeOK'
    BY <1>15 DEF TypeOK, Killed, Goto, Abort, PqFails, Gone, vars, taskVars, pgVars
  <2>2. Tables'
    BY <1>15 DEF TypeOK, Tables, InTables, InList, FattrDone, PathDone, XattrDone,
       DeletedDone, Killed, Goto, Abort, PqFails, Gone, vars, taskVars, pgVars
  <2>3. Committed'
    BY <1>15 DEF TypeOK, Committed, Result, Killed, Goto, Abort, PqFails, Gone, vars, taskVars, pgVars
  <2>4. Said'
    BY <1>15 DEF TypeOK, Said, Committed, Result, WorkRows, FilterMetaExtract, Killed, Goto, Abort, PqFails, Gone, vars, taskVars, pgVars
  <2> QED
    BY <2>1, <2>2, <2>3, <2>4
<1>16. CASE UNCHANGED vars
  BY <1>16 DEF TypeOK, Tables, InTables, InList, FattrDone, PathDone, XattrDone,
       DeletedDone, Committed, Said, Result, WorkRows,
     FilterMetaExtract, vars, taskVars, pgVars
<1> QED
  BY <1>1, <1>2, <1>3, <1>4, <1>5, <1>6, <1>7, <1>8, <1>9, <1>10, <1>11, <1>12, <1>13, <1>14, <1>15, <1>16 DEF Next

-----------------------------------------------------------------------------
LEMMA Invariance == Spec => []IInv
<1> QED
  BY InitInv, NextInv, PTL DEF Spec

(* Type correctness of the tool's state: the tables, list and counts stay   *)
(* what they are through every failure and crash.                           *)
THEOREM TypeCorrect == Spec => []TypeOK
<1>1. IInv => TypeOK
  BY DEF IInv
<1> QED
  BY <1>1, Invariance, PTL

(* All of a task is in the index or nothing of it: do_builder's BEGIN, END  *)
(* and ABORT, unless BEGIN failed on a connection that works.               *)
THEOREM TaskIsAtomic == Spec => []AllOrNothing
<1>1. IInv => AllOrNothing
  BY DEF IInv, Committed, AllOrNothing
<1> QED
  BY <1>1, Invariance, PTL

(* What do_builder reports and lists is in the index, unless its END was    *)
(* lost.                                                                    *)
THEOREM ReportsAreTrue == Spec => []ReportedIsIndexed
<1>1. IInv => ReportedIsIndexed
  BY DEF IInv, Said, TypeOK, ReportedIsIndexed
<1> QED
  BY <1>1, Invariance, PTL

(* builder_filter_meta_extract selects the documents of the white list, and *)
(* beyond it only those whose extension begins one in it.                   *)
THEOREM ListHasDocuments == Spec => []DocumentsAreListed
<1>1. ASSUME IInv PROVE DocumentsAreListed
  <2> SUFFICES ASSUME printed # -1, ~unlisted, filter = Exts,
                      NEW o \in files.fattr \cap files.path
               PROVE  /\ Listed(kind[o]) => o \in list
                      /\ o \in list => Listed(kind[o]) \/ BeginsListed(kind[o])
    BY DEF DocumentsAreListed
  <2>1. list = WorkRows
    BY <1>1 DEF IInv, Said
  <2>2. kind[o] \in [reg : BOOLEAN, size : Nat, ext : STRING]
    BY <1>1, KindsAssumption DEF IInv, TypeOK
  <2>3. o \in list <=> kind[o].size > 0 /\ FilterMetaExtract(kind[o])
    BY <2>1 DEF WorkRows
  <2> QED
    BY <2>2, <2>3, MaxFileSizeAssumption, ExtsAssumption DEF FilterMetaExtract, Listed, BeginsListed
<1> QED
  BY <1>1, Invariance, PTL

-----------------------------------------------------------------------------
(* The refinement.  The tool comes to END with an answer for the daemon,    *)
(* and END is not lost before it is sent.                                   *)
Ending ==
    /\ pc = "finish" /\ ret => buffer # -1
    /\ pc \notin {"exit", "gone"} => ~unended

LEMMA EndingStep == IInv /\ Ending /\ [Next]_vars => Ending'
<1> SUFFICES ASSUME IInv, Ending, [Next]_vars PROVE Ending'
  OBVIOUS
<1> USE DEF Ending
<1>1. CASE WorkAppend
  <2>1. Cardinality(files.fattr) \in Nat
    BY OidAssumption, FS_Subset, FS_CardinalityType DEF IInv, TypeOK
  <2> QED
    BY <1>1, <2>1 DEF WorkAppend, Goto, Abort
<1>2. CASE Start \/ Initialize \/ Begin
  BY <1>2 DEF Start, Initialize, Begin, Goto, Gone
<1>3. CASE CopyOpen \/ CopyInit \/ CopyLines
  BY <1>3 DEF CopyOpen, CopyInit, CopyLines, PqFails, Goto, Abort, Gone
<1>4. CASE CopyEnd
  <2>1. NextStep[stage] \in {"open", "collect", "list"}
    BY DEF IInv, TypeOK, File, NextStep
  <2> QED
    BY <1>4, <2>1 DEF CopyEnd, PqFails, Goto, Abort
<1>5. CASE Collect \/ DeleteXattrs \/ WorkCreate \/ WorkQuery
  BY <1>5 DEF Collect, DeleteXattrs, WorkCreate, WorkQuery, PqFails, Goto, Abort, Gone
<1>6. CASE Finish \/ Exit \/ Killed
  BY <1>6 DEF Finish, Exit, Killed, Goto, Gone
<1>7. CASE UNCHANGED vars
  BY <1>7 DEF vars, taskVars
<1> QED
  BY <1>1, <1>2, <1>3, <1>4, <1>5, <1>6, <1>7 DEF Next

(* Steps between the first call and END leave what others see alone;        *)
LEMMA QuietStep ==
  ASSUME IInv, UNCHANGED <<taskVars, db, buffer, printed, unended>>,
         pc \notin {"exit", "gone"}, pc' \notin {"exit", "gone"}
  PROVE  UNCHANGED Promise!vars
<1>1. UNCHANGED <<initdb, db, auto>> /\ Target' = Target
  BY DEF taskVars, Target, Result, Upsert
<1>2. Phase' = Phase
  BY DEF Phase
<1> QED
  BY <1>1, <1>2 DEF Promise!vars

(* so do statements that change the tables, unless BEGIN failed;            *)
LEMMA TableStep ==
  ASSUME IInv, UNCHANGED <<taskVars, buffer, printed, unended>>, Visible \/ db' = db,
         pc \notin {"finish", "exit", "gone"}, pc' \notin {"exit", "gone"}
  PROVE  Promise!Leak \/ UNCHANGED Promise!vars
<1>1. UNCHANGED <<initdb, auto>> /\ Target' = Target
  BY DEF taskVars, Target, Result, Upsert
<1>2. Phase = "running" /\ Phase' = "running"
  BY DEF Phase, IInv, Said
<1>3. auto \/ db' = db
  BY DEF Visible
<1> QED
  BY <1>1, <1>2, <1>3 DEF Promise!vars, Promise!Leak

(* and the end of the process before the counts are known is the failure of *)
(* the task.                                                                *)
LEMMA GoneStep ==
  ASSUME IInv, Gone, UNCHANGED <<taskVars, buffer, printed, unended>>,
         pc \notin {"finish", "exit", "gone"}, ~initdb
  PROVE  Promise!Fail
<1>1. UNCHANGED <<initdb, db, auto>> /\ Target' = Target
  BY DEF Gone, taskVars, Target, Result, Upsert
<1>2. buffer = -1
  BY DEF IInv, Said
<1>3. Phase = "running" /\ Phase' = "failed"
  BY <1>1, <1>2 DEF Phase, Gone
<1> QED
  BY <1>1, <1>3 DEF Promise!Fail

LEMMA PromiseStep == IInv /\ Ending /\ [Next]_vars => [Promise!Next]_Promise!vars
<1> SUFFICES ASSUME IInv, Ending, [Next]_vars PROVE Promise!Next \/ UNCHANGED Promise!vars
  OBVIOUS
<1>0. pc \notin {"start", "gone"} => ~initdb
  BY DEF IInv, Committed
<1>a. pc \notin {"finish", "exit", "gone"} => buffer = -1
  BY DEF IInv, Said
<1>1. CASE Start
  <2>1. CASE Gone
    BY <1>1, <2>1, GoneStep DEF Start, Promise!Next
  <2>2. CASE Goto("begin") /\ UNCHANGED pgVars
    BY <1>1, <2>2, QuietStep DEF Start, Goto, pgVars
  <2> QED
    BY <1>1, <2>1, <2>2 DEF Start
<1>2. CASE Initialize
  <2>1. /\ initdb /\ UNCHANGED <<initdb, printed, auto>>
        /\ Target = Empty /\ Target' = Empty
    BY <1>2 DEF Initialize, taskVars, Target
  <2>2. Phase = "running"
    BY <1>2, <1>a DEF Initialize, Phase
  <2>3. CASE db' = Empty
    <3>1. Phase' = "committed"
      BY <1>2, <2>1, <2>3, <1>a DEF Initialize, Goto, Phase
    <3> QED
      BY <2>1, <2>2, <2>3, <3>1 DEF Promise!Next, Promise!Commit
  <2>4. CASE db' = db /\ db # Empty
    <3>1. Phase' = "failed"
      BY <1>2, <2>1, <2>4, <1>a DEF Initialize, Goto, Phase
    <3> QED
      BY <2>1, <2>2, <2>4, <3>1 DEF Promise!Next, Promise!Fail
  <2> QED
    BY <1>2, <2>3, <2>4 DEF Initialize
<1>3. CASE Begin
  <2>1. /\ UNCHANGED <<initdb, db, buffer, printed, unended>> /\ Target' = Target
        /\ pc = "begin" /\ pc' = "open" /\ auto' \in {auto, TRUE}
    BY <1>3 DEF Begin, Goto, Target, Result, Upsert
  <2>2. Phase = "running" /\ Phase' = "running"
    BY <2>1, <1>a DEF Phase
  <2> QED
    BY <2>1, <2>2, <1>0 DEF Promise!Next, Promise!Bare, Promise!vars
<1>4. CASE CopyOpen
  BY <1>4, QuietStep DEF CopyOpen, Goto, Abort, pgVars
<1>5. CASE CopyInit
  BY <1>5, QuietStep DEF CopyInit, PqFails, Goto, Abort
<1>6. CASE CopyLines
  <2>1. CASE Gone
    BY <1>6, <2>1, <1>0, GoneStep DEF CopyLines, Promise!Next
  <2>2. CASE ~Gone
    BY <1>6, <2>2, QuietStep DEF CopyLines, PqFails, Goto, Abort, pgVars
  <2> QED
    BY <2>1, <2>2
<1>7. CASE CopyEnd
  <2>1. pc' \notin {"exit", "gone"}
    BY <1>7 DEF CopyEnd, PqFails, Goto, Abort, NextStep, IInv, TypeOK, File
  <2> QED
    BY <1>7, <2>1, TableStep DEF CopyEnd, PqFails, Promise!Next
<1>8. CASE Collect
  <2>1. CASE Gone
    BY <1>8, <2>1, <1>0, GoneStep DEF Collect, Promise!Next
  <2>2. CASE ~Gone
    BY <1>8, <2>2, QuietStep DEF Collect, Goto, Abort, pgVars
  <2> QED
    BY <2>1, <2>2
<1>9. CASE DeleteXattrs
  BY <1>9, TableStep DEF DeleteXattrs, PqFails, Goto, Abort, Promise!Next
<1>10. CASE WorkCreate
  BY <1>10, QuietStep DEF WorkCreate, Goto, Abort, pgVars
<1>11. CASE WorkQuery
  BY <1>11, QuietStep DEF WorkQuery, PqFails, Goto, Abort, pgVars
<1>12. CASE WorkAppend
  <2>1. CASE Abort /\ UNCHANGED <<list, buffer, unlisted>>
    BY <1>12, <2>1, QuietStep DEF WorkAppend, Abort, pgVars
  <2>2. CASE Goto("finish") /\ buffer' = Cardinality(files.fattr)
    <3>1. buffer' # -1
      <4>1. Cardinality(files.fattr) \in Nat
        BY OidAssumption, FS_Subset, FS_CardinalityType DEF IInv, TypeOK
      <4> QED
        BY <2>2, <4>1
    <3>2. Phase = "running" /\ Phase' = "written"
      BY <1>12, <2>2, <3>1, <1>a DEF WorkAppend, Goto, Phase
    <3>3. /\ ~initdb /\ UNCHANGED <<initdb, db, printed, auto>>
          /\ Target' = Target
      BY <1>12, <1>0 DEF WorkAppend, taskVars, pgVars, Target, Result, Upsert
    <3>4. auto => db = Target
      BY <1>12, <3>3, WorkIsResult DEF WorkAppend, InList, Target, IInv, Committed
    <3> QED
      BY <3>2, <3>3, <3>4 DEF Promise!Next, Promise!Write
  <2> QED
    BY <1>12, <2>1, <2>2 DEF WorkAppend
<1>13. CASE Finish
  <2>1. /\ pc = "finish" /\ pc' = "exit"
        /\ ~initdb /\ UNCHANGED <<initdb, buffer, printed, auto>>
        /\ Target = Result /\ Target' = Target
    BY <1>13, <1>0 DEF Finish, Goto, taskVars, Target, Result, Upsert
  <2>2. CASE buffer = -1
    <3>1. Phase = "running" /\ Phase' = "failed"
      BY <2>1, <2>2 DEF Phase
    <3>2. db' = db
      BY <1>13, <2>2 DEF Finish, Ending
    <3> QED
      BY <2>1, <3>1, <3>2 DEF Promise!Next, Promise!Fail
  <2>3. CASE buffer # -1
    <3>1. ret /\ work = Result
      BY <2>1, <2>3, WorkIsResult DEF IInv, Said
    <3>2. Phase = "written"
      BY <2>1, <2>3 DEF Phase
    <3>3. CASE db' = work /\ unended' = FALSE
      <4>1. Phase' = "committed"
        BY <2>1, <2>3, <3>3 DEF Phase
      <4> QED
        BY <2>1, <3>1, <3>2, <3>3, <4>1 DEF Promise!Next, Promise!Commit
    <3>4. CASE db' = db /\ unended' = TRUE
      <4>1. Phase' = "lost"
        BY <2>1, <2>3, <3>4 DEF Phase
      <4> QED
        BY <2>1, <3>2, <3>4, <4>1 DEF Promise!Next, Promise!Lose
    <3>5. unended = FALSE
      BY <2>1 DEF Ending, IInv, TypeOK
    <3>6. (db' = work /\ unended' = FALSE) \/ (db' = db /\ unended' = TRUE)
      BY <1>13, <3>1, <3>5 DEF Finish
    <3> QED
      BY <3>3, <3>4, <3>6
  <2> QED
    BY <2>2, <2>3
<1>14. CASE Exit
  <2>1. /\ pc = "exit" /\ pc' = "gone"
        /\ ~initdb /\ UNCHANGED <<initdb, db, buffer, unended, auto>>
        /\ Target' = Target /\ Phase' = Phase
    BY <1>14, <1>0 DEF Exit, Goto, taskVars, pgVars, Target, Result, Upsert, Phase
  <2>2. CASE buffer = -1
    BY <1>14, <2>1, <2>2 DEF Exit, IInv, Said, Promise!vars
  <2>3. CASE buffer # -1
    <3>1. Phase \in {"committed", "lost"}
      BY <2>1, <2>3 DEF Phase
    <3>2. (printed # -1)' = TRUE
      BY <1>14, <2>3 DEF Exit
    <3> QED
      BY <2>1, <3>1, <3>2 DEF Promise!Next, Promise!Tell
  <2> QED
    BY <2>2, <2>3
<1>15. CASE Killed
  <2>1. /\ pc # "gone" /\ pc' = "gone"
        /\ UNCHANGED <<initdb, db, buffer, printed, auto>>
        /\ Target' = Target
    BY <1>15 DEF Killed, Gone, taskVars, Target, Result, Upsert
  <2>2. CASE pc = "exit"
    BY <1>15, <2>1, <2>2 DEF Killed, Phase, Promise!vars
  <2>3. CASE pc = "finish" /\ buffer # -1
    <3>1. ret
      BY <2>3 DEF IInv, Said
    <3>2. Phase = "written" /\ Phase' = "lost"
      BY <1>15, <2>1, <2>3, <3>1 DEF Killed, Phase
    <3> QED
      BY <2>1, <3>2 DEF Promise!Next, Promise!Lose
  <2>4. CASE pc # "exit" /\ buffer = -1
    <3>1. Phase = "running"
      BY <2>1, <2>4 DEF Phase
    <3>2. CASE initdb /\ db = Empty
      <4>1. Phase' = "committed" /\ Target = Empty
        BY <2>1, <2>4, <3>2 DEF Phase, Target
      <4> QED
        BY <2>1, <3>1, <3>2, <4>1 DEF Promise!Next, Promise!Commit
    <3>3. CASE ~(initdb /\ db = Empty)
      <4>1. Phase' = "failed"
        BY <2>1, <2>4, <3>3 DEF Phase
      <4> QED
        BY <2>1, <3>1, <4>1 DEF Promise!Next, Promise!Fail
    <3> QED
      BY <3>2, <3>3
  <2> QED
    BY <1>a, <2>1, <2>2, <2>3, <2>4
<1>16. CASE UNCHANGED vars
  BY <1>16 DEF vars, taskVars, pgVars, Promise!vars, Target, Result, Upsert, Phase
<1> QED
  BY <1>1, <1>2, <1>3, <1>4, <1>5, <1>6, <1>7, <1>8, <1>9, <1>10, <1>11, <1>12,
     <1>13, <1>14, <1>15, <1>16 DEF Next

(* hpssix-builder implements AtomicTask: whatever fails and wherever it is  *)
(* killed, the index changes in one step, at END and after the work list    *)
(* is complete, and what is told comes after that.  If BEGIN failed the     *)
(* steps are several, and the task is all in the index when it is told.     *)
THEOREM BuilderIsAtomic == Spec => ImplementsAtomicTask
<1>1. Init => Promise!Init
  BY DEF Init, Promise!Init, Phase
<1>2. Init => Ending
  BY DEF Init, Ending
<1> QED
  BY <1>1, <1>2, EndingStep, PromiseStep, Invariance, PTL DEF Spec, ImplementsAtomicTask, Promise!Spec
=============================================================================
