--------------------------- MODULE IndexingProofs ---------------------------
(***************************************************************************)
(* Proofs about Indexing, for every number of objects, days and changes:   *)
(* the watermark of the master database passes over no object, what a user *)
(* changes is in the index after the task of its day or a later one, and   *)
(* deleted objects are marked as such.                                     *)
(***************************************************************************)
EXTENDS Indexing, WellFoundedInduction, TLAPS

(* A nonempty set of numbers has a least one,                               *)
LEMMA LeastNat ==
    ASSUME NEW T, T \subseteq Nat, T # {}
    PROVE  \E x \in T : \A y \in T : x <= y
<1>. DEFINE R == OpToRel(<, Nat)
<1>1. \A x, y \in Nat : <<y, x>> \in R <=> y < x
    BY DEF OpToRel
<1>2. IsWellFoundedOn(R, Nat)
    BY NatLessThanWellFounded
<1>. HIDE DEF R
<1>3. PICK x \in T : \A y \in T : ~ (<<y, x>> \in R)
    BY <1>2, WFMin
<1>4. ASSUME NEW y \in T PROVE x <= y
  <2>1. x \in Nat /\ y \in Nat
    OBVIOUS
  <2>2. ~ (y < x)
    BY <1>1, <1>3, <2>1
  <2>. QED
    BY <2>1, <2>2
<1>. QED
    BY <1>4

(* and a bounded one a greatest: the last line of the ordered file.         *)
LEMMA Greatest ==
    ASSUME NEW n \in Nat, NEW S, S \subseteq 1 .. n, S # {}
    PROVE  \E x \in S : \A y \in S : y <= x
<1>. DEFINE B == {b \in Nat : \A y \in S : y <= b}
<1>1. n \in B /\ B \subseteq Nat
    OBVIOUS
<1>2. PICK b \in B : \A c \in B : b <= c
    BY <1>1, LeastNat
<1>3. b \in S
  <2>. SUFFICES ASSUME b \notin S PROVE FALSE
    OBVIOUS
  <2>1. \A y \in S : y <= b - 1
    BY <1>2
  <2>2. b - 1 \in Nat
    <3>0. PICK y \in S : TRUE
      OBVIOUS
    <3>1. y \in Nat /\ y >= 1 /\ y <= b - 1
      BY <3>0, <2>1
    <3>. QED
      BY <1>2, <2>1, <3>1
  <2>. QED
    BY <1>2, <2>1, <2>2
<1>. QED
    BY <1>2, <1>3

(* Partial functions of the object id.                                      *)
LEMMA RowsIntro ==
    ASSUME NEW S \in SUBSET Oid, NEW f \in [S -> Ver] PROVE f \in Rows
BY DEF Rows

LEMMA RowsElim ==
    ASSUME NEW f \in Rows
    PROVE  DOMAIN f \subseteq Oid /\ f \in [DOMAIN f -> Ver]
BY DEF Rows

LEMMA EmptyRows == Empty \in Rows /\ DOMAIN Empty = {}
<1>1. Empty \in [{} -> Ver]
    BY DEF Empty
<1>. QED
    BY <1>1, RowsIntro DEF Empty

LEMMA UpsertRows ==
    ASSUME NEW f \in Rows, NEW g \in Rows
    PROVE  /\ Upsert(f, g) \in Rows
           /\ DOMAIN Upsert(f, g) = DOMAIN f \cup DOMAIN g
<1>1. /\ DOMAIN f \subseteq Oid /\ f \in [DOMAIN f -> Ver]
      /\ DOMAIN g \subseteq Oid /\ g \in [DOMAIN g -> Ver]
    BY RowsElim
<1>2. DOMAIN Upsert(f, g) = DOMAIN f \cup DOMAIN g
    BY DEF Upsert
<1>3. Upsert(f, g) \in [DOMAIN f \cup DOMAIN g -> Ver]
    BY <1>1 DEF Upsert
<1>. QED
    BY <1>1, <1>2, <1>3, RowsIntro

-----------------------------------------------------------------------------
(* An object above the watermark that was not collected is newer than every *)
(* object that was, as ids grow.                                            *)
Uncollected ==
    (pc \notin {"idle", "new"} /\ "new" \notin lossy) =>
        \A o \in live : (last < o /\ o \notin temp) => \A q \in temp : q < o

(* The fattr file has every collected object that still exists, up to its   *)
(* last line.                                                               *)
Exported ==
    /\ DOMAIN out.fattr \subseteq temp
    /\ pc \in {"idle", "new", "changed", "merge", "fattr"} => DOMAIN out.fattr = {}
    /\ \A o \in temp \cap live, q \in DOMAIN out.fattr :
          o <= q => o \in DOMAIN out.fattr

(* After the commit, what was exported is in the index.                     *)
Built ==
    (pc = "record" /\ "build" \notin lossy) => DOMAIN out.fattr \subseteq DOMAIN object

(* The record the task started from is still the newest.                    *)
LastIsNewest == pc # "idle" => last = NextLast

IInv ==
    TypeOK /\ Uncollected /\ Exported /\ Built /\ LastIsNewest /\ NoneSkipped

LEMMA InitIInv == Init => IInv
<1>. SUFFICES ASSUME Init PROVE IInv
    OBVIOUS
<1>1. 0 \in Ver /\ 0 \in 0 .. MaxOid /\ 1 \in 1 .. MaxDay
    BY MaxChangesAssumption, MaxOidAssumption, MaxDayAssumption DEF Ver
<1>2. NoFiles \in [fattr : Rows, path : Rows, xattr : Rows, deleted : SUBSET Oid]
    BY EmptyRows DEF NoFiles
<1>3. TypeOK
  <2>1. attr \in [Oid -> Ver] /\ path \in [Oid -> Ver] /\ tag \in [Oid -> Ver]
    BY <1>1 DEF Init
  <2>2. /\ day \in 1 .. MaxDay /\ nxt \in 0 .. MaxOid /\ changes \in Ver
        /\ ts \in 0 .. day /\ last \in Nat /\ from \in Int
        /\ mdb \in [oid_end : 0 .. nxt, ts : 0 .. day]
    BY <1>1 DEF Init
  <2>3. /\ object \in Rows /\ file \in Rows /\ attr_val \in Rows
        /\ invalid \subseteq DOMAIN object
    BY EmptyRows DEF Init
  <2>4. /\ live = {} /\ hist = {} /\ temp = {} /\ missing = {} /\ lossy = {}
        /\ above = {} /\ untagged = {} /\ untouched = {} /\ ran = FALSE /\ pc = "idle" /\ out = NoFiles
    BY DEF Init
  <2>5. orphan \in [day : Nat,
                    out : [fattr : Rows, path : Rows, xattr : Rows, deleted : SUBSET Oid]]
    BY <1>2 DEF Init, NoOrphan
  <2>. QED
    BY <1>2, <2>1, <2>2, <2>3, <2>4, <2>5 DEF TypeOK
<1>4. DOMAIN out.fattr = {}
    BY EmptyRows DEF Init, NoFiles
<1>. QED
    BY <1>3, <1>4
    DEF Init, IInv, Uncollected, Exported, Built, LastIsNewest, NoneSkipped

LEMMA BelowOid == \A o : Below(o) \subseteq Oid
BY DEF Below

(* The types that users' steps change.                                      *)
LEMMA UserType == ASSUME TypeOK, UserStep PROVE TypeOK'
<1>. USE DEF TypeOK, Changed, taskVars, indexVars
<1>1. CASE Create
    BY <1>1, MaxOidAssumption DEF Create
<1>2. ASSUME NEW o \in Oid, Delete(o) PROVE TypeOK'
    BY <1>2 DEF Delete, Table
<1>3. ASSUME NEW o \in Oid, NEW t \in Table, SetAttr(o, t) PROVE TypeOK'
  <2>1. changes + 1 \in Ver
    BY <1>3, MaxChangesAssumption DEF SetAttr, Ver
  <2>. QED
    BY <1>3, <2>1 DEF SetAttr
<1>4. ASSUME NEW o \in Oid, Rename(o) PROVE TypeOK'
  <2>1. changes + 1 \in Ver
    BY <1>4, MaxChangesAssumption DEF Rename, Ver
  <2>2. path' \in [Oid -> Ver] /\ above' \subseteq Oid
    BY <1>4, <2>1, BelowOid DEF Rename
  <2>. QED
    BY <1>4, <2>1, <2>2 DEF Rename, Table
<1>5. ASSUME NEW o \in Oid, TagSet(o) PROVE TypeOK'
  <2>1. changes + 1 \in Ver
    BY <1>5, MaxChangesAssumption DEF TagSet, Ver
  <2>. QED
    BY <1>5, <2>1 DEF TagSet
<1>7. ASSUME NEW o \in Oid, TagTouch(o) PROVE TypeOK'
    BY <1>7 DEF TagTouch, Table
<1>6. ASSUME NEW o \in Oid, TagDel(o) PROVE TypeOK'
  <2>1. 0 \in Ver
    BY MaxChangesAssumption DEF Ver
  <2>. QED
    BY <1>6, <2>1 DEF TagDel
<1>. QED
    BY <1>1, <1>2, <1>3, <1>4, <1>5, <1>6, <1>7 DEF UserStep

(* Users create objects behind the newest one, and delete some; the rest of *)
(* what they do leaves the ids alone.                                       *)
LEMMA UserInv == ASSUME IInv, UserStep PROVE IInv'
<1>1. TypeOK'
    BY UserType DEF IInv
<1>2. /\ pc' = pc /\ last' = last /\ temp' = temp /\ out' = out /\ mdb' = mdb
      /\ object' = object /\ lossy' = lossy
      /\ live' = live \cup {nxt + 1} \/ live' \subseteq live
    BY DEF UserStep, Create, Delete, SetAttr, Rename, TagSet, TagTouch, TagDel, taskVars,
           indexVars
<1>3. /\ nxt \in Nat /\ live \subseteq 1 .. nxt /\ temp \subseteq 1 .. nxt
      /\ mdb.oid_end \in 0 .. nxt /\ last \in Nat
    BY MaxOidAssumption DEF IInv, TypeOK
<1>4. NextLast' = NextLast
    BY <1>2 DEF NextLast
<1>5. nxt + 1 \notin temp /\ \A q \in temp : q < nxt + 1
    BY <1>3
<1>6. Uncollected'
  <2>1. Uncollected
    BY DEF IInv
  <2>2. CASE live' \subseteq live
    BY <1>2, <2>1, <2>2 DEF Uncollected
  <2>3. CASE live' = live \cup {nxt + 1}
    BY <1>2, <1>5, <2>1, <2>3 DEF Uncollected
  <2>. QED
    BY <1>2, <2>2, <2>3
<1>7. Exported'
    BY <1>2, <1>5 DEF IInv, Exported
<1>8. Built' /\ LastIsNewest'
    BY <1>2, <1>4 DEF IInv, Built, LastIsNewest
<1>9. NoneSkipped'
  <2>1. ~ (FirstOid < nxt + 1 /\ nxt + 1 <= NextLast)
    BY <1>3, FirstOidAssumption DEF NextLast
  <2>. QED
    BY <1>2, <1>4, <2>1 DEF IInv, NoneSkipped
<1>. QED
    BY <1>1, <1>6, <1>7, <1>8, <1>9 DEF IInv

(* A day passes, or nothing does.                                           *)
LEMMA TickInv == ASSUME IInv, Tick \/ UNCHANGED vars PROVE IInv'
<1>1. /\ nxt' = nxt /\ live' = live /\ pc' = pc /\ last' = last /\ temp' = temp
      /\ out' = out /\ mdb' = mdb /\ object' = object /\ lossy' = lossy
    BY DEF Tick, vars, hpssVars, taskVars, indexVars
<1>2. TypeOK'
  <2>. USE DEF IInv, TypeOK, hpssVars, taskVars, indexVars
  <2>1. CASE UNCHANGED vars
    BY <2>1 DEF vars
  <2>2. CASE Tick
    <3>1. /\ day' \in 1 .. MaxDay /\ 1 .. day \subseteq 1 .. day'
          /\ 0 .. day \subseteq 0 .. day'
      BY <2>2, MaxDayAssumption DEF Tick
    <3>2. hist' \subseteq [table : Table, oid : 1 .. nxt', day : 1 .. day']
      BY <2>2, <3>1 DEF Tick
    <3>3. ts' \in 0 .. day' /\ mdb' \in [oid_end : 0 .. nxt', ts : 0 .. day']
      BY <2>2, <3>1 DEF Tick
    <3>. HIDE DEF IInv
    <3>. QED
      BY <2>2, <3>1, <3>2, <3>3 DEF IInv, Tick
  <2>. QED
    BY <2>1, <2>2
<1>3. NextLast' = NextLast
    BY <1>1 DEF NextLast
<1>. QED
    BY <1>1, <1>2, <1>3
    DEF IInv, Uncollected, Exported, Built, LastIsNewest, NoneSkipped

LEMMA LaunchInv == ASSUME IInv, Launch PROVE IInv'
<1>1. /\ nxt' = nxt /\ live' = live /\ pc' = "new" /\ last' = NextLast /\ temp' = temp
      /\ out' = out /\ mdb' = mdb /\ object' = object /\ lossy' = lossy /\ pc = "idle"
    BY DEF Launch, hpssVars, indexVars
<1>2. NextLast \in Nat /\ NextFrom \in Int
    BY FirstOidAssumption DEF NextLast, NextFrom, IInv, TypeOK
<1>3. TypeOK'
    BY <1>2 DEF IInv, TypeOK, Launch, hpssVars, indexVars
<1>4. NextLast' = NextLast
    BY <1>1 DEF NextLast
<1>. QED
    BY <1>1, <1>3, <1>4
    DEF IInv, Uncollected, Exported, Built, LastIsNewest, NoneSkipped

(* The end of a task, with or without a record.                             *)
LEMMA GoneInv ==
    ASSUME IInv, TaskGone, UNCHANGED <<day, hpssVars, indexVars, lossy>>,
           ran' \in BOOLEAN, mdb' \in [oid_end : 0 .. nxt, ts : 0 .. day],
           orphan' \in [day : Nat, out : [fattr : Rows, path : Rows, xattr : Rows,
                                           deleted : SUBSET Oid]],
           NoneSkipped'
    PROVE  IInv'
<1>1. NoFiles \in [fattr : Rows, path : Rows, xattr : Rows, deleted : SUBSET Oid]
    BY EmptyRows DEF NoFiles
<1>2. TypeOK'
    BY <1>1 DEF IInv, TypeOK, TaskGone, hpssVars, indexVars
<1>3. DOMAIN out'.fattr = {} /\ pc' = "idle"
    BY EmptyRows DEF TaskGone, NoFiles
<1>. QED
    BY <1>2, <1>3 DEF IInv, Uncollected, Exported, Built, LastIsNewest

LEMMA AbortInv == ASSUME IInv, TaskAborted PROVE IInv'
<1>1. NoneSkipped'
    BY DEF TaskAborted, IInv, NoneSkipped, NextLast, hpssVars, indexVars
<1>2. ts \in Nat
    BY MaxDayAssumption DEF IInv, TypeOK
<1>3. orphan' \in [day : Nat,
                   out : [fattr : Rows, path : Rows, xattr : Rows, deleted : SUBSET Oid]]
    BY <1>2 DEF TaskAborted, IInv, TypeOK
<1>. QED
    BY <1>1, <1>3, GoneInv DEF TaskAborted, IInv, TypeOK, hpssVars

(* The three statements that fill session.temp.                             *)
LEMMA EndedOid ==
    ASSUME TypeOK, NEW t PROVE Ended(t) \subseteq 1 .. nxt
BY DEF TypeOK, Ended

LEMMA CollectInv ==
    ASSUME IInv, CollectNew \/ CollectChanged \/ CollectMerge PROVE IInv'
<1>1. /\ nxt' = nxt /\ live' = live /\ last' = last /\ object' = object
      /\ out' = out /\ mdb' = mdb /\ lossy \subseteq lossy' /\ pc # "idle"
      /\ pc \in {"new", "changed", "merge"} /\ pc' \in {"changed", "merge", "fattr"}
      /\ pc # "new" => pc' \in {"merge", "fattr"}
      /\ UNCHANGED <<day, ran, hpssVars, from, ts, missing, indexVars, orphan>>
      /\ lossy' \subseteq lossy \cup {"new", "changed"}
    BY DEF CollectNew, CollectChanged, CollectMerge, hpssVars, indexVars
<1>2. /\ last \in Nat /\ live \subseteq 1 .. nxt /\ temp \subseteq 1 .. nxt
      /\ nxt \in Nat
    BY MaxOidAssumption DEF IInv, TypeOK
<1>3. temp' \subseteq 1 .. nxt
    BY <1>2, EndedOid DEF IInv, CollectNew, CollectChanged, CollectMerge
<1>4. TypeOK'
    BY <1>1, <1>3 DEF IInv, TypeOK, hpssVars, indexVars
<1>5. Uncollected'
  <2>1. CASE CollectNew
    BY <1>1, <2>1 DEF CollectNew, Uncollected
  <2>2. CASE pc # "new"
    <3>1. \/ temp' = temp
          \/ \E S : temp' = temp \cup S /\ \A q \in S : q <= last
      BY <2>2 DEF CollectNew, CollectChanged, CollectMerge
    <3>2. Uncollected /\ pc \notin {"idle", "new"}
      BY <1>1, <2>2 DEF IInv
    <3>3. CASE temp' = temp
      BY <1>1, <3>2, <3>3 DEF Uncollected
    <3>4. ASSUME NEW S, temp' = temp \cup S, \A q \in S : q <= last,
                 "new" \notin lossy',
                 NEW o \in live, last < o, o \notin temp'
          PROVE  \A q \in temp' : q < o
      <4>1. \A q \in temp : q < o
        BY <1>1, <3>2, <3>4 DEF Uncollected
      <4>2. \A q \in S : q < o
        <5>1. S \subseteq Nat /\ o \in Nat
          BY <1>2, <1>3, <3>4
        <5>. QED
          BY <1>2, <3>4, <5>1
      <4>. QED
        BY <3>4, <4>1, <4>2
    <3>. QED
      BY <1>1, <3>1, <3>3, <3>4 DEF Uncollected
  <2>. QED
    BY <2>1, <2>2 DEF CollectChanged, CollectMerge
<1>6. Exported'
    BY <1>1 DEF IInv, Exported
<1>7. NextLast' = NextLast
    BY <1>1 DEF NextLast
<1>8. Built' /\ LastIsNewest' /\ NoneSkipped'
    BY <1>1, <1>7 DEF IInv, Built, LastIsNewest, NoneSkipped
<1>. QED
    BY <1>4, <1>5, <1>6, <1>8 DEF IInv

(* What is left of an ordered file has no gaps.                             *)
LEMMA NoGaps ==
    ASSUME NEW S \in SUBSET Nat, NEW T \in Beginnings(S)
    PROVE  T \subseteq S /\ \A o \in S, q \in T : o <= q => o \in T
<1>1. PICK n \in S : T = {o \in S : o < n}
    BY DEF Beginnings
<1>. QED
    BY <1>1

LEMMA RowsOfType ==
    ASSUME NEW v \in [Oid -> Ver], NEW S \in SUBSET Oid
    PROVE  /\ RowsOf(v, S) \in Rows /\ DOMAIN RowsOf(v, S) = S
           /\ \A o \in S : RowsOf(v, S)[o] = v[o]
<1>1. RowsOf(v, S) \in [S -> Ver]
    BY DEF RowsOf
<1>. QED
    BY <1>1, RowsIntro DEF RowsOf

(* What an EXPORT leaves behind: no file, or the rows of some of the        *)
(* objects, of all of them unless it failed.                                *)
ExportedRows(f, v, S, All) ==
    /\ out' = [out EXCEPT ![f] = RowsOf(v, S)] /\ missing' = missing
    /\ S \subseteq All /\ ("part" \notin lossy' => S = All)

LEMMA ExportSteps ==
    ASSUME IInv, ExportFattr \/ ExportPath \/ ExportXattr \/ ExportDeleted
    PROVE  /\ UNCHANGED <<day, ran, hpssVars, last, from, ts, temp, indexVars, mdb,
                          orphan>>
           /\ missing \subseteq missing' /\ missing' \subseteq File
           /\ lossy \subseteq lossy' /\ lossy' \subseteq lossy \cup {"part"}
           /\ pc \in {"fattr", "path", "xattr", "deleted"}
           /\ pc' \in {"path", "xattr", "deleted", "report"}
           /\ \E S \in SUBSET Oid :
                 \/ out' = out /\ missing' # {}
                 \/ /\ pc = "fattr" /\ pc' = "path"
                    /\ ExportedRows("fattr", attr, S, temp \cap live)
                    /\ \A o \in temp \cap live, q \in S : o <= q => o \in S
                 \/ /\ pc = "path" /\ pc' = "xattr"
                    /\ ExportedRows("path", path, S, temp \cap live)
                 \/ /\ pc = "xattr" /\ pc' = "deleted"
                    /\ ExportedRows("xattr", tag, S, {o \in temp \cap live : tag[o] # 0})
                 \/ /\ pc = "deleted" /\ pc' = "report"
                    /\ out' = [out EXCEPT !["deleted"] = S] /\ missing' = missing
<1>. DEFINE A == temp \cap live
            X == {o \in A : tag[o] # 0}
            E == Ended("object") \ live
<1>1. A \in SUBSET Nat /\ A \in SUBSET Oid /\ X \in SUBSET Oid /\ missing \subseteq File
  <2>1. A \subseteq 1 .. nxt /\ nxt \in 0 .. MaxOid /\ missing \subseteq File
    BY DEF IInv, TypeOK
  <2>2. A \subseteq Nat /\ A \subseteq Oid
    BY <2>1, MaxOidAssumption DEF Oid
  <2>. QED
    BY <2>1, <2>2
<1>2. E \in SUBSET Nat /\ E \in SUBSET Oid
    BY EndedOid, MaxOidAssumption DEF IInv, TypeOK, Oid
<1>3. /\ \A T \in Beginnings(A) : T \subseteq A /\ \A o \in A, q \in T : o <= q => o \in T
      /\ \A T \in Beginnings(E) : T \subseteq E
    BY <1>1, <1>2, NoGaps
<1>. HIDE DEF A, X, E
<1>4. CASE ExportFattr
  <2>1. /\ pc = "fattr" /\ pc' = "path"
        /\ Export("fattr", RowsOf(attr, A), {RowsOf(attr, S) : S \in Beginnings(A)})
    BY <1>4 DEF ExportFattr, A
  <2>. QED
    BY <1>1, <1>3, <2>1 DEF Export, ExportedRows, File, A
<1>5. CASE ExportPath
  <2>1. /\ pc = "path" /\ pc' = "xattr"
        /\ Export("path", RowsOf(path, A), {RowsOf(path, S) : S \in Beginnings(A)})
    BY <1>5 DEF ExportPath, A
  <2>. QED
    BY <1>1, <1>3, <2>1 DEF Export, ExportedRows, File, A
<1>6. CASE ExportXattr
  <2>1. /\ pc = "xattr" /\ pc' = "deleted"
        /\ Export("xattr", RowsOf(tag, X), {RowsOf(tag, S) : S \in SUBSET X})
    BY <1>6 DEF ExportXattr, A, X
  <2>. QED
    BY <1>1, <2>1 DEF Export, ExportedRows, File, A, X
<1>7. CASE ExportDeleted
  <2>1. /\ pc = "deleted" /\ pc' = "report"
        /\ Export("deleted", E, Beginnings(E))
    BY <1>7 DEF ExportDeleted, E
  <2>. QED
    BY <1>1, <1>2, <1>3, <2>1 DEF Export, File
<1>. QED
    BY <1>4, <1>5, <1>6, <1>7

(* The four exports.                                                        *)
LEMMA ExportInv ==
    ASSUME IInv, ExportFattr \/ ExportPath \/ ExportXattr \/ ExportDeleted
    PROVE  IInv'
<1>1. /\ pc \in {"fattr", "path", "xattr", "deleted"}
      /\ pc' \in {"path", "xattr", "deleted", "report"}
      /\ UNCHANGED <<day, ran, hpssVars, last, from, ts, temp, indexVars, mdb, orphan>>
      /\ lossy \subseteq lossy' /\ lossy' \subseteq lossy \cup {"part"}
      /\ missing' \subseteq File
    BY ExportSteps
<1>2. /\ attr \in [Oid -> Ver] /\ path \in [Oid -> Ver] /\ tag \in [Oid -> Ver]
      /\ out \in [fattr : Rows, path : Rows, xattr : Rows, deleted : SUBSET Oid]
    BY DEF IInv, TypeOK
<1>3. PICK S \in SUBSET Oid :
         \/ out' = out
         \/ /\ pc = "fattr" /\ out' = [out EXCEPT !["fattr"] = RowsOf(attr, S)]
            /\ S \subseteq temp \cap live
            /\ \A o \in temp \cap live, q \in S : o <= q => o \in S
         \/ out' = [out EXCEPT !["path"] = RowsOf(path, S)]
         \/ out' = [out EXCEPT !["xattr"] = RowsOf(tag, S)]
         \/ out' = [out EXCEPT !["deleted"] = S]
    BY ExportSteps DEF ExportedRows
<1>4. /\ RowsOf(attr, S) \in Rows /\ RowsOf(path, S) \in Rows /\ RowsOf(tag, S) \in Rows
      /\ DOMAIN RowsOf(attr, S) = S
    BY <1>2, RowsOfType
<1>5. /\ out' \in [fattr : Rows, path : Rows, xattr : Rows, deleted : SUBSET Oid]
      /\ \/ out'.fattr = out.fattr
         \/ /\ pc = "fattr" /\ DOMAIN out'.fattr = S /\ S \subseteq temp \cap live
            /\ \A o \in temp \cap live, q \in S : o <= q => o \in S
    BY <1>2, <1>3, <1>4
<1>6. TypeOK'
    BY <1>1, <1>5 DEF IInv, TypeOK, hpssVars, indexVars
<1>7. Exported'
    BY <1>1, <1>5 DEF IInv, Exported, hpssVars
<1>8. NextLast' = NextLast
    BY <1>1 DEF NextLast
<1>9. Uncollected' /\ Built' /\ LastIsNewest' /\ NoneSkipped'
    BY <1>1, <1>8
    DEF IInv, Uncollected, Built, LastIsNewest, NoneSkipped, hpssVars, indexVars
<1>. QED
    BY <1>6, <1>7, <1>9 DEF IInv

LEMMA ReportInv == ASSUME IInv, Report PROVE IInv'
<1>1. CASE pc' = "build" /\ UNCHANGED <<ran, taskVars>>
  <2>1. /\ pc = "report"
        /\ UNCHANGED <<day, ran, taskVars, hpssVars, indexVars, mdb, lossy, orphan>>
    BY <1>1 DEF Report
  <2>2. NextLast' = NextLast
    BY <2>1 DEF NextLast
  <2>3. TypeOK'
    BY <1>1, <2>1 DEF IInv, TypeOK, hpssVars, taskVars, indexVars
  <2>. QED
    BY <1>1, <2>1, <2>2, <2>3
    DEF IInv, Uncollected, Exported, Built, LastIsNewest, NoneSkipped,
        hpssVars, taskVars, indexVars
<1>2. CASE TaskGone /\ ran' = TRUE
  <2>1. UNCHANGED <<day, hpssVars, indexVars, mdb, lossy, orphan>>
    BY DEF Report
  <2>2. NoneSkipped'
    BY <2>1 DEF IInv, NoneSkipped, NextLast, hpssVars, indexVars
  <2>. QED
    BY <1>2, <2>1, <2>2, GoneInv DEF IInv, TypeOK, hpssVars
<1>. QED
    BY <1>1, <1>2 DEF Report

(* A transaction only adds objects to the index, those in its files.        *)
LEMMA ProcessRows ==
    ASSUME TypeOK, NEW f, Process(f),
           f \in [fattr : Rows, path : Rows, xattr : Rows, deleted : SUBSET Oid]
    PROVE  /\ object' \in Rows /\ file' \in Rows /\ attr_val' \in Rows
           /\ invalid' \subseteq DOMAIN object'
           /\ DOMAIN object' = DOMAIN object \cup DOMAIN f.fattr
<1>1. /\ f.fattr \in Rows /\ f.path \in Rows /\ f.xattr \in Rows
      /\ f.deleted \subseteq Oid
      /\ object \in Rows /\ file \in Rows /\ attr_val \in Rows
      /\ invalid \subseteq DOMAIN object
    BY DEF TypeOK
<1>2. /\ object' = Upsert(object, f.fattr)
      /\ file' = Upsert(file, f.path)
      /\ attr_val' = Upsert(attr_val, f.xattr)
      /\ invalid' = invalid \cup (f.deleted \cap DOMAIN object')
    BY Zenon DEF Process, ProcessFattr, ProcessPath, ProcessXattrs, ProcessDeleted
<1>3. object' \in Rows /\ DOMAIN object' = DOMAIN object \cup DOMAIN f.fattr
    BY <1>1, <1>2, UpsertRows
<1>4. file' \in Rows /\ attr_val' \in Rows
    BY <1>1, <1>2, UpsertRows
<1>. QED
    BY <1>1, <1>2, <1>3, <1>4

(* After the commit the index has the exported objects.                     *)
LEMMA BuildInv == ASSUME IInv, Build \/ BuildFailed PROVE IInv'
<1>1. /\ pc = "build" /\ pc' = "record"
      /\ UNCHANGED <<day, ran, hpssVars, taskVars, mdb, orphan>>
      /\ lossy \subseteq lossy' /\ lossy' \subseteq lossy \cup {"build"}
    BY DEF Build, BuildFailed
<1>2. /\ out \in [fattr : Rows, path : Rows, xattr : Rows, deleted : SUBSET Oid]
      /\ object \in Rows /\ file \in Rows /\ attr_val \in Rows
      /\ invalid \subseteq DOMAIN object
    BY DEF IInv, TypeOK
<1>3. /\ object' \in Rows /\ file' \in Rows /\ attr_val' \in Rows
      /\ invalid' \subseteq DOMAIN object'
      /\ DOMAIN object \subseteq DOMAIN object'
      /\ "build" \notin lossy' => DOMAIN out.fattr \subseteq DOMAIN object'
  <2>1. CASE Build
    BY <1>2, <2>1, ProcessRows DEF Build, IInv
  <2>2. CASE BuildFailed
    BY <1>2, <2>2 DEF BuildFailed, indexVars
  <2>. QED
    BY <2>1, <2>2
<1>4. TypeOK'
    BY <1>1, <1>3 DEF IInv, TypeOK, hpssVars, taskVars
<1>5. NextLast' = NextLast
    BY <1>1 DEF NextLast
<1>. QED
    BY <1>1, <1>3, <1>4, <1>5
    DEF IInv, Uncollected, Exported, Built, LastIsNewest, NoneSkipped, hpssVars,
        taskVars

(* A builder of a lost task takes nothing away, whenever it ends.           *)
LEMMA OrphanInv == ASSUME IInv, OrphanEnds \/ OrphanWins PROVE IInv'
<1>1. /\ UNCHANGED <<day, ran, hpssVars, taskVars, mdb>>
      /\ orphan' = NoOrphan
      /\ \/ Process(orphan.out)
         \/ UNCHANGED indexVars
      /\ lossy \subseteq lossy' /\ lossy' \subseteq lossy \cup {"build", "late"}
      /\ \/ pc' = pc
         \/ pc = "build" /\ pc' = "record" /\ "build" \in lossy'
    BY DEF OrphanEnds, OrphanWins
<1>2. /\ orphan.out \in [fattr : Rows, path : Rows, xattr : Rows, deleted : SUBSET Oid]
      /\ object \in Rows /\ file \in Rows /\ attr_val \in Rows
      /\ invalid \subseteq DOMAIN object
    BY DEF IInv, TypeOK
<1>3. /\ object' \in Rows /\ file' \in Rows /\ attr_val' \in Rows
      /\ invalid' \subseteq DOMAIN object'
      /\ DOMAIN object \subseteq DOMAIN object'
  <2>1. CASE Process(orphan.out)
    BY <1>2, <2>1, ProcessRows DEF IInv
  <2>2. CASE UNCHANGED indexVars
    BY <1>2, <2>2 DEF indexVars
  <2>. QED
    BY <1>1, <2>1, <2>2
<1>4. NoOrphan \in [day : Nat, out : [fattr : Rows, path : Rows, xattr : Rows,
                                      deleted : SUBSET Oid]]
    BY EmptyRows DEF NoOrphan, NoFiles
<1>5. TypeOK'
    BY <1>1, <1>3, <1>4 DEF IInv, TypeOK, hpssVars, taskVars
<1>6. NextLast' = NextLast
    BY <1>1 DEF NextLast
<1>7. Uncollected' /\ Exported' /\ LastIsNewest'
    BY <1>1, <1>6 DEF IInv, Uncollected, Exported, LastIsNewest, hpssVars, taskVars
<1>8. Built' /\ NoneSkipped'
    BY <1>1, <1>3, <1>6 DEF IInv, Built, NoneSkipped, hpssVars, taskVars
<1>. QED
    BY <1>5, <1>7, <1>8 DEF IInv

(* The watermark moves: what lies below it was indexed before, or collected *)
(* and exported in this task, and then built.                               *)
LEMMA RecordInv == ASSUME IInv, Record PROVE IInv'
<1>. DEFINE D == DOMAIN out.fattr
<1>1. /\ pc = "record" /\ mdb' = [oid_end |-> EndOid, ts |-> ts] /\ TaskGone
      /\ ran' = TRUE /\ UNCHANGED <<day, hpssVars, indexVars, lossy, orphan>>
    BY DEF Record
<1>2. /\ nxt \in Nat /\ live \subseteq 1 .. nxt /\ temp \subseteq 1 .. nxt
      /\ last \in Nat /\ ts \in 0 .. day /\ D \subseteq temp
    BY MaxOidAssumption DEF IInv, TypeOK, Exported
<1>3. /\ D = {} => EndOid = 0
      /\ D # {} => EndOid \in D /\ \A q \in D : q <= EndOid
    BY <1>2, Greatest DEF EndOid
<1>4. EndOid \in 0 .. nxt
  <2>. HIDE DEF D
  <2>1. CASE D = {}
    BY <1>2, <1>3, <2>1
  <2>2. CASE D # {}
    <3>1. EndOid \in D
      BY <1>3, <2>2
    <3>2. EndOid \in 1 .. nxt
      BY <1>2, <3>1, Zenon
    <3>. HIDE DEF EndOid
    <3>. QED
      BY <1>2, <3>2
  <2>. QED
    BY <2>1, <2>2
<1>5. ASSUME lossy' \cap {"new", "build"} = {},
             NEW o \in live', FirstOid < o, o <= NextLast'
      PROVE  o \in DOMAIN object'
  <2>1. /\ lossy \cap {"new", "build"} = {} /\ o \in live /\ object' = object
        /\ o \in Nat
    BY <1>1, <1>2, <1>5 DEF hpssVars, indexVars
  <2>2. EndOid # 0 /\ o <= EndOid
    BY <1>1, <1>5, <2>1, FirstOidAssumption DEF NextLast
  <2>3. CASE o <= last
    BY <1>1, <1>5, <2>1, <2>3 DEF IInv, LastIsNewest, NoneSkipped
  <2>4. CASE last < o
    <3>1. D # {} /\ EndOid \in temp
      BY <1>2, <1>3, <2>2
    <3>2. o \in temp
      <4>. SUFFICES ASSUME o \notin temp PROVE FALSE
        OBVIOUS
      <4>1. EndOid < o
        BY <1>1, <2>1, <2>4, <3>1 DEF IInv, Uncollected
      <4>. QED
        BY <1>2, <2>1, <2>2, <3>1, <4>1
    <3>3. o \in D
      BY <1>3, <2>1, <2>2, <3>1, <3>2 DEF IInv, Exported
    <3>. QED
      BY <1>1, <2>1, <3>3 DEF IInv, Built
  <2>. QED
    BY <1>2, <2>1, <2>3, <2>4
<1>6. NoneSkipped'
    BY <1>5 DEF NoneSkipped
<1>7. mdb' \in [oid_end : 0 .. nxt, ts : 0 .. day]
    BY <1>1, <1>2, <1>4
<1>8. orphan' \in [day : Nat,
                   out : [fattr : Rows, path : Rows, xattr : Rows, deleted : SUBSET Oid]]
    BY <1>1 DEF IInv, TypeOK
<1>. QED
    BY <1>1, <1>6, <1>7, <1>8, GoneInv

-----------------------------------------------------------------------------
(* The inductive invariant: what the task has collected, exported and built *)
(* when it comes to move the watermark.                                     *)
THEOREM Inductive == Spec => []IInv
<1>1. ASSUME IInv, [Next]_vars PROVE IInv'
    BY <1>1, UserInv, TickInv, LaunchInv, AbortInv, CollectInv, ExportInv,
       ReportInv, BuildInv, OrphanInv, RecordInv
    DEF Next, TaskStep
<1>. QED
    BY <1>1, InitIInv, PTL DEF Spec

(* Type correctness: in particular the watermark is never beyond the newest *)
(* object, and only objects of the index are invalid in it.                 *)
THEOREM TypeCorrect == Spec => []TypeOK
<1>1. IInv => TypeOK
    BY DEF IInv
<1>. QED
    BY <1>1, Inductive, PTL

(* The watermark never passes over an object that exists and is not in the  *)
(* index, for every number of objects, however users' changes interleave    *)
(* with the statements of the script and wherever tasks are aborted, unless *)
(* the INSERT of the new objects or the builder failed.                     *)
THEOREM WatermarkSafe == Spec => []NoneSkipped
<1>1. IInv => NoneSkipped
    BY DEF IInv
<1>. QED
    BY <1>1, Inductive, PTL

-----------------------------------------------------------------------------
(* MetadataFollows: what is under way between the name space and the index. *)

(* HPSS has ended a row of the object since the day d.                      *)
Since(o, d) == \E h \in hist : h.oid = o /\ h.day >= d

(* The index has of the object what the name space has.                     *)
Matches(o) ==
    /\ o \in DOMAIN object /\ object[o] = attr[o]
    /\ o \in DOMAIN file
    /\ o \in above \/ file[o] = path[o]
    /\ \/ o \in untagged \cup untouched
       \/ tag[o] = 0
       \/ o \in DOMAIN attr_val /\ attr_val[o] = tag[o]

(* The rows of files that a task of the day d wrote are still true, except  *)
(* of objects that were changed since.                                      *)
RowsTrue(f, o) ==
    /\ o \in DOMAIN f.fattr => f.fattr[o] = attr[o]
    /\ o \in DOMAIN f.path => o \in above \/ f.path[o] = path[o]
    /\ o \in DOMAIN f.xattr => o \in untagged \cup untouched \/ f.xattr[o] = tag[o]

Fresh(f, d) ==
    /\ DOMAIN f.fattr \cup DOMAIN f.path \cup DOMAIN f.xattr \subseteq 1 .. nxt
    /\ \A o \in live : Since(o, d) \/ RowsTrue(f, o)

(* Every file that has been exported has the rows of all collected objects. *)
Complete ==
    (missing = {} /\ "part" \notin lossy) => \A o \in live \cap temp :
        /\ pc \in {"path", "xattr", "deleted", "report", "build"} =>
              o \in DOMAIN out.fattr
        /\ pc \in {"xattr", "deleted", "report", "build"} => o \in DOMAIN out.path
        /\ pc \in {"deleted", "report", "build"} =>
              \/ o \in untagged \cup untouched \/ tag[o] = 0 \/ Since(o, ts)
              \/ o \in DOMAIN out.xattr

(* What the task has collected or still will, and after the commit what it  *)
(* leaves to the next one.                                                  *)
Due(o) ==
    \/ last < o /\ (pc = "record" => o \notin temp)
    \/ o \in temp /\ pc \notin {"new", "record"}
    \/ /\ pc \in {"new", "changed"}
       /\ \E h \in hist : h.table = "object" /\ h.oid = o /\ h.day >= from
    \/ /\ pc \in {"new", "changed", "merge"}
       /\ \E h \in hist : h.table = "fileinfo" /\ h.oid = o /\ h.day >= from

(* An object that the index is behind with is changed so lately that the    *)
(* next task finds it, or is due in this one.                               *)
UnderWay ==
    (lossy = {} /\ pc # "idle") => \A o \in live :
        o <= FirstOid \/ Since(o, ts - 1) \/ Matches(o) \/ Due(o)

Dates == orphan.day <= day /\ (pc # "idle" => mdb.ts <= ts)

IdleEmpty == pc \in {"idle", "new"} => out = NoFiles

MInv ==
    /\ IdleEmpty /\ Fresh(out, ts) /\ Fresh(orphan.out, orphan.day)
    /\ Complete /\ UnderWay /\ Dates /\ MetadataFollows

LEMMA UpsertAt ==
    ASSUME NEW f, NEW g, NEW o
    PROVE  /\ o \in DOMAIN Upsert(f, g) <=> o \in DOMAIN f \/ o \in DOMAIN g
           /\ o \in DOMAIN g => Upsert(f, g)[o] = g[o]
           /\ o \in DOMAIN f /\ o \notin DOMAIN g => Upsert(f, g)[o] = f[o]
BY DEF Upsert

(* The dates and ids that are compared are numbers.                         *)
LEMMA Numbers ==
    ASSUME IInv
    PROVE  /\ day \in Nat /\ ts \in Nat /\ ts <= day /\ from \in Int
           /\ mdb.ts \in Nat /\ mdb.ts <= day /\ mdb.oid_end \in Nat
           /\ mdb.oid_end <= nxt /\ orphan.day \in Nat
           /\ nxt \in Nat /\ last \in Nat /\ FirstOid \in Nat
           /\ live \subseteq Nat /\ live \subseteq 1 .. nxt
           /\ temp \subseteq 1 .. nxt
           /\ \A h \in hist : h.day \in Nat /\ h.table \in Table
BY MaxOidAssumption, MaxDayAssumption, FirstOidAssumption DEF IInv, TypeOK

(* An object that was changed since yesterday will be collected by the next *)
(* task, and one above the watermark, too.                                  *)
LEMMA ComingFacts ==
    ASSUME IInv, NEW o \in live
    PROVE  /\ o \in Coming <=> o > NextLast \/ Since(o, NextFrom)
           /\ FirstOid < o => o \in Coming \/ mdb.oid_end # 0
           /\ \A d \in Int : mdb.ts - 1 <= d /\ Since(o, d) /\ FirstOid < o => o \in Coming
<1>1. o \in Coming <=> o > NextLast \/ Since(o, NextFrom)
    BY DEF Coming, Since
<1>2. FirstOid < o => o \in Coming \/ mdb.oid_end # 0
    BY <1>1, Numbers DEF NextLast
<1>3. ASSUME NEW d \in Int, mdb.ts - 1 <= d, Since(o, d), FirstOid < o
      PROVE  o \in Coming
  <2>1. CASE mdb.oid_end # 0
    BY <1>1, <1>3, <2>1, Numbers DEF NextFrom, Since
  <2>. QED
    BY <1>2, <1>3, <2>1
<1>. QED
    BY <1>1, <1>2, <1>3

LEMMA InitMInv == Init => MInv
<1>. SUFFICES ASSUME Init PROVE MInv
    OBVIOUS
<1>1. /\ DOMAIN NoFiles.fattr = {} /\ DOMAIN NoFiles.path = {}
      /\ DOMAIN NoFiles.xattr = {}
    BY EmptyRows DEF NoFiles
<1>2. /\ live = {} /\ pc = "idle" /\ out = NoFiles /\ orphan.out = NoFiles
      /\ orphan.day = 0 /\ day = 1 /\ temp = {}
    BY DEF Init, NoOrphan
<1>. QED
    BY <1>1, <1>2
    DEF MInv, IdleEmpty, Fresh, Complete, UnderWay, Dates, MetadataFollows

(* A change leaves the row that ended in the history, under today.          *)
LEMMA ChangedToday ==
    ASSUME NEW o, NEW t, Changed(o, t)
    PROVE  /\ hist \subseteq hist'
           /\ \E h \in hist' : h.table = t /\ h.oid = o /\ h.day = day
<1>. DEFINE h == [table |-> t, oid |-> o, day |-> day]
<1>1. h \in hist' /\ h.table = t /\ h.oid = o /\ h.day = day /\ hist \subseteq hist'
    BY DEF Changed
<1>. HIDE DEF h
<1>. QED
    BY <1>1

(* What a step of a user means for an object: it is the newest, its change  *)
(* is in the history under today, or it is as it was but for the three      *)
(* exceptions.                                                              *)
LEMMA UserTouches ==
    ASSUME IInv, UserStep
    PROVE  /\ UNCHANGED <<day, ran, pc, taskVars, indexVars, mdb, lossy, orphan>>
           /\ hist \subseteq hist' /\ above \subseteq above'
           /\ untagged \subseteq untagged' /\ nxt' \in Nat /\ nxt <= nxt'
           /\ \A o \in live' :
                 \/ o = nxt + 1
                 \/ o \in live /\ \E h \in hist' : h.oid = o /\ h.day = day
                 \/ /\ o \in live /\ attr'[o] = attr[o]
                    /\ path'[o] = path[o] \/ o \in above'
                    /\ tag'[o] = tag[o] \/ o \in untagged' \cup untouched'
                    /\ o \in untouched => o \in untouched'
<1>. USE DEF IInv, TypeOK
<1>0. live \subseteq Oid /\ nxt \in Nat
    BY MaxOidAssumption DEF Oid
<1>1. CASE Create
    BY <1>0, <1>1 DEF Create
<1>2. ASSUME NEW o \in Oid, Delete(o)
      PROVE  /\ live' \subseteq live /\ hist \subseteq hist'
             /\ UNCHANGED <<nxt, attr, path, tag, above, untagged, untouched>>
             /\ UNCHANGED <<day, ran, pc, taskVars, indexVars, mdb, lossy, orphan>>
    BY <1>2, ChangedToday DEF Delete
<1>3. ASSUME NEW o \in Oid, NEW t \in Table, SetAttr(o, t)
      PROVE  /\ hist \subseteq hist' /\ \E h \in hist' : h.oid = o /\ h.day = day
             /\ \A q \in Oid : q # o => attr'[q] = attr[q]
             /\ UNCHANGED <<live, nxt, path, tag, above, untagged, untouched>>
             /\ UNCHANGED <<day, ran, pc, taskVars, indexVars, mdb, lossy, orphan>>
    BY <1>3, ChangedToday DEF SetAttr
<1>4. ASSUME NEW o \in Oid, Rename(o)
      PROVE  /\ hist \subseteq hist' /\ \E h \in hist' : h.oid = o /\ h.day = day
             /\ \A q \in Oid : q # o => path'[q] = path[q] \/ q \in above'
             /\ above \subseteq above'
             /\ UNCHANGED <<live, nxt, attr, tag, untagged, untouched>>
             /\ UNCHANGED <<day, ran, pc, taskVars, indexVars, mdb, lossy, orphan>>
    BY <1>4, ChangedToday DEF Rename
<1>5. ASSUME NEW o \in Oid, TagSet(o)
      PROVE  /\ \A q \in Oid : tag'[q] = tag[q] \/ q \in untouched'
             /\ untouched \subseteq untouched'
             /\ UNCHANGED <<live, nxt, attr, path, above, untagged, hist>>
             /\ UNCHANGED <<day, ran, pc, taskVars, indexVars, mdb, lossy, orphan>>
    BY <1>5 DEF TagSet
<1>7. ASSUME NEW o \in Oid, TagTouch(o)
      PROVE  /\ hist \subseteq hist' /\ \E h \in hist' : h.oid = o /\ h.day = day
             /\ untouched \subseteq untouched' \cup {o}
             /\ UNCHANGED <<live, nxt, attr, path, tag, above, untagged>>
             /\ UNCHANGED <<day, ran, pc, taskVars, indexVars, mdb, lossy, orphan>>
    BY <1>7, ChangedToday DEF TagTouch
<1>6. ASSUME NEW o \in Oid, TagDel(o)
      PROVE  /\ \A q \in Oid : tag'[q] = tag[q] \/ q \in untagged'
             /\ untagged \subseteq untagged'
             /\ UNCHANGED <<live, nxt, attr, path, above, hist, untouched>>
             /\ UNCHANGED <<day, ran, pc, taskVars, indexVars, mdb, lossy, orphan>>
    BY <1>6 DEF TagDel
<1>. HIDE DEF IInv, TypeOK
<1>. QED
    BY <1>0, <1>1, <1>2, <1>3, <1>4, <1>5, <1>6, <1>7 DEF UserStep, Create

(* Users' steps: what they change they leave in the history, later than any *)
(* date that the files or the record bear.                                  *)
LEMMA UserMeta == ASSUME IInv, MInv, UserStep, IInv' PROVE MInv'
<1>1. /\ UNCHANGED <<day, pc, last, from, ts, temp, out, missing, object, file,
                     attr_val, mdb, lossy, orphan>>
      /\ hist \subseteq hist' /\ above \subseteq above' /\ untagged \subseteq untagged'
      /\ nxt' \in Nat /\ nxt <= nxt'
    BY UserTouches DEF taskVars, indexVars
<1>2. NextLast' = NextLast /\ NextFrom' = NextFrom
    BY <1>1 DEF NextLast, NextFrom
<1>. DEFINE Touched(o) == \E h \in hist' : h.oid = o /\ h.day = day
            Left(o) == /\ o \in live /\ attr'[o] = attr[o]
                       /\ path'[o] = path[o] \/ o \in above'
                       /\ tag'[o] = tag[o] \/ o \in untagged' \cup untouched'
                       /\ o \in untouched => o \in untouched'
<1>3. \A o \in live' : o = nxt + 1 \/ (o \in live /\ Touched(o)) \/ Left(o)
    BY UserTouches
<1>4. ASSUME NEW o, Touched(o), NEW d \in Int, d <= day
      PROVE  \E h \in hist' : h.oid = o /\ h.day >= d
    BY <1>4, Numbers
<1>5. ASSUME NEW f, NEW d \in Int, d <= day, Fresh(f, d)
      PROVE  Fresh(f, d)'
  <2>1. /\ DOMAIN f.fattr \cup DOMAIN f.path \cup DOMAIN f.xattr \subseteq 1 .. nxt
        /\ 1 .. nxt \subseteq 1 .. nxt' /\ nxt + 1 \notin 1 .. nxt
    BY <1>1, <1>5, Numbers DEF Fresh
  <2>2. ASSUME NEW o \in live'
        PROVE  \/ \E h \in hist' : h.oid = o /\ h.day >= d
               \/ RowsTrue(f, o)'
    <3>1. CASE o = nxt + 1
      BY <2>1, <3>1 DEF RowsTrue
    <3>2. CASE Touched(o)
      BY <1>4, <1>5, <3>2
    <3>3. CASE Left(o) /\ Since(o, d)
      BY <1>1, <3>3 DEF Since
    <3>4. CASE Left(o) /\ RowsTrue(f, o)
      BY <1>1, <3>4 DEF RowsTrue
    <3>. QED
      BY <1>3, <1>5, <3>1, <3>2, <3>3, <3>4 DEF Fresh
  <2>. QED
    BY <2>1, <2>2 DEF Fresh, Since
<1>6. Fresh(out, ts)' /\ Fresh(orphan.out, orphan.day)'
  <2>1. ts <= day /\ orphan.day <= day /\ ts \in Int /\ orphan.day \in Int
    BY Numbers DEF MInv, Dates
  <2>2. Fresh(out, ts) /\ Fresh(orphan.out, orphan.day)
    BY DEF MInv
  <2>3. Fresh(out, ts)'
    BY <1>1, <1>5, <2>1, <2>2 DEF Fresh, Since, RowsTrue
  <2>4. Fresh(orphan.out, orphan.day)'
    <3>1. PICK f, d : f = orphan.out /\ d = orphan.day
      OBVIOUS
    <3>2. Fresh(f, d)
      BY <2>2, <3>1
    <3>3. Fresh(f, d)'
      BY <1>5, <2>1, <3>1, <3>2
    <3>4. f = orphan.out' /\ d = orphan.day'
      BY <1>1, <3>1
    <3>. HIDE <3>1
    <3>. QED
      BY <3>3, <3>4 DEF Fresh, Since, RowsTrue
  <2>. QED
    BY <2>3, <2>4
<1>7. Complete'
  <2>. SUFFICES ASSUME missing = {}, "part" \notin lossy, NEW o \in live', o \in temp
                PROVE  (/\ pc \in {"path", "xattr", "deleted", "report", "build"} =>
                              o \in DOMAIN out.fattr
                        /\ pc \in {"xattr", "deleted", "report", "build"} =>
                              o \in DOMAIN out.path
                        /\ pc \in {"deleted", "report", "build"} =>
                              \/ o \in untagged \cup untouched \/ tag[o] = 0 \/ Since(o, ts)
                              \/ o \in DOMAIN out.xattr)'
    BY <1>1 DEF Complete
  <2>1. o # nxt + 1
    BY Numbers
  <2>2. o \in live /\ (Touched(o) \/ Left(o))
    BY <1>3, <2>1
  <2>3. Touched(o) => Since(o, ts)'
    BY <1>1, <1>4, Numbers DEF Since
  <2>4. Since(o, ts) => Since(o, ts)'
    BY <1>1 DEF Since
  <2>. QED
    BY <1>1, <2>2, <2>3, <2>4 DEF MInv, Complete
<1>8. ASSUME NEW o \in live', Left(o), Matches(o) PROVE Matches(o)'
    BY <1>1, <1>8 DEF Matches
<1>9. UnderWay'
  <2>. SUFFICES ASSUME lossy = {}, pc # "idle", NEW o \in live', FirstOid < o
                PROVE  Since(o, ts - 1)' \/ Matches(o)' \/ Due(o)'
    BY <1>1, Numbers DEF UnderWay, IInv, TypeOK
  <2>1. CASE o = nxt + 1
    <3>1. last = NextLast /\ o \notin temp
      BY <2>1, Numbers DEF IInv, LastIsNewest
    <3>2. last < o
      BY <2>1, <3>1, Numbers DEF NextLast
    <3>. QED
      BY <1>1, <3>1, <3>2 DEF Due
  <2>2. CASE Touched(o)
    BY <1>1, <1>4, <2>2, Numbers DEF Since
  <2>3. CASE Left(o)
    <3>1. Since(o, ts - 1) \/ Matches(o) \/ Due(o)
      BY <2>3, Numbers DEF MInv, UnderWay
    <3>2. Due(o) => Due(o)'
      BY <1>1 DEF Due
    <3>3. Since(o, ts - 1) => Since(o, ts - 1)'
      BY <1>1 DEF Since
    <3>. QED
      BY <1>8, <2>3, <3>1, <3>2, <3>3
  <2>. QED
    BY <1>3, <2>1, <2>2, <2>3
<1>10. MetadataFollows'
  <2>. SUFFICES ASSUME lossy = {}, NEW o \in live', FirstOid < o
                PROVE  o \in Coming' \/ Matches(o)'
    BY <1>1, Numbers DEF MetadataFollows, Matches, IInv, TypeOK
  <2>0. o \in Coming' <=> o > NextLast \/ \E h \in hist' : h.oid = o /\ h.day >= NextFrom
    BY <1>2 DEF Coming
  <2>1. CASE o = nxt + 1
    BY <2>0, <2>1, Numbers DEF NextLast
  <2>2. CASE Touched(o)
    <3>1. NextFrom \in Int /\ NextFrom <= day
      BY Numbers DEF NextFrom
    <3>. QED
      BY <1>4, <2>0, <2>2, <3>1
  <2>3. CASE Left(o)
    <3>1. o \in Coming \/ Matches(o)
      BY <2>3, Numbers DEF MInv, MetadataFollows, Matches
    <3>2. o \in Coming => o \in Coming'
      BY <1>1, <2>0 DEF Coming
    <3>. QED
      BY <1>8, <2>3, <3>1, <3>2
  <2>. QED
    BY <1>3, <2>1, <2>2, <2>3
<1>11. Dates' /\ IdleEmpty'
    BY <1>1 DEF MInv, Dates, IdleEmpty
<1>. QED
    BY <1>6, <1>7, <1>9, <1>10, <1>11 DEF MInv

(* Nothing that the index or the next task knows of the objects changes.    *)
LEMMA SameMeta ==
    ASSUME MetadataFollows, UNCHANGED <<day, hpssVars, indexVars, mdb>>,
           lossy \subseteq lossy'
    PROVE  MetadataFollows'
<1>1. Coming' = Coming
    BY DEF Coming, NextLast, NextFrom, hpssVars
<1>. QED
    BY <1>1 DEF MetadataFollows, hpssVars, indexVars

LEMMA SameFresh ==
    ASSUME UNCHANGED <<hpssVars, orphan>>, Fresh(orphan.out, orphan.day)
    PROVE  Fresh(orphan.out, orphan.day)'
BY DEF Fresh, Since, RowsTrue, hpssVars

(* No row is to be checked in files that are empty.                         *)
LEMMA NoFilesFresh ==
    ASSUME NEW d
    PROVE  Fresh(NoFiles, d) /\ Fresh(NoFiles, d)'
<1>1. /\ DOMAIN NoFiles.fattr = {} /\ DOMAIN NoFiles.path = {}
      /\ DOMAIN NoFiles.xattr = {}
    BY EmptyRows DEF NoFiles
<1>. QED
    BY <1>1 DEF Fresh, RowsTrue

(* A day passes, or nothing does: with no watermark fromdate moves on, but  *)
(* then every object is above the watermark.                                *)
LEMMA TickMeta == ASSUME IInv, MInv, Tick \/ UNCHANGED vars, IInv' PROVE MInv'
<1>1. /\ UNCHANGED <<hpssVars, taskVars, indexVars, pc, mdb, lossy, orphan>>
      /\ day' = day \/ day' = day + 1
    BY DEF Tick, vars
<1>2. /\ UNCHANGED <<nxt, live, attr, path, tag, hist, above, untagged, untouched>>
      /\ UNCHANGED <<last, from, ts, temp, out, missing, object, file, attr_val>>
    BY <1>1 DEF hpssVars, taskVars, indexVars
<1>3. Fresh(out, ts)' /\ Fresh(orphan.out, orphan.day)'
    BY <1>1, <1>2 DEF MInv, Fresh, Since, RowsTrue
<1>4. Complete'
    BY <1>1, <1>2 DEF MInv, Complete, Since
<1>5. UnderWay'
    BY <1>1, <1>2 DEF MInv, UnderWay, Since, Matches, Due
<1>6. Dates' /\ IdleEmpty'
    BY <1>1, <1>2, Numbers DEF MInv, Dates, IdleEmpty
<1>7. MetadataFollows'
  <2>. SUFFICES ASSUME lossy = {}, NEW o \in live, FirstOid < o
                PROVE  o \in Coming' \/ Matches(o)'
    BY <1>1, <1>2, Numbers DEF MetadataFollows, Matches
  <2>1. o \in Coming \/ Matches(o)
    BY Numbers DEF MInv, MetadataFollows, Matches
  <2>2. Matches(o) => Matches(o)'
    BY <1>2 DEF Matches
  <2>3. o \in Coming => o \in Coming'
    <3>1. CASE mdb.oid_end = 0
      BY <1>1, <1>2, <3>1 DEF Coming, NextLast
    <3>2. CASE mdb.oid_end # 0
      BY <1>1, <1>2, <3>2 DEF Coming, NextLast, NextFrom
    <3>. QED
      BY <3>1, <3>2
  <2>. QED
    BY <2>1, <2>2, <2>3
<1>. QED
    BY <1>3, <1>4, <1>5, <1>6, <1>7 DEF MInv

(* What the next task would collect is due now.                             *)
LEMMA LaunchMeta == ASSUME IInv, MInv, Launch, IInv' PROVE MInv'
<1>1. /\ pc = "idle" /\ pc' = "new" /\ last' = NextLast /\ from' = NextFrom /\ ts' = day
      /\ UNCHANGED <<day, hpssVars, temp, out, missing, indexVars, mdb, lossy, orphan>>
    BY DEF Launch
<1>2. UNCHANGED <<nxt, live, attr, path, tag, hist, above, untagged,
                  untouched, object, file, attr_val>>
    BY <1>1 DEF hpssVars, indexVars
<1>3. MetadataFollows' /\ Fresh(orphan.out, orphan.day)'
    BY <1>1, SameMeta, SameFresh DEF MInv
<1>4. out = NoFiles
    BY <1>1 DEF MInv, IdleEmpty
<1>5. Fresh(out, ts)'
    BY <1>1, <1>4, NoFilesFresh DEF Fresh
<1>6. Complete'
    BY <1>1 DEF Complete
<1>7. UnderWay'
  <2>. SUFFICES ASSUME lossy = {}, NEW o \in live, FirstOid < o
                PROVE  Matches(o)' \/ Due(o)'
    BY <1>1, <1>2, Numbers DEF UnderWay
  <2>1. o \in Coming \/ Matches(o)
    BY Numbers DEF MInv, MetadataFollows, Matches
  <2>2. Matches(o) => Matches(o)'
    BY <1>2 DEF Matches
  <2>3. ASSUME o \in Coming PROVE Due(o)'
    <3>1. CASE o > NextLast
      BY <1>1, <3>1, Numbers DEF Due, NextLast
    <3>2. CASE \E h \in hist : h.oid = o /\ h.day >= NextFrom
      BY <1>1, <1>2, <3>2, Numbers DEF Due, Table
    <3>. QED
      BY <2>3, <3>1, <3>2 DEF Coming
  <2>. QED
    BY <2>1, <2>2, <2>3
<1>8. Dates'
    BY <1>1, Numbers DEF MInv, Dates
<1>. QED
    BY <1>1, <1>3, <1>5, <1>6, <1>7, <1>8 DEF MInv, IdleEmpty

(* A task that is gone leaves no files but those a builder still has.       *)
LEMMA GoneMeta ==
    ASSUME MetadataFollows', Fresh(orphan.out, orphan.day)', orphan.day' <= day', TaskGone
    PROVE  MInv'
<1>1. pc' = "idle" /\ out' = NoFiles /\ ts' = 0
    BY DEF TaskGone
<1>2. Fresh(out, ts)'
    BY <1>1, NoFilesFresh DEF Fresh
<1>. QED
    BY <1>1, <1>2 DEF MInv, IdleEmpty, Complete, UnderWay, Dates

LEMMA AbortMeta == ASSUME IInv, MInv, TaskAborted PROVE MInv'
<1>1. UNCHANGED <<day, hpssVars, indexVars, mdb, lossy>> /\ TaskGone
    BY DEF TaskAborted
<1>2. MetadataFollows'
    BY <1>1, SameMeta DEF MInv
<1>3. CASE orphan' = orphan
    BY <1>1, <1>2, <1>3, SameFresh, GoneMeta DEF MInv, Dates
<1>4. CASE orphan' = [day |-> ts, out |-> out]
  <2>1. orphan'.day = ts /\ orphan'.out = out
    BY <1>4
  <2>2. Fresh(orphan.out, orphan.day)'
    BY <1>1, <2>1 DEF MInv, Fresh, Since, RowsTrue, hpssVars
  <2>. QED
    BY <1>1, <1>2, <2>1, <2>2, GoneMeta, Numbers
<1>. QED
    BY <1>3, <1>4 DEF TaskAborted

(* The statements that collect: each finds the objects that are due by it.  *)
LEMMA CollectMeta ==
    ASSUME IInv, MInv, CollectNew \/ CollectChanged \/ CollectMerge PROVE MInv'
<1>1. /\ UNCHANGED <<day, hpssVars, last, from, ts, out, missing, indexVars, mdb, orphan>>
      /\ lossy \subseteq lossy' /\ pc \in {"new", "changed", "merge"}
      /\ pc' \in {"changed", "merge", "fattr"}
    BY DEF CollectNew, CollectChanged, CollectMerge
<1>2. UNCHANGED <<nxt, live, attr, path, tag, hist, above, untagged,
                  untouched, object, file, attr_val>>
    BY <1>1 DEF hpssVars, indexVars
<1>3. MetadataFollows' /\ Fresh(orphan.out, orphan.day)'
    BY <1>1, SameMeta, SameFresh DEF MInv
<1>4. Fresh(out, ts)'
    BY <1>1, <1>2 DEF MInv, Fresh, Since, RowsTrue
<1>5. Complete' /\ Dates' /\ IdleEmpty'
    BY <1>1 DEF MInv, Complete, Dates, IdleEmpty
<1>6. UnderWay'
  <2>. SUFFICES ASSUME lossy' = {}, NEW o \in live, FirstOid < o, ~ Since(o, ts - 1),
                       ~ Matches(o)
                PROVE  Due(o)'
    BY <1>1, <1>2, Numbers DEF UnderWay, Since, Matches
  <2>1. Due(o) /\ lossy = {} /\ o \in Nat
    BY <1>1, Numbers DEF MInv, UnderWay
  <2>2. CASE last < o
    BY <1>1, <2>2 DEF Due
  <2>3. CASE ~ (last < o)
    <3>1. o <= last
      BY <2>1, <2>3, Numbers
    <3>2. CASE CollectNew
      <4>1. pc = "new" /\ pc' = "changed"
        BY <3>2 DEF CollectNew
      <4>. QED
        BY <1>1, <1>2, <2>1, <2>3, <4>1 DEF Due
    <3>3. CASE CollectChanged
      <4>1. /\ pc = "changed" /\ pc' = "merge"
            /\ temp' = temp \cup {q \in Ended("object") : q <= last}
        BY <2>1, <3>3 DEF CollectChanged
      <4>. QED
        BY <1>1, <1>2, <2>1, <2>3, <3>1, <4>1 DEF Due, Ended
    <3>4. CASE CollectMerge
      <4>1. /\ pc = "merge" /\ pc' = "fattr"
            /\ temp' = temp \cup {q \in live \cap Ended("fileinfo") : q <= last}
        BY <2>1, <3>4 DEF CollectMerge
      <4>. QED
        BY <1>1, <1>2, <2>1, <2>3, <3>1, <4>1 DEF Due, Ended
    <3>. QED
      BY <3>2, <3>3, <3>4
  <2>. QED
    BY <2>2, <2>3
<1>. QED
    BY <1>3, <1>4, <1>5, <1>6 DEF MInv

(* The exports: what they write is true now, and whole unless they failed.  *)
LEMMA ExportMeta ==
    ASSUME IInv, MInv, ExportFattr \/ ExportPath \/ ExportXattr \/ ExportDeleted
    PROVE  MInv'
<1>1. /\ UNCHANGED <<day, hpssVars, last, from, ts, temp, indexVars, mdb, orphan>>
      /\ pc \in {"fattr", "path", "xattr", "deleted"}
      /\ pc' \in {"path", "xattr", "deleted", "report"}
      /\ missing \subseteq missing' /\ lossy \subseteq lossy'
    BY ExportSteps
<1>2. UNCHANGED <<nxt, live, attr, path, tag, hist, above, untagged,
                  untouched, object, file, attr_val>>
    BY <1>1 DEF hpssVars, indexVars
<1>3. MetadataFollows' /\ Fresh(orphan.out, orphan.day)'
    BY <1>1, SameMeta, SameFresh DEF MInv
<1>4. UnderWay'
    BY <1>1, <1>2 DEF MInv, UnderWay, Since, Matches, Due
<1>5. Dates' /\ IdleEmpty'
    BY <1>1 DEF MInv, Dates, IdleEmpty
<1>6. /\ out \in [fattr : Rows, path : Rows, xattr : Rows, deleted : SUBSET Oid]
      /\ temp \cap live \subseteq 1 .. nxt
      /\ attr \in [Oid -> Ver] /\ path \in [Oid -> Ver] /\ tag \in [Oid -> Ver]
    BY Numbers DEF IInv, TypeOK
<1>. DEFINE Kept(f) == out'[f] = out[f]
<1>7. PICK S \in SUBSET Oid :
         \/ out' = out /\ missing' # {}
         \/ /\ pc = "fattr" /\ pc' = "path"
            /\ ExportedRows("fattr", attr, S, temp \cap live)
         \/ /\ pc = "path" /\ pc' = "xattr"
            /\ ExportedRows("path", path, S, temp \cap live)
         \/ /\ pc = "xattr" /\ pc' = "deleted"
            /\ ExportedRows("xattr", tag, S, {o \in temp \cap live : tag[o] # 0})
         \/ /\ pc = "deleted" /\ pc' = "report"
            /\ out' = [out EXCEPT !["deleted"] = S]
    BY ExportSteps
<1>. DEFINE A == RowsOf(attr, S)
            P == RowsOf(path, S)
            X == RowsOf(tag, S)
<1>8. \/ /\ out' = out /\ missing' # {}
      \/ /\ pc = "fattr" /\ pc' = "path" /\ out'.fattr = A
         /\ S \subseteq temp \cap live
         /\ "part" \notin lossy' => S = temp \cap live
         /\ Kept("path") /\ Kept("xattr")
      \/ /\ pc = "path" /\ pc' = "xattr" /\ out'.path = P
         /\ S \subseteq temp \cap live
         /\ "part" \notin lossy' => S = temp \cap live
         /\ Kept("fattr") /\ Kept("xattr")
      \/ /\ pc = "xattr" /\ pc' = "deleted" /\ out'.xattr = X
         /\ S \subseteq temp \cap live
         /\ "part" \notin lossy' => \A o \in temp \cap live : tag[o] = 0 \/ o \in S
         /\ Kept("fattr") /\ Kept("path")
      \/ /\ pc = "deleted" /\ pc' = "report"
         /\ Kept("fattr") /\ Kept("path") /\ Kept("xattr")
  <2>. HIDE DEF A, P, X
  <2>. QED
    BY <1>6, <1>7 DEF ExportedRows, A, P, X
<1>9. /\ DOMAIN A = S /\ DOMAIN P = S /\ DOMAIN X = S
      /\ \A o \in S : A[o] = attr[o] /\ P[o] = path[o] /\ X[o] = tag[o]
    BY <1>6, RowsOfType
<1>. HIDE DEF A, P, X
<1>10. Fresh(out, ts)'
  <2>1. Fresh(out, ts)
    BY DEF MInv
  <2>. QED
    BY <1>1, <1>2, <1>6, <1>8, <1>9, <2>1 DEF Fresh, Since, RowsTrue
<1>11. Complete'
  <2>1. Complete
    BY DEF MInv
  <2>. QED
    BY <1>1, <1>2, <1>8, <1>9, <2>1 DEF Complete, Since
<1>. QED
    BY <1>3, <1>4, <1>5, <1>10, <1>11 DEF MInv

(* The task goes on to build, or finds nothing to do.                       *)
LEMMA ReportMeta == ASSUME IInv, MInv, Report PROVE MInv'
<1>0. UNCHANGED <<day, hpssVars, indexVars, mdb, lossy, orphan>>
    BY DEF Report
<1>1. MetadataFollows' /\ Fresh(orphan.out, orphan.day)'
    BY <1>0, SameMeta, SameFresh DEF MInv
<1>2. CASE pc' = "build" /\ UNCHANGED taskVars
  <2>1. /\ pc = "report" /\ UNCHANGED <<last, from, ts, temp, out, missing>>
        /\ UNCHANGED <<nxt, live, attr, path, tag, hist, above, untagged,
                       untouched, object, file, attr_val>>
    BY <1>0, <1>2 DEF Report, taskVars, hpssVars, indexVars
  <2>2. Fresh(out, ts)'
    BY <2>1 DEF MInv, Fresh, Since, RowsTrue
  <2>3. Complete'
    BY <1>0, <1>2, <2>1 DEF MInv, Complete, Since
  <2>4. UnderWay'
    BY <1>0, <1>2, <2>1 DEF MInv, UnderWay, Since, Matches, Due
  <2>5. Dates' /\ IdleEmpty'
    BY <1>0, <1>2, <2>1 DEF MInv, Dates, IdleEmpty
  <2>. QED
    BY <1>1, <2>2, <2>3, <2>4, <2>5 DEF MInv
<1>3. CASE TaskGone
    BY <1>0, <1>1, <1>3, GoneMeta DEF MInv, Dates
<1>. QED
    BY <1>2, <1>3 DEF Report

(* A transaction with true rows keeps what matches, and brings what it has  *)
(* all the rows of.                                                         *)
LEMMA ProcessMatches ==
    ASSUME NEW f, Process(f), UNCHANGED hpssVars, NEW o, RowsTrue(f, o),
           \/ Matches(o)
           \/ /\ o \in DOMAIN f.fattr /\ o \in DOMAIN f.path
              /\ o \in untagged \cup untouched \/ tag[o] = 0 \/ o \in DOMAIN f.xattr
    PROVE  Matches(o)'
<1>1. /\ object' = Upsert(object, f.fattr)
      /\ file' = Upsert(file, f.path)
      /\ attr_val' = Upsert(attr_val, f.xattr)
    BY DEF Process, ProcessFattr, ProcessPath, ProcessXattrs
<1>2. UNCHANGED <<attr, path, tag, above, untagged, untouched>>
    BY DEF hpssVars
<1>3. o \in DOMAIN object' /\ object'[o] = attr[o]
    BY <1>1, UpsertAt DEF RowsTrue, Matches
<1>4. o \in DOMAIN file' /\ (o \in above \/ file'[o] = path[o])
    BY <1>1, UpsertAt DEF RowsTrue, Matches
<1>5. \/ o \in untagged \cup untouched
      \/ tag[o] = 0
      \/ o \in DOMAIN attr_val' /\ attr_val'[o] = tag[o]
    BY <1>1, UpsertAt DEF RowsTrue, Matches
<1>. QED
    BY <1>2, <1>3, <1>4, <1>5 DEF Matches

(* The builder commits what is true, or was changed so lately that the next *)
(* task finds it.                                                           *)
LEMMA BuildMeta == ASSUME IInv, MInv, Build \/ BuildFailed PROVE MInv'
<1>1. /\ pc = "build" /\ pc' = "record" /\ lossy \subseteq lossy'
      /\ UNCHANGED <<day, hpssVars, taskVars, mdb, orphan>>
      /\ lossy' = {} => missing = {} /\ Process(out)
    BY DEF Build, BuildFailed
<1>2. /\ UNCHANGED <<nxt, live, attr, path, tag, hist, above, untagged, untouched>>
      /\ UNCHANGED <<last, from, ts, temp, out, missing>>
    BY <1>1 DEF hpssVars, taskVars
<1>3. Fresh(out, ts)' /\ Fresh(orphan.out, orphan.day)'
    BY <1>1, <1>2 DEF MInv, Fresh, Since, RowsTrue
<1>4. Complete' /\ Dates' /\ IdleEmpty'
    BY <1>1, <1>2 DEF MInv, Complete, Dates, IdleEmpty
<1>5. ASSUME NEW o \in live, ~ Since(o, ts) PROVE RowsTrue(out, o)
    BY <1>5 DEF MInv, Fresh
<1>6. UnderWay'
  <2>. SUFFICES ASSUME lossy' = {}, NEW o \in live, FirstOid < o, ~ Since(o, ts - 1)
                PROVE  Matches(o)' \/ Due(o)'
    BY <1>1, <1>2, Numbers DEF UnderWay, Since
  <2>1. ~ Since(o, ts)
    BY Numbers DEF Since
  <2>2. RowsTrue(out, o) /\ lossy = {} /\ missing = {} /\ Process(out)
    BY <1>1, <1>5, <2>1
  <2>3. Matches(o) \/ Due(o)
    BY <1>1, <2>2, Numbers DEF MInv, UnderWay
  <2>4. CASE Matches(o)
    BY <1>1, <2>2, <2>4, ProcessMatches
  <2>5. CASE o \in temp
    <3>1. /\ o \in DOMAIN out.fattr /\ o \in DOMAIN out.path
          /\ o \in untagged \cup untouched \/ tag[o] = 0 \/ o \in DOMAIN out.xattr
      BY <1>1, <2>1, <2>2, <2>5 DEF MInv, Complete
    <3>. QED
      BY <1>1, <2>2, <3>1, ProcessMatches
  <2>6. CASE last < o /\ o \notin temp
    BY <1>1, <1>2, <2>6 DEF Due
  <2>. QED
    BY <1>1, <2>3, <2>4, <2>5, <2>6 DEF Due
<1>7. MetadataFollows'
  <2>. SUFFICES ASSUME lossy' = {}, NEW o \in live, FirstOid < o
                PROVE  o \in Coming' \/ Matches(o)'
    BY <1>1, <1>2, Numbers DEF MetadataFollows, Matches
  <2>1. Coming' = Coming
    BY <1>1, <1>2 DEF Coming, NextLast, NextFrom
  <2>2. o \in Coming \/ Matches(o)
    BY <1>1, Numbers DEF MInv, MetadataFollows, Matches
  <2>3. CASE Since(o, ts)
    BY <1>1, <2>1, <2>3, ComingFacts, Numbers DEF MInv, Dates
  <2>4. CASE ~ Since(o, ts) /\ Matches(o)
    BY <1>1, <1>5, <2>4, ProcessMatches
  <2>. QED
    BY <2>1, <2>2, <2>3, <2>4
<1>. QED
    BY <1>3, <1>4, <1>6, <1>7 DEF MInv

(* A builder that comes in a day late at most commits rows that are true,   *)
(* or that were changed since yesterday.                                    *)
LEMMA OrphanMeta == ASSUME IInv, MInv, OrphanEnds \/ OrphanWins PROVE MInv'
<1>1. /\ UNCHANGED <<day, hpssVars, taskVars, mdb>>
      /\ orphan' = NoOrphan /\ lossy \subseteq lossy'
      /\ pc' = pc \/ (pc = "build" /\ pc' = "record" /\ lossy' # {})
      /\ lossy' = {} => \/ UNCHANGED indexVars
                        \/ Process(orphan.out) /\ ~ (day > orphan.day + 1)
    BY DEF OrphanEnds, OrphanWins
<1>2. /\ UNCHANGED <<nxt, live, attr, path, tag, hist, above, untagged, untouched>>
      /\ UNCHANGED <<last, from, ts, temp, out, missing>>
    BY <1>1 DEF hpssVars, taskVars
<1>3. Fresh(out, ts)'
    BY <1>1, <1>2 DEF MInv, Fresh, Since, RowsTrue
<1>4. Fresh(orphan.out, orphan.day)' /\ orphan'.day = 0
  <2>1. orphan'.out = NoFiles /\ orphan'.day = 0
    BY <1>1 DEF NoOrphan
  <2>. QED
    BY <2>1, NoFilesFresh DEF Fresh
<1>5. Complete'
    BY <1>1, <1>2 DEF MInv, Complete, Since
<1>6. Dates' /\ IdleEmpty'
    BY <1>1, <1>2, <1>4, Numbers DEF MInv, Dates, IdleEmpty
<1>7. ASSUME lossy' = {}, NEW o \in live, Matches(o), ~ Since(o, day - 1)
      PROVE  Matches(o)'
  <2>1. CASE UNCHANGED indexVars
    BY <1>2, <1>7, <2>1 DEF Matches, indexVars
  <2>2. CASE Process(orphan.out) /\ ~ (day > orphan.day + 1)
    <3>1. ~ Since(o, orphan.day)
      BY <1>7, <2>2, Numbers DEF Since
    <3>2. RowsTrue(orphan.out, o)
      BY <3>1 DEF MInv, Fresh
    <3>. QED
      BY <1>1, <1>7, <2>2, <3>2, ProcessMatches
  <2>. QED
    BY <1>1, <1>7, <2>1, <2>2
<1>8. UnderWay'
  <2>. SUFFICES ASSUME lossy' = {}, pc # "idle", NEW o \in live, FirstOid < o
                PROVE  Since(o, ts - 1)' \/ Matches(o)' \/ Due(o)'
    BY <1>1, <1>2, Numbers DEF UnderWay
  <2>1. lossy = {} /\ pc' = pc
    BY <1>1
  <2>2. Since(o, ts - 1) \/ Matches(o) \/ Due(o)
    BY <2>1, Numbers DEF MInv, UnderWay
  <2>3. Since(o, day - 1) => Since(o, ts - 1)
    BY Numbers DEF Since
  <2>4. Since(o, ts - 1) => Since(o, ts - 1)'
    BY <1>2 DEF Since
  <2>5. Due(o) => Due(o)'
    BY <1>2, <2>1 DEF Due
  <2>. QED
    BY <1>7, <2>2, <2>3, <2>4, <2>5
<1>9. MetadataFollows'
  <2>. SUFFICES ASSUME lossy' = {}, NEW o \in live, FirstOid < o
                PROVE  o \in Coming' \/ Matches(o)'
    BY <1>1, <1>2, Numbers DEF MetadataFollows, Matches
  <2>1. Coming' = Coming
    BY <1>1, <1>2 DEF Coming, NextLast, NextFrom
  <2>2. o \in Coming \/ Matches(o)
    BY <1>1, Numbers DEF MInv, MetadataFollows, Matches
  <2>3. Since(o, day - 1) => o \in Coming
    BY ComingFacts, Numbers
  <2>. QED
    BY <1>7, <2>1, <2>2, <2>3
<1>. QED
    BY <1>3, <1>4, <1>5, <1>6, <1>8, <1>9 DEF MInv

(* The record moves watermark and date: what is left to the next task is    *)
(* above the one, or was changed since the other.                           *)
LEMMA RecordMeta == ASSUME IInv, MInv, Record PROVE MInv'
<1>. DEFINE D == DOMAIN out.fattr
<1>1. /\ pc = "record" /\ mdb' = [oid_end |-> EndOid, ts |-> ts] /\ TaskGone
      /\ UNCHANGED <<day, hpssVars, indexVars, lossy, orphan>>
    BY DEF Record
<1>2. UNCHANGED <<nxt, live, attr, path, tag, hist, above, untagged,
                  untouched, object, file, attr_val>>
    BY <1>1 DEF hpssVars, indexVars
<1>3. /\ D = {} => EndOid = 0
      /\ D # {} => EndOid \in D
  <2>1. D \subseteq 1 .. nxt /\ nxt \in Nat
    BY Numbers DEF IInv, Exported
  <2>. QED
    BY <2>1, Greatest DEF EndOid
<1>4. MetadataFollows'
  <2>. SUFFICES ASSUME lossy = {}, NEW o \in live, FirstOid < o
                PROVE  o \in Coming' \/ Matches(o)'
    BY <1>1, <1>2, Numbers DEF MetadataFollows, Matches
  <2>1. mdb'.oid_end = EndOid /\ mdb'.ts = ts
    BY <1>1
  <2>2. /\ NextLast' = IF EndOid = 0 THEN FirstOid ELSE EndOid
        /\ NextFrom' = IF EndOid = 0 THEN day - 1 ELSE ts - 1
    BY <1>1, <2>1 DEF NextLast, NextFrom
  <2>3. o \in Coming' <=> o > NextLast' \/ \E h \in hist : h.oid = o /\ h.day >= NextFrom'
    BY <1>2 DEF Coming
  <2>4. Since(o, ts - 1) \/ Matches(o) \/ (last < o /\ o \notin temp)
    BY <1>1, Numbers DEF MInv, UnderWay, Due
  <2>5. CASE EndOid = 0
    BY <2>2, <2>3, <2>5, Numbers
  <2>6. CASE EndOid # 0 /\ Since(o, ts - 1)
    BY <2>2, <2>3, <2>6 DEF Since
  <2>7. CASE EndOid # 0 /\ last < o /\ o \notin temp
    <3>1. EndOid \in temp
      BY <1>3, <2>7 DEF IInv, Exported
    <3>2. EndOid < o
      BY <1>1, <2>7, <3>1 DEF IInv, Uncollected
    <3>. HIDE DEF EndOid
    <3>. QED
      BY <2>2, <2>3, <2>7, <3>1, <3>2, Numbers
  <2>8. CASE Matches(o)
    BY <1>2, <2>8 DEF Matches
  <2>. QED
    BY <2>4, <2>5, <2>6, <2>7, <2>8
<1>. QED
    BY <1>1, <1>4, SameFresh, GoneMeta DEF MInv, Dates

(* The second inductive invariant: files that are under way are true or     *)
(* dated, and what the index is behind with is due in some task.            *)
THEOREM MetadataInductive == Spec => []MInv
<1>1. ASSUME IInv, MInv, [Next]_vars, IInv' PROVE MInv'
    BY <1>1, UserMeta, TickMeta, LaunchMeta, AbortMeta, CollectMeta, ExportMeta,
       ReportMeta, BuildMeta, OrphanMeta, RecordMeta
    DEF Next, TaskStep
<1>. QED
    BY <1>1, InitMInv, Inductive, PTL DEF Spec

(* What the index has of an object is what the name space has, or the next  *)
(* task will collect it: for every number of objects, changes and days,     *)
(* every first_oid and directory tree, with tasks aborted anywhere and      *)
(* builders that come in up to a day late, unless a statement or a builder  *)
(* failed in a task that went on.                                           *)
THEOREM MetadataSafe == Spec => []MetadataFollows
<1>1. MInv => MetadataFollows
    BY DEF MInv
<1>. QED
    BY <1>1, MetadataInductive, PTL

-----------------------------------------------------------------------------
(* DeletionsFollow, for the case that every day sees a task through. *)

DeletedSince(o, d) ==
    \E h \in hist : h.table = "object" /\ h.oid = o /\ h.day >= d

(* No midnight passes in a task, so that its dates stay those of the day.   *)
SameDay == pc # "idle" => ts = day /\ from = NextFrom

NoFault == missing = {} /\ orphan = NoOrphan

(* What a task exported and is gone was deleted today.                      *)
ExportedToday == \A o \in DOMAIN out.fattr : o \in live \/ DeletedSince(o, day)

(* What is stale will be found: by the next task, and once the task has     *)
(* looked, or one was seen through today, only what was deleted today.      *)
StaleFound ==
    \A o \in DOMAIN object \ invalid : o \in live \/
        /\ DeletedSince(o, NextFrom)
        /\ pc \in {"report", "build"} => o \in out.deleted \/ DeletedSince(o, day)
        /\ pc = "record" \/ ran => DeletedSince(o, day)

DInv == SameDay /\ NoFault /\ ExportedToday /\ StaleFound

LEMMA InitDInv == Init => DInv
BY EmptyRows DEF Init, DInv, SameDay, NoFault, ExportedToday, StaleFound, NoFiles

(* Deletions in the history stay there, and today's are late enough.        *)
LEMMA FromIsPast == ASSUME IInv PROVE NextFrom \in Int /\ NextFrom <= day
BY Numbers DEF NextFrom

LEMMA UserDel == ASSUME IInv, DInv, UserStep PROVE DInv'
<1>1. /\ UNCHANGED <<day, ran, pc, taskVars, indexVars, mdb, lossy, orphan>>
      /\ hist \subseteq hist'
    BY UserTouches
<1>2. UNCHANGED <<from, ts, out, missing, object, invalid>>
    BY <1>1 DEF taskVars, indexVars
<1>3. NextFrom' = NextFrom
    BY <1>1 DEF NextFrom
<1>4. ASSUME NEW o \in live, o \notin live'
      PROVE  \E h \in hist' : h.table = "object" /\ h.oid = o /\ h.day = day
  <2>1. CASE \E q \in Oid : Delete(q)
    BY <1>4, <2>1, ChangedToday DEF Delete
  <2>. QED
    BY <1>4, <2>1 DEF UserStep, Create, SetAttr, Rename, TagSet, TagTouch, TagDel
<1>5. ASSUME NEW o \in live, o \notin live' PROVE DeletedSince(o, day)' /\ DeletedSince(o, NextFrom)'
  <2>1. PICK h \in hist' : h.table = "object" /\ h.oid = o /\ h.day = day
    BY <1>4, <1>5
  <2>. QED
    BY <1>1, <1>3, <2>1, FromIsPast, Numbers DEF DeletedSince
<1>6. ASSUME NEW o
      PROVE  /\ DeletedSince(o, day) => DeletedSince(o, day)'
             /\ DeletedSince(o, NextFrom) => DeletedSince(o, NextFrom)'
    BY <1>1, <1>3 DEF DeletedSince
<1>7. SameDay' /\ NoFault'
    BY <1>1, <1>2, <1>3 DEF DInv, SameDay, NoFault
<1>8. ExportedToday'
    BY <1>2, <1>5, <1>6 DEF DInv, ExportedToday
<1>9. StaleFound'
    BY <1>1, <1>2, <1>5, <1>6 DEF DInv, StaleFound
<1>. QED
    BY <1>7, <1>8, <1>9 DEF DInv

(* At midnight no task is under way and today's was seen through, so that   *)
(* only today's deletions are left, and fromdate is not beyond them.        *)
LEMMA TickDel == ASSUME Daily, IInv, DInv, Tick PROVE DInv'
<1>1. /\ ran /\ pc = "idle" /\ day' = day + 1 /\ ran' = FALSE /\ pc' = "idle"
      /\ UNCHANGED <<hist, live, object, invalid, mdb, out, missing, orphan>>
    BY DEF Tick, hpssVars, taskVars, indexVars
<1>2. DOMAIN out.fattr = {}
    BY <1>1 DEF IInv, Exported
<1>3. NextFrom' \in Int /\ NextFrom' <= day
    BY <1>1, Numbers DEF NextFrom
<1>4. ASSUME NEW o \in DOMAIN object \ invalid, o \notin live
      PROVE  DeletedSince(o, NextFrom)'
  <2>1. DeletedSince(o, day)
    BY <1>1, <1>4 DEF DInv, StaleFound
  <2>. QED
    BY <1>1, <1>3, <2>1, Numbers DEF DeletedSince
<1>. QED
    BY <1>1, <1>2, <1>4 DEF DInv, SameDay, NoFault, ExportedToday, StaleFound

(* A task begins, collects, and exports all but the deletions.              *)
LEMMA EarlyDel ==
    ASSUME ~MayFail, IInv, DInv,
           \/ Launch \/ CollectNew \/ CollectChanged \/ CollectMerge
           \/ ExportFattr \/ ExportPath \/ ExportXattr
    PROVE  DInv'
<1>1. /\ UNCHANGED <<day, ran, hpssVars, indexVars, mdb, missing, orphan>>
      /\ pc' \in {"new", "changed", "merge", "fattr", "path", "xattr", "deleted"}
      /\ \/ pc # "idle" /\ UNCHANGED <<from, ts>>
         \/ from' = NextFrom /\ ts' = day
    BY DEF Launch, CollectNew, CollectChanged, CollectMerge, ExportFattr, ExportPath,
       ExportXattr, Export
<1>2. UNCHANGED <<hist, live, object, invalid>> /\ NextFrom' = NextFrom
    BY <1>1 DEF hpssVars, indexVars, NextFrom
<1>3. DOMAIN out'.fattr \subseteq DOMAIN out.fattr \cup live
  <2>1. out \in [fattr : Rows, path : Rows, xattr : Rows, deleted : SUBSET Oid]
    BY DEF IInv, TypeOK
  <2>2. CASE ExportFattr
    BY <2>1, <2>2 DEF ExportFattr, Export, RowsOf
  <2>3. CASE ExportPath \/ ExportXattr
    BY <2>1, <2>3 DEF ExportPath, ExportXattr, Export
  <2>4. CASE Launch \/ CollectNew \/ CollectChanged \/ CollectMerge
    BY <2>4 DEF Launch, CollectNew, CollectChanged, CollectMerge
  <2>. QED
    BY <2>2, <2>3, <2>4
<1>4. SameDay' /\ NoFault'
    BY <1>1, <1>2 DEF DInv, SameDay, NoFault
<1>5. ExportedToday'
    BY <1>1, <1>2, <1>3 DEF DInv, ExportedToday, DeletedSince
<1>6. StaleFound'
    BY <1>1, <1>2 DEF DInv, StaleFound, DeletedSince
<1>. QED
    BY <1>4, <1>5, <1>6 DEF DInv

(* The export finds everything that is stale, as fromdate is that of the    *)
(* record.                                                                  *)
LEMMA ExportDel == ASSUME ~MayFail, IInv, DInv, ExportDeleted PROVE DInv'
<1>1. /\ UNCHANGED <<day, ran, hpssVars, from, ts, indexVars, mdb, missing, orphan>>
      /\ pc = "deleted" /\ pc' = "report"
      /\ out' = [out EXCEPT !["deleted"] = Ended("object") \ live]
    BY DEF ExportDeleted, Export
<1>2. UNCHANGED <<hist, live, object, invalid>> /\ NextFrom' = NextFrom
    BY <1>1 DEF hpssVars, indexVars, NextFrom
<1>3. out'.fattr = out.fattr /\ out'.deleted = Ended("object") \ live
    BY <1>1 DEF IInv, TypeOK
<1>4. from = NextFrom
    BY <1>1 DEF DInv, SameDay
<1>5. ASSUME NEW o \in DOMAIN object \ invalid, o \notin live
      PROVE  o \in out'.deleted
  <2>1. DeletedSince(o, from)
    BY <1>4, <1>5 DEF DInv, StaleFound
  <2>. QED
    BY <1>3, <1>5, <2>1 DEF DeletedSince, Ended
<1>. QED
    BY <1>1, <1>2, <1>3, <1>5
    DEF DInv, SameDay, NoFault, ExportedToday, StaleFound, DeletedSince

LEMMA GoneDel ==
    ASSUME DInv, TaskGone, UNCHANGED <<day, hpssVars, indexVars, orphan>>,
           \A o \in DOMAIN object \ invalid : o \in live \/
               /\ DeletedSince(o, NextFrom)'
               /\ ran' => DeletedSince(o, day)
    PROVE  DInv'
<1>1. pc' = "idle" /\ missing' = {} /\ DOMAIN out'.fattr = {}
    BY EmptyRows DEF TaskGone, NoFiles
<1>2. UNCHANGED <<hist, live, object, invalid>>
    BY DEF hpssVars, indexVars
<1>. QED
    BY <1>1, <1>2 DEF DInv, SameDay, NoFault, ExportedToday, StaleFound, DeletedSince

LEMMA AbortDel == ASSUME ~MayOrphan, IInv, DInv, TaskAborted PROVE DInv'
<1>1. UNCHANGED <<day, ran, hpssVars, indexVars, mdb, lossy, orphan>> /\ TaskGone
    BY DEF TaskAborted
<1>2. NextFrom' = NextFrom /\ hist' = hist
    BY <1>1 DEF NextFrom, hpssVars
<1>. QED
    BY <1>1, <1>2, GoneDel DEF DInv, StaleFound, DeletedSince

(* With nothing to report, nothing was stale but what was deleted today.    *)
LEMMA ReportDel == ASSUME IInv, DInv, Report PROVE DInv'
<1>0. /\ UNCHANGED <<day, hpssVars, indexVars, mdb, lossy, orphan>> /\ pc = "report"
    BY DEF Report
<1>1. UNCHANGED <<hist, live, object, invalid>> /\ NextFrom' = NextFrom
    BY <1>0 DEF hpssVars, indexVars, NextFrom
<1>2. CASE pc' = "build" /\ UNCHANGED <<ran, taskVars>>
    BY <1>0, <1>1, <1>2
    DEF DInv, SameDay, NoFault, ExportedToday, StaleFound, DeletedSince, taskVars
<1>3. CASE TaskGone /\ out.deleted = {}
    BY <1>0, <1>1, <1>3, GoneDel DEF DInv, StaleFound, DeletedSince
<1>. QED
    BY <1>2, <1>3 DEF Report

(* After the commit only what was deleted today is stale: it was in the     *)
(* file, or is new in the index and was exported today.                     *)
LEMMA BuildDel == ASSUME ~MayFail, IInv, DInv, Build \/ BuildFailed PROVE DInv'
<1>1. /\ UNCHANGED <<day, ran, hpssVars, taskVars, mdb, orphan>>
      /\ pc = "build" /\ pc' = "record" /\ Process(out)
    BY DEF Build, BuildFailed
<1>2. /\ UNCHANGED <<hist, live, from, ts, out, missing>>
      /\ NextFrom' = NextFrom
    BY <1>1 DEF hpssVars, taskVars, NextFrom
<1>3. /\ DOMAIN object' = DOMAIN object \cup DOMAIN out.fattr
      /\ invalid' = invalid \cup (out.deleted \cap DOMAIN object')
    BY <1>1, ProcessRows DEF IInv, TypeOK, Process, ProcessDeleted
<1>4. ASSUME NEW o \in DOMAIN object' \ invalid', o \notin live
      PROVE  DeletedSince(o, day) /\ DeletedSince(o, NextFrom)
  <2>1. CASE o \in DOMAIN object
    BY <1>1, <1>3, <1>4, <2>1 DEF DInv, StaleFound
  <2>2. CASE o \in DOMAIN out.fattr
    <3>1. DeletedSince(o, day)
      BY <1>4, <2>2 DEF DInv, ExportedToday
    <3>. QED
      BY <3>1, FromIsPast, Numbers DEF DeletedSince
  <2>. QED
    BY <1>3, <1>4, <2>1, <2>2
<1>. QED
    BY <1>1, <1>2, <1>4
    DEF DInv, SameDay, NoFault, ExportedToday, StaleFound, DeletedSince

(* The new date is today's, and fromdate the day before.                    *)
LEMMA RecordDel == ASSUME IInv, DInv, Record PROVE DInv'
<1>1. /\ pc = "record" /\ mdb' = [oid_end |-> EndOid, ts |-> ts] /\ TaskGone
      /\ UNCHANGED <<day, hpssVars, indexVars, lossy, orphan>> /\ ts = day
    BY DEF Record, DInv, SameDay
<1>2. NextFrom' = day - 1 /\ hist' = hist
    BY <1>1 DEF NextFrom, hpssVars
<1>3. ASSUME NEW o \in DOMAIN object \ invalid, o \notin live
      PROVE  DeletedSince(o, NextFrom)' /\ DeletedSince(o, day)
  <2>1. DeletedSince(o, day)
    BY <1>1, <1>3 DEF DInv, StaleFound
  <2>. QED
    BY <1>2, <2>1, Numbers DEF DeletedSince
<1>. QED
    BY <1>1, <1>3, GoneDel

(* "scanning from the previous day for deleted/updated files": a deletion   *)
(* is in the index, or the next task finds it, for every number of objects  *)
(* and days, when a task is seen through each day, however many others are  *)
(* aborted, and no statement fails and no builder outlives its task.        *)
THEOREM DeletionsSafe ==
    ASSUME Daily, ~MayFail, ~MayOrphan
    PROVE  Spec => []DeletionsFollow
<1>1. ASSUME IInv, DInv, [Next]_vars PROVE DInv'
  <2>1. CASE UNCHANGED vars
    BY <1>1, <2>1
    DEF vars, hpssVars, taskVars, indexVars, DInv, SameDay, NoFault, ExportedToday,
        StaleFound, DeletedSince, NextFrom
  <2>2. CASE OrphanEnds \/ OrphanWins
    BY <1>1, <2>2 DEF OrphanEnds, OrphanWins, DInv, NoFault
  <2>. QED
    BY <1>1, <2>1, <2>2, UserDel, TickDel, EarlyDel, ExportDel, AbortDel, ReportDel,
       BuildDel, RecordDel DEF Next, TaskStep
<1>2. DInv => DeletionsFollow
    BY DEF DInv, StaleFound, DeletedSince, DeletionsFollow
<1>. QED
    BY <1>1, <1>2, InitDInv, Inductive, PTL DEF Spec
=============================================================================
