--------------------------- MODULE MasterDbProofs ---------------------------
(***************************************************************************)
(* Proofs for MasterDb: committed records stay, a listing has no gap and    *)
(* counts what it prints, for any number of listings, tasks and records and *)
(* any size of a page.                                                      *)
(***************************************************************************)
EXTENDS MasterDb, FiniteSetTheorems, TLAPS

USE AdminsAssumption, PageSizeAssumption, MaxCountAssumption,
    MaxTasksAssumption, MayFailAssumption DEF Proc, Scanner

(* The page in records does not reach below the first record.               *)
PageBounds == \A a \in Admins : len[a] <= first[a]

(* The page that FetchRow announces lies within the table.                  *)
LEMMA PageFits ==
    ASSUME TypeOK, NEW a \in Admins, n > Offset(a), fetched[a] < Count(a)
    PROVE  /\ n - Offset(a) \in Nat
           /\ Least(ToFetch(a), n - Offset(a)) \in 1 .. PageSize
           /\ Least(ToFetch(a), n - Offset(a)) <= n - Offset(a)
           /\ Least(ToFetch(a), n - Offset(a)) <= Count(a) - fetched[a]
BY DEF TypeOK, Least, ToFetch, Offset, Count

LEMMA TypeInit == Init => TypeOK /\ PageBounds
<1> SUFFICES ASSUME Init PROVE TypeOK /\ PageBounds
    OBVIOUS
<1>1. asked = [a \in Admins |-> 0] /\ fetched = asked /\ first = asked
      /\ len = asked /\ start = asked
    BY DEF Init
<1>2. 0 \in 0 .. MaxCount /\ 0 \in 0 .. PageSize /\ 0 \in 0 .. MaxTasks
    OBVIOUS
<1>3. PageBounds
    BY <1>1 DEF PageBounds
<1>4. /\ asked \in [Admins -> 0 .. MaxCount] /\ fetched \in [Admins -> Nat]
      /\ first \in [Admins -> Nat] /\ len \in [Admins -> 0 .. PageSize]
      /\ start \in [Admins -> Nat]
    BY <1>1, <1>2
<1>5. exists \in BOOLEAN /\ leaked \in BOOLEAN /\ raced \in BOOLEAN
    BY Zenon DEF Init
<1> QED BY <1>2, <1>3, <1>4, <1>5 DEF Init, TypeOK

LEMMA TypeStep == TypeOK /\ PageBounds /\ [Next]_vars => (TypeOK /\ PageBounds)'
<1> SUFFICES ASSUME TypeOK, PageBounds, [Next]_vars
             PROVE  (TypeOK /\ PageBounds)'
    OBVIOUS
<1> USE DEF TypeOK, PageBounds, fileVars, listVars, recVars
<1>1. ASSUME NEW p \in Proc, Open(p) PROVE (TypeOK /\ PageBounds)'
    BY <1>1 DEF Open, Step
<1>2. ASSUME NEW p \in Proc, OpenStep(p) PROVE (TypeOK /\ PageBounds)'
    <2>1. CASE CreateFile(p)
        <3>1. raced' \in BOOLEAN
            BY <2>1, Zenon DEF CreateFile
        <3> QED BY <2>1, <3>1 DEF CreateFile, Step
    <2>4. CASE SchemaDrop(p)
        BY <2>4 DEF SchemaDrop, Step, Return
    <2>2. CASE SchemaCreate(p) \/ SchemaEnd(p)
        BY <2>2 DEF SchemaCreate, SchemaEnd, Step, Return
    <2>3. CASE Prepare(p) \/ Prepared(p)
        BY <2>3 DEF Prepare, Prepared, Step, Return
    <2> QED BY <1>2, <2>1, <2>2, <2>3, <2>4 DEF OpenStep
<1>3. CASE LastStatus \/ Work \/ Insert
    BY <1>3 DEF LastStatus, Work, Insert, Step, Return
<1>4. CASE Commit
    <2>1. n' \in Nat /\ refused' \in Nat
        BY <1>4 DEF Commit
    <2>3. leaked' \in BOOLEAN
        BY <1>4, Zenon DEF Commit
    <2>2. grew' \subseteq Admins
        BY <1>4 DEF Commit
    <2> QED BY <1>4, <2>1, <2>2, <2>3 DEF Commit, Step, Return
<1>5. CASE ScannerKilled
    BY <1>5 DEF ScannerKilled, Step, Return
<1>6. ASSUME NEW a \in Admins, HistoryEnd(a) \/ FetchNone(a) \/ AdminKilled(a)
      PROVE  (TypeOK /\ PageBounds)'
    BY <1>6 DEF HistoryEnd, FetchNone, AdminKilled, Step, Return
<1>7. ASSUME NEW a \in Admins, FetchRow(a) PROVE (TypeOK /\ PageBounds)'
    BY <1>7, PageFits DEF FetchRow, Step
<1>8. ASSUME NEW a \in Admins, FetchRest(a) PROVE (TypeOK /\ PageBounds)'
    <2>1. PICK m \in 1 .. len[a] : PrintHistory(a, first[a], m) /\ len' = [len EXCEPT ![a] = m]
        BY <1>8 DEF FetchRest
    <2>2. first[a] - m + 1 .. first[a] \subseteq Nat \ {0}
        OBVIOUS
    <2> QED BY <1>8, <2>1, <2>2 DEF FetchRest, PrintHistory, Step
<1>9. ASSUME NEW a \in Admins, FetchFails(a) PROVE (TypeOK /\ PageBounds)'
    <2>1. first[a] - len[a] + 1 .. first[a] \subseteq Nat \ {0}
        OBVIOUS
    <2> QED BY <1>9, <2>1 DEF FetchFails, PrintHistory, Step, Return
<1>10. CASE UNCHANGED vars
    BY <1>10 DEF vars
<1> QED
    BY <1>1, <1>2, <1>3, <1>4, <1>5, <1>6, <1>7, <1>8, <1>9, <1>10
    DEF Next, ScannerStep, AdminStep

(* Every reachable state is typed.                                          *)
THEOREM TypeCorrect == Spec => []TypeOK
<1>1. Spec => [](TypeOK /\ PageBounds)
    BY TypeInit, TypeStep, PTL DEF Spec
<1> QED BY <1>1, PTL

-----------------------------------------------------------------------------
(* Records stay. *)

Creating == {"drop", "table", "end"}
Recording == {"last", "work", "insert", "commit"}

(* Until there is a table nothing was recorded; and if no two processes     *)
(* found the file missing, only one of them ever creates the table.         *)
CreatedOnce ==
    /\ ~exists => /\ schema = 0
                  /\ \A p \in Proc : pc[p] \in {"idle", "create", "done"}
    /\ schema = 0 => /\ n = 0 /\ acked = 0 /\ refused = 0
                     /\ pc[Scanner] \notin Recording
    /\ ~raced => /\ exists => \A p \in Proc : pc[p] # "create"
                 /\ \A p, q \in Proc : pc[p] \in Creating /\ pc[q] \in Creating
                                         => p = q
                 /\ \A p \in Proc : pc[p] \in Creating => schema = 0

RInv == CreatedOnce /\ RecordsStay

LEMMA RecordsInit == Init => RInv
BY DEF Init, RInv, CreatedOnce, RecordsStay, Creating, Recording

LEMMA RecordsStep == TypeOK /\ RInv /\ [Next]_vars => RInv'
<1> SUFFICES ASSUME TypeOK, RInv, [Next]_vars
             PROVE  RInv'
    OBVIOUS
<1> USE DEF RInv, CreatedOnce, RecordsStay, Creating, Recording, TypeOK,
            fileVars, listVars, recVars
<1>1. ASSUME NEW p \in Proc, Open(p) PROVE RInv'
    BY <1>1 DEF Open, Step
<1>2. ASSUME NEW p \in Proc, CreateFile(p) PROVE RInv'
    BY <1>2 DEF CreateFile, Step
<1>3. ASSUME NEW p \in Proc, SchemaDrop(p) PROVE RInv'
    BY <1>3 DEF SchemaDrop, Step, Return
<1>4. ASSUME NEW p \in Proc, SchemaCreate(p) PROVE RInv'
    BY <1>4 DEF SchemaCreate, Step, Return
<1>5. ASSUME NEW p \in Proc, SchemaEnd(p) PROVE RInv'
    BY <1>5 DEF SchemaEnd, Step, Return
<1>6. ASSUME NEW p \in Proc, Prepare(p) PROVE RInv'
    BY <1>6 DEF Prepare, Step, Return
<1>7. ASSUME NEW p \in Proc, Prepared(p) PROVE RInv'
    BY <1>7 DEF Prepared, Step, Return
<1>8. CASE LastStatus \/ Work \/ Insert
    BY <1>8 DEF LastStatus, Work, Insert, Step, Return
<1>9. CASE Commit
    BY <1>9 DEF Commit, Step, Return
<1>10. CASE ScannerKilled
    BY <1>10 DEF ScannerKilled, Step, Return
<1>11. ASSUME NEW a \in Admins, HistoryEnd(a) \/ FetchNone(a) \/ AdminKilled(a)
       PROVE  RInv'
    BY <1>11 DEF HistoryEnd, FetchNone, AdminKilled, Step, Return
<1>12. ASSUME NEW a \in Admins, FetchRow(a) \/ FetchRest(a) PROVE RInv'
    BY <1>12 DEF FetchRow, FetchRest, Step
<1>13. ASSUME NEW a \in Admins, FetchFails(a) PROVE RInv'
    BY <1>13 DEF FetchFails, Step, Return
<1>14. CASE UNCHANGED vars
    BY <1>14 DEF vars
<1> QED
    BY <1>1, <1>2, <1>3, <1>4, <1>5, <1>6, <1>7, <1>8, <1>9, <1>10, <1>11,
       <1>12, <1>13, <1>14
    DEF Next, ScannerStep, AdminStep, OpenStep

(* hpssix_mdb_record's rows are never dropped by an open of the database,   *)
(* unless two processes raced to create the file.                           *)
THEOREM CommittedRecordsStay == Spec => []RecordsStay
<1>1. Init => TypeOK /\ PageBounds /\ RInv
    BY TypeInit, RecordsInit
<1>2. TypeOK /\ PageBounds /\ RInv /\ [Next]_vars
        => (TypeOK /\ PageBounds /\ RInv)'
    BY TypeStep, RecordsStep
<1>3. RInv => RecordsStay
    BY DEF RInv
<1> QED BY <1>1, <1>2, <1>3, PTL DEF Spec

-----------------------------------------------------------------------------
(* Listings. *)

(* What is known of a listing while it goes on and, with Gapless, when it   *)
(* has ended: everything newer than the next page is printed.               *)
Began(a) ==
    /\ ver[a] <= schema
    /\ pc[a] \notin {"page", "rows", "done"} => fetched[a] = 0
    /\ fetched[a] = 0 => printed[a] = {}
    /\ pc[a] = "rows" => lock[a] = "shared" /\ len[a] > 0

Gapless(a) ==
    \A i \in printed[a] : \A j \in i .. start[a] : j \in printed[a]

NewerPrinted(a) ==
    /\ (pc[a] = "page" /\ ver[a] = schema /\ fetched[a] > 0) =>
          \A j \in 1 .. start[a] : j > n - fetched[a] => j \in printed[a]
    /\ pc[a] = "rows" => \A j \in 1 .. start[a] : j > first[a] => j \in printed[a]
    /\ (pc[a] = "rows" /\ ver[a] = schema) => first[a] <= n - fetched[a]

(* A listing during which nothing was added has printed an interval.        *)
Interval(a) ==
    /\ printed[a] = start[a] - fetched[a] + 1 .. start[a]
    /\ (pc[a] = "page" /\ ver[a] = schema /\ fetched[a] > 0) => start[a] = n
    /\ (pc[a] = "rows" /\ ver[a] = schema) => start[a] = n
    /\ pc[a] = "rows" => first[a] = start[a] - fetched[a]

Within(a) ==
    /\ fetched[a] <= Count(a)
    /\ pc[a] = "rows" => fetched[a] + len[a] <= Count(a)

Listing(a) ==
    /\ Began(a)
    /\ a \notin failed => Gapless(a) /\ NewerPrinted(a) /\ Within(a)
    /\ a \notin failed \cup grew => Interval(a)

LInv == \A a \in Admins : Listing(a)

LEMMA ListingInit == Init => LInv
<1> SUFFICES ASSUME Init, NEW a \in Admins PROVE Listing(a)
    BY DEF LInv
<1>1. asked[a] = 0 /\ fetched[a] = 0 /\ start[a] = 0 /\ printed[a] = {}
      /\ pc[a] = "idle" /\ ver[a] = 0 /\ schema = 0
    BY DEF Init
<1> QED
    BY <1>1 DEF Listing, Began, Gapless, NewerPrinted, Interval, Within, Count

(* A step that leaves a listing and the table alone.                        *)
LEMMA ListingFrame ==
    ASSUME NEW a \in Admins, Listing(a),
           asked'[a] = asked[a], fetched'[a] = fetched[a],
           first'[a] = first[a], len'[a] = len[a], start'[a] = start[a],
           printed'[a] = printed[a], failed' = failed, grew' = grew,
           n' = n, schema' = schema, ver'[a] = ver[a],
           \/ pc'[a] = pc[a] /\ lock'[a] = lock[a]
           \/ pc[a] \in {"page", "rows"} /\ pc'[a] = "done"
    PROVE  Listing(a)'
BY DEF Listing, Began, Gapless, NewerPrinted, Interval, Within, Count

(* An open, before the listing proper.                                      *)
LEMMA ListingOpens ==
    ASSUME TypeOK, NEW a \in Admins, Listing(a),
           pc[a] \notin {"page", "rows", "done"}, pc'[a] # "rows",
           fetched'[a] = fetched[a], start'[a] = start[a],
           printed'[a] = printed[a], failed' = failed, grew' = grew,
           schema' \in Nat, ver'[a] <= schema',
           asked'[a] \in 0 .. MaxCount
    PROVE  Listing(a)'
<1>1. fetched[a] = 0 /\ printed[a] = {} /\ fetched'[a] = 0 /\ printed'[a] = {}
    BY DEF Listing, Began
<1>2. start'[a] \in Nat
    BY DEF TypeOK
<1>3. Began(a)'
    BY <1>1 DEF Began
<1>4. Gapless(a)' /\ NewerPrinted(a)'
    BY <1>1 DEF Gapless, NewerPrinted
<1>5. Within(a)'
    BY <1>1 DEF Within, Count
<1>6. Interval(a)'
    BY <1>1, <1>2 DEF Interval
<1> QED BY <1>3, <1>4, <1>5, <1>6 DEF Listing

(* The table is created again: the listing's statements are stale from now. *)
LEMMA ListingRecreated ==
    ASSUME TypeOK, NEW a \in Admins, Listing(a),
           UNCHANGED <<listVars, ver>>, schema' = schema + 1,
           pc'[a] = pc[a], lock'[a] = lock[a]
    PROVE  Listing(a)'
<1>1. ver'[a] <= schema' /\ ver'[a] # schema'
    BY DEF TypeOK, Listing, Began
<1> QED
    BY <1>1 DEF Listing, Began, Gapless, NewerPrinted, Interval, Within, Count,
                listVars

(* A record is committed, which nobody can do while a page is read.         *)
LEMMA ListingGrown ==
    ASSUME TypeOK, NEW a \in Admins, Listing(a),
           UNCHANGED <<asked, fetched, first, len, start, printed, failed, ver, schema>>,
           Others(Scanner) = {},
           n' = n + 1,
           grew' = grew \cup {b \in Admins : pc[b] = "page" /\ fetched[b] > 0},
           pc'[a] = pc[a], lock'[a] = lock[a]
    PROVE  Listing(a)'
<1>1. pc[a] # "rows"
    BY DEF Others, Listing, Began
<1>2. a \notin grew' => a \notin grew /\ ~(pc[a] = "page" /\ fetched[a] > 0)
    OBVIOUS
<1>3. Began(a)'
    BY DEF Listing, Began
<1>4. a \notin failed => Gapless(a)' /\ Within(a)'
    BY DEF Listing, Gapless, Within, Count
<1>5. a \notin failed => NewerPrinted(a)'
    BY <1>1 DEF Listing, NewerPrinted, TypeOK
<1>6. a \notin failed \cup grew' => Interval(a)'
    BY <1>1, <1>2 DEF Listing, Interval
<1> QED BY <1>3, <1>4, <1>5, <1>6 DEF Listing

(* The next page starts where what is printed ends.                         *)
LEMMA ListingRow ==
    ASSUME TypeOK, NEW a \in Admins, Listing(a), FetchRow(a)
    PROVE  Listing(a)'
<1> DEFINE l == Least(ToFetch(a), n - Offset(a))
<1>1. l \in Nat /\ l > 0 /\ l <= Count(a) - fetched[a] /\ n - fetched[a] \in Nat
    BY PageFits DEF FetchRow, Offset
<1>2. /\ pc[a] = "page" /\ pc'[a] = "rows" /\ lock'[a] = "shared"
      /\ first'[a] = n - fetched[a] /\ len'[a] = l
      /\ start'[a] = IF fetched[a] = 0 THEN n ELSE start[a]
      /\ ver[a] = schema
    BY DEF FetchRow, Step, TypeOK, Offset, Stale
<1>3. UNCHANGED <<asked, fetched, printed, failed, grew, n, schema, ver>>
    BY DEF FetchRow, fileVars
<1> HIDE DEF l
<1>4. Began(a)'
    BY <1>1, <1>2, <1>3 DEF Listing, Began
<1>5. ASSUME a \notin failed PROVE Gapless(a)'
    BY <1>2, <1>3, <1>5 DEF Listing, Began, Gapless
<1>6. ASSUME a \notin failed PROVE NewerPrinted(a)'
    <2>1. \A j \in 1 .. start'[a] : j > first'[a] => j \in printed[a]
        BY <1>2, <1>3, <1>6 DEF Listing, NewerPrinted, TypeOK
    <2> QED BY <1>1, <1>2, <1>3, <2>1 DEF NewerPrinted
<1>7. ASSUME a \notin failed PROVE Within(a)'
    <2>1. Count(a)' = Count(a) /\ Count(a) \in Nat
        BY <1>3 DEF Count, TypeOK
    <2> QED BY <1>1, <1>2, <1>3, <1>7, <2>1 DEF Listing, Within, TypeOK
<1>8. ASSUME a \notin failed \cup grew PROVE Interval(a)'
    <2>1. start'[a] = n
        BY <1>2, <1>8 DEF Listing, Interval, TypeOK
    <2>2. printed[a] = n - fetched[a] + 1 .. n
        BY <1>1, <1>2, <1>8, <2>1 DEF Listing, Interval, Began, TypeOK
    <2> QED BY <1>2, <1>3, <2>1, <2>2 DEF Interval
<1> QED BY <1>3, <1>4, <1>5, <1>6, <1>7, <1>8 DEF Listing

(* A page is printed.                                                       *)
LEMMA ListingRest ==
    ASSUME TypeOK, PageBounds, NEW a \in Admins, Listing(a), FetchRest(a)
    PROVE  Listing(a)'
<1>1. PICK m \in 1 .. len[a] :
          /\ printed'[a] = printed[a] \cup (first[a] - m + 1 .. first[a])
          /\ fetched'[a] = fetched[a] + m
    BY DEF FetchRest, PrintHistory, TypeOK
<1>2. pc[a] = "rows" /\ pc'[a] = "page"
    BY DEF FetchRest, Step, TypeOK
<1>3. UNCHANGED <<asked, first, start, failed, grew, n, schema, ver>>
    BY DEF FetchRest, fileVars
<1>4. /\ m \in Nat /\ m > 0 /\ m <= len[a] /\ len[a] \in Nat
      /\ first[a] \in Nat /\ fetched[a] \in Nat /\ start[a] \in Nat /\ n \in Nat
      /\ printed[a] \subseteq Nat
    BY DEF TypeOK
<1>5. Began(a)'
    BY <1>1, <1>2, <1>3, <1>4 DEF Listing, Began
<1>6. ASSUME a \notin failed PROVE Gapless(a)' /\ NewerPrinted(a)'
    <2>1. \A j \in 1 .. start[a] : j > first[a] - m => j \in printed'[a]
        BY <1>1, <1>2, <1>4, <1>6 DEF Listing, NewerPrinted
    <2>2. Gapless(a)'
        <3> SUFFICES ASSUME NEW i \in printed'[a], NEW j \in i .. start[a]
                     PROVE  j \in printed'[a]
            BY <1>3 DEF Gapless
        <3>1. CASE i \in printed[a]
            BY <1>1, <1>6, <3>1 DEF Listing, Gapless
        <3>2. CASE i \in first[a] - m + 1 .. first[a]
            <4>1. j \in Int /\ j > first[a] - m
                BY <1>4, <3>2
            <4>2. CASE j <= first[a]
                BY <1>1, <1>4, <4>1, <4>2
            <4>3. CASE j > first[a]
                BY <1>4, <2>1, <4>1, <4>3
            <4> QED BY <1>4, <4>1, <4>2, <4>3
        <3> QED BY <1>1, <3>1, <3>2
    <2>3. ver[a] = schema => n - fetched'[a] >= first[a] - m
        BY <1>1, <1>2, <1>4, <1>6 DEF Listing, NewerPrinted
    <2>4. NewerPrinted(a)'
        BY <1>1, <1>2, <1>3, <1>4, <2>1, <2>3 DEF NewerPrinted
    <2> QED BY <2>2, <2>4
<1>7. ASSUME a \notin failed PROVE Within(a)'
    <2>1. Count(a)' = Count(a) /\ Count(a) \in Nat
        BY <1>3 DEF Count, TypeOK
    <2> QED BY <1>1, <1>2, <1>4, <1>7, <2>1 DEF Listing, Within
<1>8. ASSUME a \notin failed \cup grew PROVE Interval(a)'
    <2>1. /\ printed[a] = start[a] - fetched[a] + 1 .. start[a]
          /\ first[a] = start[a] - fetched[a]
          /\ ver[a] = schema => start[a] = n
        BY <1>2, <1>8 DEF Listing, Interval
    <2>2. printed'[a] = start[a] - fetched'[a] + 1 .. start[a]
        BY <1>1, <1>4, <2>1
    <2> QED BY <1>2, <1>3, <2>1, <2>2 DEF Interval
<1> QED BY <1>3, <1>5, <1>6, <1>7, <1>8 DEF Listing

(* A failed page: the listing is one of those that nothing is said about.   *)
LEMMA ListingFails ==
    ASSUME TypeOK, NEW a \in Admins, Listing(a), FetchFails(a)
    PROVE  Listing(a)'
<1>1. a \in failed' /\ pc[a] = "page" /\ pc'[a] \in {"page", "done"}
    BY DEF FetchFails, Return, Step, TypeOK
<1>2. fetched'[a] = 0 => printed'[a] = printed[a] /\ fetched[a] = 0
    BY DEF FetchFails, PrintHistory, TypeOK
<1>3. Began(a)'
    BY <1>1, <1>2 DEF FetchFails, fileVars, Listing, Began
<1> QED BY <1>1, <1>3 DEF Listing

LEMMA ListingStep == TypeOK /\ PageBounds /\ LInv /\ [Next]_vars => LInv'
<1> SUFFICES ASSUME TypeOK, PageBounds, LInv, [Next]_vars, NEW a \in Admins
             PROVE  Listing(a)'
    BY DEF LInv
<1>0. Listing(a) /\ a # Scanner
    BY DEF LInv
<1> USE <1>0
<1>1. ASSUME NEW p \in Proc, Open(p) PROVE Listing(a)'
    <2>1. CASE p = a
        BY <1>1, <2>1, ListingOpens
        DEF Open, Step, TypeOK, fileVars, Listing, Began
    <2>2. CASE p # a
        BY <1>1, <2>2, ListingFrame DEF Open, Step, TypeOK, fileVars
    <2> QED BY <2>1, <2>2
<1>2. ASSUME NEW p \in Proc, OpenStep(p) PROVE Listing(a)'
    <2>0. UNCHANGED listVars /\ schema' \in Nat
        BY <1>2 DEF OpenStep, CreateFile, SchemaDrop, SchemaCreate, SchemaEnd,
                    Prepare, Prepared, fileVars, TypeOK
    <2>1. CASE p = a
        <3>1. pc[a] \notin {"page", "rows", "done"} /\ pc'[a] # "rows"
            BY <1>2, <2>1 DEF OpenStep, CreateFile, SchemaDrop, SchemaCreate,
                    SchemaEnd, Prepare, Prepared, Step, Return, TypeOK
        <3>2. ver'[a] <= schema'
            BY <1>2, <2>1 DEF OpenStep, CreateFile, SchemaDrop, SchemaCreate,
                    SchemaEnd, Prepare, Prepared, fileVars, TypeOK, Listing, Began
        <3> QED BY <2>0, <3>1, <3>2, ListingOpens DEF listVars, TypeOK
    <2>2. CASE p # a
        <3>1. pc'[a] = pc[a] /\ lock'[a] = lock[a] /\ ver'[a] = ver[a]
            BY <1>2, <2>2 DEF OpenStep, CreateFile, SchemaDrop, SchemaCreate,
                    SchemaEnd, Prepare, Prepared, Step, Return, TypeOK
        <3>2. CASE UNCHANGED <<n, schema>>
            BY <2>0, <3>1, <3>2, ListingFrame DEF listVars
        <3>3. CASE SchemaEnd(p) /\ schema' = schema + 1
            BY <2>0, <3>1, <3>3, ListingRecreated DEF SchemaEnd
        <3> QED
            BY <1>2, <3>2, <3>3 DEF OpenStep, CreateFile, SchemaDrop, SchemaCreate,
                    SchemaEnd, Prepare, Prepared, fileVars
    <2> QED BY <2>1, <2>2
<1>3. CASE LastStatus \/ Work \/ Insert \/ ScannerKilled
    BY <1>3, ListingFrame
    DEF LastStatus, Work, Insert, ScannerKilled, Step, Return, TypeOK, fileVars,
        listVars
<1>4. CASE Commit
    <2>1. /\ pc'[a] = pc[a] /\ lock'[a] = lock[a]
          /\ UNCHANGED <<asked, fetched, first, len, start, printed, failed, ver,
                         schema>>
        BY <1>4 DEF Commit, Step, Return, TypeOK
    <2>2. CASE UNCHANGED <<n, grew>>
        BY <2>1, <2>2, ListingFrame
    <2>3. CASE /\ Others(Scanner) = {}
               /\ n' = n + 1
               /\ grew' = grew \cup {b \in Admins : pc[b] = "page" /\ fetched[b] > 0}
        BY <2>1, <2>3, ListingGrown
    <2> QED BY <1>4, <2>2, <2>3 DEF Commit
<1>5. ASSUME NEW b \in Admins, HistoryEnd(b) \/ FetchNone(b) PROVE Listing(a)'
    <2>1. CASE FetchNone(b) /\ b = a
        <3>1. /\ pc[a] = "page" /\ pc'[a] = "done"
              /\ UNCHANGED <<asked, fetched, first, start, printed, grew, failed,
                             n, schema, ver>>
            BY <2>1 DEF FetchNone, Return, Step, TypeOK, fileVars
        <3> QED
            BY <3>1 DEF Listing, Began, Gapless, NewerPrinted, Interval, Within, Count
    <2>2. CASE HistoryEnd(b) \/ (FetchNone(b) /\ b # a)
        BY <2>2, ListingFrame
        DEF HistoryEnd, FetchNone, Step, Return, TypeOK, fileVars, listVars
    <2> QED BY <1>5, <2>1, <2>2
<1>6. ASSUME NEW b \in Admins, AdminKilled(b) PROVE Listing(a)'
    <2>1. /\ UNCHANGED <<listVars, n, schema, ver>>
          /\ b = a => pc[a] \notin {"idle", "done"} /\ pc'[a] = "done"
          /\ b # a => pc'[a] = pc[a] /\ lock'[a] = lock[a]
        BY <1>6 DEF AdminKilled, Step, Return, TypeOK, fileVars
    <2>2. CASE b # a \/ pc[a] \in {"page", "rows"}
        BY <2>1, <2>2, ListingFrame DEF listVars
    <2>3. CASE b = a /\ pc[a] \notin {"page", "rows"}
        BY <2>1, <2>3, ListingOpens DEF listVars, TypeOK, Listing, Began
    <2> QED BY <2>2, <2>3
<1>7. ASSUME NEW b \in Admins, FetchRow(b) \/ FetchRest(b) PROVE Listing(a)'
    <2>1. CASE b # a
        <3>1. /\ pc'[a] = pc[a] /\ lock'[a] = lock[a]
              /\ asked'[a] = asked[a] /\ fetched'[a] = fetched[a]
              /\ first'[a] = first[a] /\ len'[a] = len[a]
              /\ start'[a] = start[a] /\ printed'[a] = printed[a]
              /\ UNCHANGED <<failed, grew, n, schema, ver>>
            BY <1>7, <2>1 DEF FetchRow, FetchRest, PrintHistory, Step, TypeOK, fileVars
        <3> QED BY <3>1, ListingFrame
    <2>2. CASE b = a
        BY <1>7, <2>2, ListingRow, ListingRest
    <2> QED BY <2>1, <2>2
<1>8. ASSUME NEW b \in Admins, FetchFails(b) PROVE Listing(a)'
    <2>1. CASE b # a
        <3>1. /\ pc'[a] = pc[a] /\ lock'[a] = lock[a]
              /\ asked'[a] = asked[a] /\ fetched'[a] = fetched[a]
              /\ first'[a] = first[a] /\ len'[a] = len[a]
              /\ start'[a] = start[a] /\ printed'[a] = printed[a]
              /\ UNCHANGED <<grew, n, schema, ver>>
              /\ (a \in failed') <=> (a \in failed)
            BY <1>8, <2>1 DEF FetchFails, PrintHistory, Return, Step, TypeOK, fileVars
        <3> QED
            BY <3>1 DEF Listing, Began, Gapless, NewerPrinted, Interval, Within, Count
    <2>2. CASE b = a
        BY <1>8, <2>2, ListingFails
    <2> QED BY <2>1, <2>2
<1>9. CASE UNCHANGED vars
    BY <1>9, ListingFrame DEF vars, listVars, fileVars
<1> QED
    BY <1>1, <1>2, <1>3, <1>4, <1>5, <1>6, <1>7, <1>8, <1>9
    DEF Next, ScannerStep, AdminStep

LEMMA ListingInvariant == Spec => [](TypeOK /\ LInv)
<1>1. Init => TypeOK /\ PageBounds /\ LInv
    BY TypeInit, ListingInit
<1>2. TypeOK /\ PageBounds /\ LInv /\ [Next]_vars
        => (TypeOK /\ PageBounds /\ LInv)'
    BY TypeStep, ListingStep
<1> QED BY <1>1, <1>2, PTL DEF Spec

(* do_history_fetch leaves out no record between two that it prints, of     *)
(* those that were there when it began, whatever is recorded meanwhile.     *)
THEOREM ListingsHaveNoGap == Spec => []ListingHasNoGap
<1>1. TypeOK /\ LInv => ListingHasNoGap
    BY DEF LInv, Listing, Gapless, ListingHasNoGap
<1> QED BY <1>1, ListingInvariant, PTL

(* The number of records that do_history prints at its end.                 *)
THEOREM FetchedCountsRecords == Spec => []FetchedAreDistinct
<1>1. ASSUME TypeOK, LInv PROVE FetchedAreDistinct
    <2> SUFFICES ASSUME NEW a \in Admins \ failed
                 PROVE  /\ fetched[a] <= Count(a)
                        /\ a \in grew \/ Cardinality(printed[a]) = fetched[a]
        BY DEF FetchedAreDistinct
    <2>1. fetched[a] <= Count(a)
        BY <1>1 DEF LInv, Listing, Within
    <2>2. ASSUME a \notin grew PROVE Cardinality(printed[a]) = fetched[a]
        <3>1. printed[a] = start[a] - fetched[a] + 1 .. start[a]
            BY <1>1, <2>2 DEF LInv, Listing, Interval
        <3>2. start[a] \in Nat /\ fetched[a] \in Nat
            BY <1>1 DEF TypeOK
        <3>3. PICK x \in Int, y \in Int : x = start[a] - fetched[a] + 1 /\ y = start[a]
            BY <3>2
        <3>4. Cardinality(x .. y) = IF x > y THEN 0 ELSE y - x + 1
            BY FS_Interval
        <3>5. printed[a] = x .. y
            BY <3>1, <3>3
        <3> QED BY <3>2, <3>3, <3>4, <3>5
    <2> QED BY <2>1, <2>2
<1> QED BY <1>1, ListingInvariant, PTL
=============================================================================
