------------------------- MODULE ExtractorToolProofs -------------------------
(***************************************************************************)
(* Proofs about ExtractorTool, for every number of rows and of threads:    *)
(* the shares get_work_allocation computes are a partition of the rows,    *)
(* hence no row is worked on twice and none is left out, and the counter   *)
(* the threads share, of which updates may be lost, never runs ahead of    *)
(* the documents.  The steps run out whatever the schedule.                *)
(***************************************************************************)
EXTENDS ExtractorTool, FiniteSetTheorems, TLAPS

(* What division is, once for all shares.                                   *)
LEMMA DivFacts ==
    ASSUME NEW a \in Nat, NEW n \in Nat \ {0}
    PROVE  /\ a \div n \in Nat
           /\ a % n \in 0 .. n - 1
           /\ a = n * (a \div n) + (a % n)
BY SMT

LEMMA MulMono ==
    ASSUME NEW p \in Nat, NEW i \in Nat, NEW j \in Nat, i < j
    PROVE  p * i + p <= p * j
<1>1. p * (i + 1) <= p * j
    BY SMT
<1>. QED
    BY <1>1, SMT

LEMMA ShareFacts ==
    ASSUME total_objects \in Nat, NEW t \in Thread
    PROVE  /\ PerEach \in Nat
           /\ OffsetOf(t) \in Nat
           /\ CountOf(t) \in Nat
           /\ EndOf(t) \in Nat /\ EndOf(t) <= total_objects
           /\ OffsetOf(t) <= EndOf(t)
           /\ OffsetOf(t) + CountOf(t) <= total_objects
           /\ EndOf(t) = OffsetOf(t) + CountOf(t)
<1>1. /\ PerEach \in Nat
      /\ total_objects % NThreads \in Nat
      /\ total_objects = NThreads * PerEach + (total_objects % NThreads)
    BY DivFacts, NThreadsAssumption DEF PerEach
<1>2. t \in Nat /\ t < NThreads
    BY NThreadsAssumption DEF Thread
<1>3. PerEach * t + PerEach <= PerEach * NThreads
    BY <1>1, <1>2, MulMono, NThreadsAssumption
<1>4. PerEach * t \in Nat
    BY <1>1, <1>2, SMT
<1>5. PerEach * NThreads = NThreads * PerEach
    BY <1>1, NThreadsAssumption, SMT
<1>6. NThreads * PerEach \in Nat
    BY <1>1, NThreadsAssumption, SMT
<1>. DEFINE o == PerEach * t
            m == total_objects % NThreads
            a == NThreads * PerEach
<1>7. /\ o \in Nat /\ m \in Nat /\ a \in Nat
      /\ o + PerEach <= a /\ total_objects = a + m
    BY <1>1, <1>3, <1>4, <1>5, <1>6
<1>8. /\ CountOf(t) \in Nat
      /\ OffsetOf(t) = o
      /\ CountOf(t) = PerEach \/ CountOf(t) = PerEach + m
    BY <1>1 DEF CountOf, OffsetOf
<1>. HIDE DEF o, m, a
<1>9. OffsetOf(t) + CountOf(t) <= total_objects
    BY <1>1, <1>7, <1>8
<1>. QED
    BY <1>1, <1>7, <1>8, <1>9 DEF EndOf

(* The shares of two threads have no row in common.                         *)
LEMMA SharesDisjoint ==
    ASSUME total_objects \in Nat, NEW t \in Thread, NEW u \in Thread, t < u
    PROVE  EndOf(t) <= OffsetOf(u)
<1>1. t \in Nat /\ u \in Nat /\ t < NThreads - 1
    BY NThreadsAssumption DEF Thread
<1>2. CountOf(t) = PerEach
    BY <1>1, ShareFacts, NThreadsAssumption DEF CountOf
<1>3. PerEach * t + PerEach <= PerEach * u
    BY <1>1, ShareFacts, MulMono
<1>. QED
    BY <1>2, <1>3, ShareFacts DEF OffsetOf

(* Every row is in some thread's share.                                     *)
LEMMA SharesCover ==
    ASSUME total_objects \in Nat, NEW r \in Row
    PROVE  \E t \in Thread : r \in Share(t)
<1>. DEFINE n == NThreads - 1
            p == PerEach
<1>1. n \in Thread /\ n \in Nat
    BY NThreadsAssumption DEF Thread
<1>2. r \in Nat /\ r < total_objects
    BY DEF Row
<1>3. /\ p \in Nat
      /\ total_objects % NThreads \in Nat
      /\ total_objects = NThreads * p + (total_objects % NThreads)
    BY DivFacts, NThreadsAssumption DEF PerEach
<1>4. CASE r < p * n
  <2>1. p # 0
    BY <1>1, <1>2, <1>3, <1>4, SMT
  <2>2. /\ r \div p \in Nat
        /\ r % p \in 0 .. p - 1
        /\ r = p * (r \div p) + (r % p)
    BY <1>2, <1>3, <2>1, DivFacts
  <2>. DEFINE q == r \div p
  <2>. HIDE DEF q
  <2>3. p * q <= r /\ r < p * q + p /\ q \in Nat
    BY <1>2, <1>3, <2>2, SMT DEF q
  <2>4. q < n
    <3>1. SUFFICES ASSUME ~(q < n) PROVE FALSE
      OBVIOUS
    <3>2. p * n <= p * q
      BY <1>1, <1>3, <2>3, <3>1, SMT
    <3>. QED
      BY <1>1, <1>2, <1>3, <1>4, <2>3, <3>2, SMT
  <2>5. q \in Thread /\ q # NThreads - 1
    BY <1>1, <2>3, <2>4, NThreadsAssumption DEF Thread
  <2>6. OffsetOf(q) = p * q /\ CountOf(q) = p
    BY <1>3, <2>5 DEF OffsetOf, CountOf
  <2>7. r \in Share(q)
    BY <1>2, <2>3, <2>5, <2>6, ShareFacts DEF Share
  <2>. QED
    BY <2>5, <2>7
<1>5. CASE ~(r < p * n)
  <2>1. OffsetOf(n) = p * n /\ CountOf(n) = p + (total_objects % NThreads)
    BY DEF OffsetOf, CountOf
  <2>2. NThreads * p = p * n + p
    BY <1>1, <1>3, NThreadsAssumption, SMT
  <2>3. EndOf(n) = total_objects
    <3>1. OffsetOf(n) + CountOf(n) = total_objects
      BY <1>1, <1>3, <2>1, <2>2, ShareFacts
    <3>. QED
      BY <3>1, <1>1, ShareFacts
  <2>4. r \in Share(n)
    BY <1>1, <1>2, <1>5, <2>1, <2>3, ShareFacts DEF Share
  <2>. QED
    BY <1>1, <2>4
<1>. QED
    BY <1>4, <1>5

-----------------------------------------------------------------------------
(* How far each thread is in its share. *)

Before  == {"none", "dispatch", "connect"}
InRow   == {"meta", "content", "index", "load", "store"}

Progress(t) ==
    /\ tpc[t] \in Before => tried[t] = {}
    /\ tpc[t] = "connect" => idx[t] = OffsetOf(t)
    /\ tpc[t] \in {"connect", "loop"} \cup InRow =>
          /\ last[t] \in OffsetOf(t) .. EndOf(t)
          /\ t \notin failed => last[t] = EndOf(t)
    /\ tpc[t] = "loop" => /\ idx[t] \in OffsetOf(t) .. last[t]
                          /\ tried[t] = OffsetOf(t) .. idx[t] - 1
    /\ tpc[t] \in InRow => /\ idx[t] \in OffsetOf(t) .. last[t] - 1
                           /\ tried[t] = OffsetOf(t) .. idx[t]
    /\ tpc[t] = "done" => /\ tried[t] \subseteq Share(t)
                          /\ t \notin failed => tried[t] = Share(t)

(* What the main thread has waited for.                                     *)
Waited ==
    /\ \A t \in Thread : t < joined => tpc[t] = "done"
    /\ mainpc = "print" /\ Main \notin failed => joined = NThreads
    /\ mainpc = "exit" /\ Main \notin failed => joined = NThreads \/ total_objects = 0
    /\ printed >= 0 => mainpc = "exit"
    /\ \A t \in Thread : created <= t => tpc[t] = "none"
    /\ mainpc = "start" => created = 0
    /\ mainpc \in {"start", "create"} => joined = 0

IInv == TypeOK /\ Waited /\ \A t \in Thread : Progress(t)

LEMMA InitIInv == Init => IInv
BY MaxObjectsAssumption, NThreadsAssumption
DEF Init, IInv, TypeOK, Waited, Progress, Before, InRow, Thread, Main

(* The rows do not change under the threads, so neither do the shares.      *)
LEMMA SameShares ==
    ASSUME total_objects' = total_objects, NEW t \in Thread
    PROVE  /\ OffsetOf(t)' = OffsetOf(t) /\ EndOf(t)' = EndOf(t)
           /\ Share(t)' = Share(t) /\ Row' = Row
BY DEF OffsetOf, EndOf, CountOf, PerEach, Share, Row

(* A step that changes nothing of a thread keeps its progress.              *)
LEMMA OtherThread ==
    ASSUME NEW t \in Thread, Progress(t), total_objects' = total_objects,
           tpc'[t] = tpc[t], idx'[t] = idx[t], last'[t] = last[t],
           tried'[t] = tried[t], t \in failed' <=> t \in failed
    PROVE  Progress(t)'
BY SameShares DEF Progress

(* The steps of the main thread.                                            *)
LEMMA MainIsNoThread == \A t \in Thread : t \in Nat /\ t # Main
BY NThreadsAssumption DEF Thread, Main

LEMMA MainInv == ASSUME IInv, MainStep PROVE IInv'
<1>. USE NThreadsAssumption, MainIsNoThread
     DEF IInv, TypeOK, Waited, threadVars, mainVars
<1>1. CASE MainStart
  <2>1. TypeOK' /\ Waited'
    BY <1>1 DEF MainStart, Row
  <2>2. ASSUME NEW t \in Thread PROVE Progress(t)'
    BY <1>1, OtherThread DEF MainStart
  <2>. QED
    BY <2>1, <2>2
<1>2. CASE MainCreate
  <2>1. CASE created < NThreads /\ created' = created + 1
    <3>1. /\ created \in Thread /\ mainpc = "create"
          /\ tpc' = [tpc EXCEPT ![created] = "dispatch"]
          /\ UNCHANGED <<total_objects, mainpc, joined, printed, idx, last, meta,
                         reg, n_extracted, docs, tried, failed>>
      BY <1>2, <2>1 DEF MainCreate, Thread
    <3>2. TypeOK'
      BY <2>1, <3>1 DEF Row
    <3>3. tpc[created] = "none"
      BY <3>1
    <3>4. Waited'
      BY <2>1, <3>1, <3>3
    <3>5. ASSUME NEW t \in Thread PROVE Progress(t)'
      <4>1. CASE t = created
        BY <3>1, <3>3, <4>1 DEF Progress, Before, InRow
      <4>2. CASE t # created
        BY <3>1, <4>2, OtherThread
      <4>. QED
        BY <4>1, <4>2
    <3>. QED
      BY <3>2, <3>4, <3>5
  <2>2. CASE UNCHANGED <<created, tpc>>
    <3>1. TypeOK' /\ Waited'
      BY <1>2, <2>2 DEF MainCreate, Row
    <3>2. ASSUME NEW t \in Thread PROVE Progress(t)'
      BY <1>2, <2>2, OtherThread DEF MainCreate
    <3>. QED
      BY <3>1, <3>2
  <2>. QED
    BY <1>2, <2>1, <2>2 DEF MainCreate
<1>3. CASE MainJoin
  <2>1. TypeOK'
    BY <1>3 DEF MainJoin, Row
  <2>2. Waited'
    BY <1>3 DEF MainJoin
  <2>3. ASSUME NEW t \in Thread PROVE Progress(t)'
    BY <1>3, OtherThread DEF MainJoin
  <2>. QED
    BY <2>1, <2>2, <2>3
<1>4. CASE MainPrint
  <2>1. TypeOK' /\ Waited'
    BY <1>4 DEF MainPrint, Row
  <2>2. ASSUME NEW t \in Thread PROVE Progress(t)'
    BY <1>4, OtherThread DEF MainPrint
  <2>. QED
    BY <2>1, <2>2
<1>. QED
    BY <1>1, <1>2, <1>3, <1>4 DEF MainStep

(* The steps of a worker thread.  What each of them knows of its row, in    *)
(* terms of numbers only.                                                   *)
LEMMA ThreadRange ==
    ASSUME IInv, NEW t \in Thread
    PROVE  /\ OffsetOf(t) \in 0 .. MaxObjects /\ EndOf(t) \in 0 .. MaxObjects
           /\ OffsetOf(t) <= EndOf(t) /\ EndOf(t) <= total_objects
           /\ OffsetOf(t) \in Nat /\ EndOf(t) \in Nat
           /\ idx[t] \in Nat /\ last[t] \in Nat
           /\ tpc[t] = "loop" /\ idx[t] # last[t] => idx[t] \in Row
           /\ tpc[t] \in {"connect", "loop"} \cup InRow => last[t] <= EndOf(t)
           /\ tpc[t] \in InRow => idx[t] \in Row /\ idx[t] + 1 \in 0 .. MaxObjects
<1>1. /\ total_objects \in 0 .. MaxObjects
      /\ idx[t] \in 0 .. MaxObjects /\ last[t] \in 0 .. MaxObjects
      /\ total_objects \in Nat
    BY MaxObjectsAssumption DEF IInv, TypeOK
<1>2. /\ OffsetOf(t) \in Nat /\ EndOf(t) \in Nat
      /\ OffsetOf(t) <= EndOf(t) /\ EndOf(t) <= total_objects
    BY <1>1, ShareFacts
<1>3. /\ tpc[t] \in {"connect", "loop"} \cup InRow =>
            last[t] \in OffsetOf(t) .. EndOf(t)
      /\ tpc[t] = "loop" => idx[t] \in OffsetOf(t) .. last[t]
      /\ tpc[t] \in InRow => idx[t] \in OffsetOf(t) .. last[t] - 1
    BY DEF IInv, Progress
<1>. HIDE DEF InRow
<1>. QED
    BY <1>1, <1>2, <1>3, MaxObjectsAssumption DEF Row

LEMMA ThreadType ==
    ASSUME IInv, NEW t \in Thread, ThreadStep(t) PROVE TypeOK'
<1>. USE DEF mainVars, Runs, Advance
<1>0. TypeOK
    BY DEF IInv
<1>1. CASE Dispatch(t)
  <2>1. \A n \in OffsetOf(t) + 1 .. EndOf(t) : n \in 0 .. MaxObjects
    BY ThreadRange, MaxObjectsAssumption
  <2>2. last' \in [Thread -> 0 .. MaxObjects]
    BY <1>0, <1>1, <2>1 DEF Dispatch, TypeOK
  <2>3. /\ OffsetOf(t) \in 0 .. MaxObjects
        /\ failed' \subseteq Thread \cup {Main}
        /\ \E c \in {"connect", "done"} : tpc' = [tpc EXCEPT ![t] = c]
        /\ idx' = idx \/ idx' = [idx EXCEPT ![t] = OffsetOf(t)]
        /\ UNCHANGED <<mainVars, meta, reg, n_extracted, docs, tried>>
    BY <1>0, <1>1, ThreadRange DEF Dispatch, TypeOK
  <2>. QED
    BY <1>0, <2>2, <2>3 DEF TypeOK, Row
<1>2. CASE Connect(t)
    BY <1>0, <1>2 DEF Connect, TypeOK, Row
<1>3. CASE NextRow(t)
  <2>1. CASE idx[t] < last[t]
    <3>1. idx[t] \in Row
      BY <1>3, <2>1, ThreadRange DEF NextRow
    <3>2. tried' \in [Thread -> SUBSET Row]
      BY <1>0, <1>3, <2>1, <3>1, ThreadRange DEF NextRow, TypeOK
    <3>. QED
      BY <1>0, <1>3, <2>1, <3>2, ThreadRange DEF NextRow, TypeOK, Row
  <2>2. CASE idx[t] = last[t]
    BY <1>0, <1>3, <2>2, ThreadRange DEF NextRow, TypeOK, Row
  <2>. QED
    BY <1>3, <2>1, <2>2 DEF NextRow
<1>4. CASE ExtractMeta(t)
    BY <1>0, <1>4, ThreadRange DEF ExtractMeta, TypeOK, InRow, Row
<1>5. CASE ExtractContent(t)
    BY <1>0, <1>5 DEF ExtractContent, TypeOK, Row
<1>6. CASE IndexTsv(t)
    BY <1>0, <1>6, ThreadRange DEF IndexTsv, TypeOK, InRow, Row
<1>7. CASE CountLoad(t)
    BY <1>0, <1>7 DEF CountLoad, TypeOK, Row
<1>8. CASE CountStore(t)
    BY <1>0, <1>8, ThreadRange DEF CountStore, TypeOK, InRow, Row
<1>. QED
    BY <1>1, <1>2, <1>3, <1>4, <1>5, <1>6, <1>7, <1>8 DEF ThreadStep

(* Intervals, as the rows a thread has been through.                        *)
LEMMA Intervals ==
    /\ \A a \in Nat : a .. a - 1 = {}
    /\ \A a, i \in Nat : (i + 1) - 1 = i
    /\ \A a, i \in Nat : a <= i => (a .. i - 1) \cup {i} = a .. i
BY SMT

(* A thread that has no row left, or that has just entered its next one.    *)
LEMMA LoopProgress ==
    ASSUME IInv, NEW t \in Thread, NextRow(t),
           OffsetOf(t)' = OffsetOf(t), EndOf(t)' = EndOf(t), Share(t)' = Share(t)
    PROVE  Progress(t)'
<1>. DEFINE o == OffsetOf(t)
            e == last[t]
            i == idx[t]
<1>1. /\ o \in Nat /\ e \in Nat /\ i \in o .. e /\ i \in Nat
      /\ e \in o .. EndOf(t) /\ (t \notin failed => e = EndOf(t))
      /\ tried[t] = o .. i - 1
    BY ThreadRange DEF NextRow, Runs, IInv, Progress
<1>2. /\ idx'[t] = i /\ last'[t] = e /\ failed' = failed
      /\ DOMAIN tpc = Thread /\ DOMAIN tried = Thread
    BY <1>1 DEF NextRow, IInv, TypeOK
<1>3. CASE i < last[t]
  <2>1. tpc'[t] = "meta" /\ tried'[t] = tried[t] \cup {i}
    BY <1>1, <1>2, <1>3 DEF NextRow
  <2>2. tried'[t] = o .. i /\ i \in o .. e - 1
    BY <1>1, <1>3, <2>1, Intervals
  <2>. QED
    BY <1>1, <1>2, <2>1, <2>2 DEF Progress, Before, InRow
<1>4. CASE i = last[t]
  <2>1. tpc'[t] = "done" /\ tried'[t] = o .. e - 1
    BY <1>1, <1>2, <1>4 DEF NextRow
  <2>2. tried'[t] \subseteq Share(t) /\ (t \notin failed => tried'[t] = Share(t))
    BY <1>1, <2>1, ThreadRange DEF Share
  <2>. QED
    BY <1>2, <2>1, <2>2 DEF Progress, Before, InRow
<1>. QED
    BY <1>3, <1>4 DEF NextRow

(* Whatever became of a row, the thread goes on behind it.                  *)
LEMMA RowProgress ==
    ASSUME IInv, NEW t \in Thread, tpc[t] \in InRow,
           OffsetOf(t)' = OffsetOf(t), EndOf(t)' = EndOf(t), Share(t)' = Share(t),
           last' = last, tried' = tried, failed' = failed,
           \/ Advance(t)
           \/ tpc'[t] \in InRow /\ idx' = idx
    PROVE  Progress(t)'
<1>. DEFINE o == OffsetOf(t)
            e == last[t]
            i == idx[t]
<1>1. /\ o \in Nat /\ e \in Nat /\ i \in Nat /\ i \in o .. e - 1
      /\ last'[t] = e /\ tried'[t] = o .. i
      /\ e \in o .. EndOf(t) /\ (t \notin failed' => e = EndOf(t))
      /\ DOMAIN tpc = Thread /\ DOMAIN idx = Thread
    BY ThreadRange DEF IInv, TypeOK, Progress, InRow
<1>2. CASE Advance(t)
  <2>1. tpc'[t] = "loop" /\ idx'[t] = i + 1
    BY <1>1, <1>2 DEF Advance
  <2>2. idx'[t] \in o .. e /\ idx'[t] - 1 = i
    BY <1>1, <2>1
  <2>. QED
    BY <1>1, <2>1, <2>2 DEF Progress, Before, InRow
<1>3. CASE tpc'[t] \in InRow /\ idx' = idx
    BY <1>1, <1>3 DEF Progress, Before, InRow
<1>. QED
    BY <1>2, <1>3

LEMMA ThreadProgress ==
    ASSUME IInv, NEW t \in Thread, ThreadStep(t) PROVE Progress(t)'
<1>. USE DEF Runs
<1>0. /\ Progress(t) /\ DOMAIN tpc = Thread /\ DOMAIN idx = Thread
      /\ DOMAIN last = Thread
    BY DEF IInv, TypeOK, Progress
<1>1. /\ OffsetOf(t)' = OffsetOf(t) /\ EndOf(t)' = EndOf(t)
      /\ Share(t)' = Share(t)
  <2>1. total_objects' = total_objects
    BY DEF ThreadStep, Dispatch, Connect, NextRow, ExtractMeta, ExtractContent,
           IndexTsv, CountLoad, CountStore, mainVars, Advance
  <2>. QED
    BY <2>1, SameShares
<1>2. CASE Dispatch(t)
  <2>1. tried'[t] = {}
    BY <1>0, <1>2 DEF Dispatch, Progress, Before
  <2>2. ASSUME NEW n \in OffsetOf(t) + 1 .. EndOf(t),
               idx' = [idx EXCEPT ![t] = OffsetOf(t)],
               last' = [last EXCEPT ![t] = n],
               tpc' = [tpc EXCEPT ![t] = "connect"],
               failed' = IF n = EndOf(t) THEN failed ELSE failed \cup {t}
        PROVE  Progress(t)'
    <3>1. /\ tpc'[t] = "connect" /\ idx'[t] = OffsetOf(t) /\ last'[t] = n
          /\ t \notin failed' => n = EndOf(t)
      BY <1>0, <2>2
    <3>2. n \in OffsetOf(t) .. EndOf(t)
      BY <2>2, ThreadRange
    <3>. QED
      BY <1>1, <2>1, <3>1, <3>2 DEF Progress, Before, InRow
  <2>3. CASE tpc' = [tpc EXCEPT ![t] = "done"]
    <3>1. tpc'[t] = "done" /\ (t \notin failed' => Share(t) = {})
      BY <1>0, <1>2, <2>3 DEF Dispatch
    <3>. QED
      BY <1>1, <2>1, <3>1 DEF Progress, Before, InRow
  <2>. QED
    BY <1>2, <2>2, <2>3 DEF Dispatch
<1>3. CASE Connect(t)
  <2>1. /\ tried[t] = {} /\ idx[t] = OffsetOf(t)
        /\ last[t] \in OffsetOf(t) .. EndOf(t)
        /\ t \notin failed => last[t] = EndOf(t)
    BY <1>0, <1>3 DEF Connect, Progress, Before
  <2>2. /\ tried[t] = OffsetOf(t) .. idx[t] - 1
        /\ idx[t] \in OffsetOf(t) .. last[t]
    BY <2>1, ThreadRange, Intervals
  <2>. QED
    BY <1>0, <1>1, <1>3, <2>1, <2>2 DEF Connect, Progress, Before, InRow
<1>4. CASE NextRow(t)
    BY <1>1, <1>4, LoopProgress
<1>5. CASE ExtractMeta(t)
    BY <1>0, <1>1, <1>5, RowProgress DEF ExtractMeta, InRow
<1>6. CASE ExtractContent(t)
    BY <1>0, <1>1, <1>6, RowProgress DEF ExtractContent, InRow
<1>7. CASE IndexTsv(t)
    BY <1>0, <1>1, <1>7, RowProgress DEF IndexTsv, InRow
<1>8. CASE CountLoad(t)
    BY <1>0, <1>1, <1>8, RowProgress DEF CountLoad, InRow
<1>9. CASE CountStore(t)
    BY <1>0, <1>1, <1>9, RowProgress DEF CountStore, InRow
<1>. QED
    BY <1>2, <1>3, <1>4, <1>5, <1>6, <1>7, <1>8, <1>9 DEF ThreadStep

(* The other threads, and what main waits for, are left alone.              *)
LEMMA ThreadOthers ==
    ASSUME IInv, NEW t \in Thread, ThreadStep(t)
    PROVE  Waited' /\ \A u \in Thread : Progress(u)'
<1>1. /\ UNCHANGED mainVars
      /\ tpc[t] \notin {"none", "done"} /\ mainpc # "exit"
      /\ \E c \in {"connect", "done", "loop", "meta", "content", "index", "load",
                   "store"} : tpc' = [tpc EXCEPT ![t] = c]
      /\ failed' = failed \/ failed' = failed \cup {t}
      /\ \A u \in Thread : u # t =>
            /\ tpc'[u] = tpc[u] /\ idx'[u] = idx[u] /\ last'[u] = last[u]
            /\ tried'[u] = tried[u]
    BY DEF ThreadStep, Dispatch, Connect, NextRow, ExtractMeta, ExtractContent,
           IndexTsv, CountLoad, CountStore, Runs, Advance, IInv, TypeOK
<1>2. Waited'
    BY <1>1, MainIsNoThread, NThreadsAssumption DEF mainVars, Waited, IInv, TypeOK
<1>3. ASSUME NEW u \in Thread PROVE Progress(u)'
  <2>1. CASE u = t
    BY <2>1, ThreadProgress
  <2>2. CASE u # t
    BY <1>1, <2>2, OtherThread DEF mainVars, IInv
  <2>. QED
    BY <2>1, <2>2
<1>. QED
    BY <1>2, <1>3

-----------------------------------------------------------------------------
(* The inductive invariant: how far each thread is in its share, and which  *)
(* threads the main thread has waited for.                                  *)
THEOREM Inductive == Spec => []IInv
<1>1. ASSUME IInv, [Next]_vars PROVE IInv'
  <2>1. CASE MainStep
    BY <1>1, <2>1, MainInv
  <2>2. ASSUME NEW t \in Thread, ThreadStep(t) PROVE IInv'
    BY <1>1, <2>2, ThreadType, ThreadOthers DEF IInv
  <2>3. CASE UNCHANGED vars
    <3>1. TypeOK' /\ Waited'
      BY <1>1, <2>3
      DEF vars, mainVars, threadVars, IInv, TypeOK, Waited, Row
    <3>2. ASSUME NEW t \in Thread PROVE Progress(t)'
      BY <1>1, <2>3, OtherThread DEF vars, mainVars, threadVars, IInv
    <3>. QED
      BY <3>1, <3>2 DEF IInv
  <2>. QED
    BY <1>1, <2>1, <2>2, <2>3 DEF Next
<1>. QED
    BY <1>1, InitIInv, PTL DEF Spec

(* Type correctness: no thread reads past the end of the list it fetched.   *)
THEOREM TypeCorrect == Spec => []TypeOK
<1>1. IInv => TypeOK
    BY DEF IInv
<1>. QED
    BY <1>1, Inductive, PTL

(* A row is in the share of one thread only.                                *)
LEMMA OneShare ==
    ASSUME IInv, NEW t \in Thread, NEW u \in Thread, t # u
    PROVE  Share(t) \cap Share(u) = {}
<1>1. ASSUME NEW v \in Thread, NEW w \in Thread, v < w
      PROVE  Share(v) \cap Share(w) = {}
  <2>1. EndOf(v) <= OffsetOf(w)
    BY <1>1, SharesDisjoint, MaxObjectsAssumption DEF IInv, TypeOK
  <2>. QED
    BY <1>1, <2>1, ThreadRange DEF Share
<1>2. t < u \/ u < t
    BY MainIsNoThread
<1>. QED
    BY <1>1, <1>2

(* A thread stays within its share.                                         *)
LEMMA TriedInShare ==
    ASSUME IInv, NEW t \in Thread
    PROVE  /\ tried[t] \subseteq Share(t)
           /\ tpc[t] \in InRow => idx[t] \in Share(t)
<1>1. Progress(t) /\ tpc[t] \in Before \cup InRow \cup {"loop", "done"}
    BY DEF IInv, TypeOK, Before, InRow
<1>2. OffsetOf(t) \in Nat /\ EndOf(t) \in Nat /\ idx[t] \in Nat
    BY ThreadRange
<1>3. CASE tpc[t] = "loop"
    BY <1>1, <1>2, <1>3 DEF Progress, Share, InRow
<1>4. CASE tpc[t] \in InRow
    BY <1>1, <1>2, <1>4 DEF Progress, Share
<1>5. CASE tpc[t] \in Before
    BY <1>1, <1>5 DEF Progress, Before, InRow
<1>6. CASE tpc[t] = "done"
    BY <1>1, <1>6 DEF Progress, InRow
<1>. QED
    BY <1>1, <1>3, <1>4, <1>5, <1>6

(* No row is taken through the tika server by two threads, for every number *)
(* of rows and of threads.                                                  *)
THEOREM RowsOnce == Spec => []NoRowTwice
<1>1. IInv => NoRowTwice
    BY OneShare, TriedInShare DEF NoRowTwice
<1>. QED
    BY <1>1, Inductive, PTL

(* No row is left out when the tool prints its count and no call failed,    *)
(* for every number of rows and of threads.                                 *)
THEOREM RowsAll == Spec => []AllRowsTried
<1>1. ASSUME IInv, printed >= 0, failed = {}
      PROVE  UNION {tried[t] : t \in Thread} = Row
  <2>1. total_objects \in Nat /\ \A t \in Thread : tried[t] \subseteq Row
    BY <1>1, MaxObjectsAssumption DEF IInv, TypeOK
  <2>2. joined = NThreads \/ total_objects = 0
    BY <1>1 DEF IInv, Waited
  <2>3. CASE total_objects = 0
    BY <2>1, <2>3 DEF Row
  <2>4. CASE joined = NThreads
    <3>1. ASSUME NEW t \in Thread PROVE tried[t] = Share(t)
      <4>1. t < joined
        BY <2>4, NThreadsAssumption DEF Thread
      <4>2. tpc[t] = "done" /\ Progress(t) /\ t \notin failed
        BY <1>1, <4>1 DEF IInv, Waited
      <4>. QED
        BY <4>2 DEF Progress
    <3>2. ASSUME NEW r \in Row PROVE \E t \in Thread : r \in tried[t]
      BY <2>1, <3>1, SharesCover
    <3>. QED
      BY <2>1, <3>2
  <2>. QED
    BY <2>2, <2>3, <2>4
<1>2. IInv => AllRowsTried
    BY <1>1 DEF AllRowsTried
<1>. QED
    BY <1>2, Inductive, PTL

-----------------------------------------------------------------------------
(* What the unlocked counter means. *)

Pending == {"load", "store"}

(* The documents whose increment is over, lost or not: those that no thread *)
(* is at this moment counting.                                              *)
Counted == {r \in docs : \A t \in Thread : tpc[t] \in Pending => idx[t] # r}

(* A thread's documents are among the rows it has been through; the row it  *)
(* is at becomes one in hpssix_db_index_tsv, before it is counted.          *)
DocsTried(t) ==
    /\ docs \cap Share(t) \subseteq tried[t]
    /\ tpc[t] \in {"meta", "content", "index"} => idx[t] \notin docs
    /\ tpc[t] \in Pending => idx[t] \in docs

(* Neither the counter nor a value that a thread has loaded of it is more   *)
(* than the documents that have been counted.                               *)
CountBound ==
    /\ n_extracted <= Cardinality(Counted)
    /\ \A t \in Thread : tpc[t] = "store" => reg[t] <= Cardinality(Counted)
    /\ printed <= Cardinality(docs)

CInv == (\A t \in Thread : DocsTried(t)) /\ CountBound

LEMMA FiniteSetOfRows ==
    ASSUME NEW n \in 0 .. MaxObjects, NEW S, S \subseteq 0 .. n - 1
    PROVE  IsFiniteSet(S) /\ Cardinality(S) \in Nat
<1>1. IsFiniteSet(0 .. n - 1)
    BY FS_Interval, MaxObjectsAssumption
<1>. QED
    BY <1>1, FS_Subset, FS_CardinalityType

LEMMA FiniteDocs ==
    ASSUME TypeOK
    PROVE  /\ IsFiniteSet(docs) /\ IsFiniteSet(Counted)
           /\ Cardinality(docs) \in Nat /\ Cardinality(Counted) \in Nat
           /\ Cardinality(Counted) <= Cardinality(docs)
<1>1. IsFiniteSet(docs)
    BY FiniteSetOfRows DEF TypeOK, Row
<1>2. IsFiniteSet(Counted) /\ Cardinality(Counted) <= Cardinality(docs)
    BY <1>1, FS_Subset DEF Counted
<1>. QED
    BY <1>1, <1>2, FS_CardinalityType

LEMMA InitCInv == Init => CInv
<1>. SUFFICES ASSUME Init PROVE CInv
    OBVIOUS
<1>1. docs = {} /\ Counted = {} /\ Cardinality({}) = 0
    BY FS_EmptySet DEF Init, Counted
<1>. QED
    BY <1>1 DEF Init, CInv, CountBound, DocsTried, Pending

(* A step after which the same documents are counted, and no value is       *)
(* loaded that the counter does not have.                                   *)
LEMMA SameCount ==
    ASSUME TypeOK, CountBound, Counted' = Counted, n_extracted' = n_extracted,
           \A t \in Thread : tpc'[t] = "store" =>
               \/ reg'[t] = n_extracted
               \/ tpc[t] = "store" /\ reg'[t] = reg[t],
           \/ printed' = printed
           \/ printed' = n_extracted,
           TypeOK', docs \subseteq docs'
    PROVE  CountBound'
<1>0. IsFiniteSet(docs') /\ Cardinality(docs') \in Nat
    BY FiniteSetOfRows DEF TypeOK, Row
<1>1. Cardinality(docs) <= Cardinality(docs')
    BY <1>0, FS_Subset
<1>2. /\ Cardinality(Counted) <= Cardinality(docs)
      /\ Cardinality(Counted) \in Nat /\ Cardinality(docs) \in Nat
      /\ Cardinality(docs') \in Nat
    BY <1>0, FiniteDocs
<1>3. n_extracted \in Nat /\ printed \in Int
    BY DEF TypeOK
<1>. QED
    BY <1>1, <1>2, <1>3 DEF CountBound

(* The steps of the main thread begin threads, wait for them and print.     *)
LEMMA MainCount == ASSUME IInv, CInv, MainStep, IInv' PROVE CInv'
<1>1. /\ UNCHANGED <<total_objects, idx, reg, n_extracted, docs, tried>>
      /\ printed' = printed \/ printed' = n_extracted
      /\ \/ tpc' = tpc
         \/ created \in Thread /\ tpc' = [tpc EXCEPT ![created] = "dispatch"]
  <2>1. CASE MainCreate
    <3>1. created < NThreads => created \in Thread
      BY NThreadsAssumption DEF IInv, TypeOK, Thread
    <3>. QED
      BY <2>1, <3>1 DEF MainCreate
  <2>2. CASE MainStart \/ MainJoin \/ MainPrint
    BY <2>2 DEF MainStart, MainJoin, MainPrint, threadVars
  <2>. QED
    BY <2>1, <2>2 DEF MainStep
<1>2. created \in Thread => tpc[created] = "none"
    BY NThreadsAssumption DEF IInv, Waited, TypeOK, Thread
<1>3. ASSUME NEW t \in Thread
      PROVE  \/ tpc'[t] = tpc[t]
             \/ tpc[t] = "none" /\ tpc'[t] = "dispatch"
    BY <1>1, <1>2 DEF IInv, TypeOK
<1>4. Counted' = Counted
    BY <1>1, <1>3 DEF Counted, Pending
<1>5. CountBound'
    BY <1>1, <1>3, <1>4, SameCount DEF IInv, CInv
<1>6. ASSUME NEW t \in Thread PROVE DocsTried(t)'
    BY <1>1, <1>3, SameShares DEF CInv, DocsTried, Pending
<1>. QED
    BY <1>5, <1>6 DEF CInv

(* A thread that neither indexes nor counts in this step.                   *)
Quiet == {"none", "dispatch", "connect", "loop", "meta", "content", "index", "done"}

LEMMA QuietCount ==
    ASSUME IInv, CInv, IInv', NEW t \in Thread,
           Dispatch(t) \/ Connect(t) \/ NextRow(t) \/ ExtractMeta(t) \/ ExtractContent(t)
    PROVE  CInv'
<1>1. /\ UNCHANGED <<total_objects, printed, reg, n_extracted, docs>>
      /\ tpc[t] \in Quiet /\ tpc'[t] \in Quiet
      /\ \A u \in Thread : u # t =>
            tpc'[u] = tpc[u] /\ idx'[u] = idx[u] /\ tried'[u] = tried[u]
      /\ tried[t] \subseteq tried'[t]
    BY DEF Dispatch, Connect, NextRow, ExtractMeta, ExtractContent, Advance, Runs,
       mainVars, IInv, TypeOK, Quiet
<1>2. \A u \in Thread : \/ u # t /\ tpc'[u] = tpc[u] /\ idx'[u] = idx[u]
                        \/ u = t /\ tpc[u] \notin Pending /\ tpc'[u] \notin Pending
    BY <1>1 DEF Quiet, Pending
<1>3. Counted' = Counted
    BY <1>1, <1>2 DEF Counted
<1>4. CountBound'
    BY <1>1, <1>2, <1>3, SameCount DEF IInv, CInv, Pending
<1>5. Share(t)' = Share(t) /\ \A u \in Thread : Share(u)' = Share(u)
    BY <1>1, SameShares
<1>6. tpc'[t] \in {"meta", "content", "index"} => idx'[t] \notin docs
  <2>1. CASE NextRow(t) /\ tpc'[t] = "meta"
    <3>1. /\ idx'[t] = idx[t] /\ tried[t] = OffsetOf(t) .. idx[t] - 1
          /\ idx[t] \in OffsetOf(t) .. last[t] /\ idx[t] < last[t]
          /\ last[t] \in OffsetOf(t) .. EndOf(t)
      BY <2>1 DEF NextRow, Runs, IInv, Progress, TypeOK
    <3>2. idx[t] \in Share(t) /\ idx[t] \notin tried[t]
      BY <3>1, ThreadRange DEF Share
    <3>. QED
      BY <3>1, <3>2 DEF CInv, DocsTried
  <2>2. CASE tpc[t] \in {"meta", "content"} /\ idx' = idx
    BY <2>2 DEF CInv, DocsTried
  <2>. QED
    BY <2>1, <2>2
    DEF Dispatch, Connect, NextRow, ExtractMeta, ExtractContent, Advance, IInv, TypeOK, Runs
<1>7. ASSUME NEW u \in Thread PROVE DocsTried(u)'
  <2>1. CASE u = t
    BY <1>1, <1>2, <1>5, <1>6, <2>1 DEF CInv, DocsTried
  <2>2. CASE u # t
    BY <1>1, <1>5, <2>2 DEF CInv, DocsTried
  <2>. QED
    BY <2>1, <2>2
<1>. QED
    BY <1>4, <1>7 DEF CInv

(* A document comes in, not yet counted.                                    *)
LEMMA IndexCount ==
    ASSUME IInv, CInv, IInv', NEW t \in Thread, IndexTsv(t) PROVE CInv'
<1>1. /\ UNCHANGED <<total_objects, printed, reg, n_extracted, tried>>
      /\ tpc[t] = "index" /\ idx[t] \notin docs /\ idx[t] \in Share(t)
      /\ idx[t] \in tried[t]
      /\ \A u \in Thread : u # t => tpc'[u] = tpc[u] /\ idx'[u] = idx[u]
      /\ \/ tpc'[t] = "load" /\ idx' = idx /\ docs' = docs \cup {idx[t]}
         \/ tpc'[t] = "loop" /\ docs' = docs
  <2>1. tpc[t] = "index" /\ tpc[t] \in InRow
    BY DEF IndexTsv, InRow
  <2>2. idx[t] \in tried[t]
    BY <2>1, ThreadRange DEF IInv, Progress
  <2>. QED
    BY <2>1, <2>2, TriedInShare
    DEF IndexTsv, Advance, mainVars, IInv, TypeOK, CInv, DocsTried
<1>2. Counted' = Counted
    BY <1>1 DEF Counted, Pending
<1>3. CountBound'
    BY <1>1, <1>2, SameCount DEF IInv, CInv
<1>4. \A u \in Thread : Share(u)' = Share(u)
    BY <1>1, SameShares
<1>5. DocsTried(t)'
    BY <1>1, <1>4 DEF CInv, DocsTried, Pending
<1>6. ASSUME NEW u \in Thread, u # t PROVE DocsTried(u)'
  <2>1. idx[t] \notin Share(u) /\ (tpc[u] \in InRow => idx[u] \in Share(u))
    BY <1>1, <1>6, OneShare, TriedInShare
  <2>. QED
    BY <1>1, <1>4, <1>6, <2>1 DEF CInv, DocsTried, Pending, InRow
<1>. QED
    BY <1>3, <1>5, <1>6 DEF CInv

(* The load takes what the counter has, which is not too much.              *)
LEMMA LoadCount ==
    ASSUME IInv, CInv, IInv', NEW t \in Thread, CountLoad(t) PROVE CInv'
<1>1. /\ UNCHANGED <<total_objects, printed, idx, n_extracted, tried, docs>>
      /\ tpc[t] = "load" /\ tpc'[t] = "store" /\ reg'[t] = n_extracted
      /\ \A u \in Thread : u # t => tpc'[u] = tpc[u] /\ reg'[u] = reg[u]
    BY DEF CountLoad, mainVars, IInv, TypeOK
<1>2. Counted' = Counted
    BY <1>1 DEF Counted, Pending
<1>3. CountBound'
    BY <1>1, <1>2, SameCount DEF IInv, CInv
<1>4. ASSUME NEW u \in Thread PROVE DocsTried(u)'
    BY <1>1, SameShares DEF CInv, DocsTried, Pending
<1>. QED
    BY <1>3, <1>4 DEF CInv

(* The store may take the counter back, and counts one document that was    *)
(* not counted before: no other thread is at that row.                      *)
LEMMA StoreCount ==
    ASSUME IInv, CInv, IInv', NEW t \in Thread, CountStore(t) PROVE CInv'
<1>1. /\ UNCHANGED <<total_objects, printed, reg, tried, docs>>
      /\ tpc[t] = "store" /\ tpc'[t] = "loop" /\ n_extracted' = reg[t] + 1
      /\ idx[t] \in docs /\ idx[t] \in Share(t)
      /\ \A u \in Thread : u # t => tpc'[u] = tpc[u] /\ idx'[u] = idx[u]
    BY TriedInShare
    DEF CountStore, Advance, mainVars, IInv, TypeOK, CInv, DocsTried, Pending, InRow
<1>2. \A u \in Thread : u # t /\ tpc[u] \in Pending => idx[u] # idx[t]
    BY <1>1, OneShare, TriedInShare DEF Pending, InRow
<1>3. Counted' = Counted \cup {idx[t]} /\ idx[t] \notin Counted
    BY <1>1, <1>2 DEF Counted, Pending
<1>4. /\ Cardinality(Counted') = Cardinality(Counted) + 1
      /\ Cardinality(Counted) \in Nat
  <2>1. IsFiniteSet(Counted) /\ Cardinality(Counted) \in Nat
    BY FiniteDocs DEF IInv
  <2>. QED
    BY <1>3, <2>1, FS_AddElement
<1>5. CountBound'
    BY <1>1, <1>4 DEF CInv, CountBound, IInv, TypeOK
<1>6. ASSUME NEW u \in Thread PROVE DocsTried(u)'
    BY <1>1, SameShares DEF CInv, DocsTried, Pending
<1>. QED
    BY <1>5, <1>6 DEF CInv

(* The unlocked n_extracted never counts more than the documents that are   *)
(* in the index, however the loads and stores of the threads interleave,    *)
(* for every number of rows and of threads; nor does the tool print more.   *)
THEOREM CountSafe == Spec => []CountNeverOver
<1>1. ASSUME IInv, CInv, [Next]_vars, IInv' PROVE CInv'
  <2>1. CASE MainStep
    BY <1>1, <2>1, MainCount
  <2>2. ASSUME NEW t \in Thread, ThreadStep(t) PROVE CInv'
    BY <1>1, <2>2, QuietCount, IndexCount, LoadCount, StoreCount DEF ThreadStep
  <2>3. CASE UNCHANGED vars
    BY <1>1, <2>3, SameShares
    DEF vars, mainVars, threadVars, CInv, CountBound, Counted, DocsTried
  <2>. QED
    BY <1>1, <2>1, <2>2, <2>3 DEF Next
<1>2. ASSUME IInv, CInv PROVE CountNeverOver
  <2>1. /\ n_extracted \in Nat /\ Cardinality(Counted) <= Cardinality(docs)
        /\ Cardinality(docs) \in Nat /\ Cardinality(Counted) \in Nat
    BY <1>2, FiniteDocs DEF IInv, TypeOK
  <2>. QED
    BY <1>2, <2>1 DEF CInv, CountBound, CountNeverOver
<1>. QED
    BY <1>1, <1>2, InitCInv, Inductive, PTL DEF Spec

-----------------------------------------------------------------------------
(* Termination, without fairness: the steps run out. *)

(* What a thread in its list knows of the rest of it.                       *)
LEMMA LeftRange ==
    ASSUME IInv, NEW t \in Thread
    PROVE  /\ OffsetOf(t) \in Nat /\ EndOf(t) \in Nat /\ OffsetOf(t) <= EndOf(t)
           /\ idx[t] \in Nat /\ last[t] \in Nat
           /\ tpc[t] = "connect" => idx[t] <= last[t]
           /\ tpc[t] = "loop" => idx[t] <= last[t]
           /\ tpc[t] \in InRow => idx[t] < last[t]
<1>1. /\ tpc[t] = "connect" =>
            idx[t] = OffsetOf(t) /\ last[t] \in OffsetOf(t) .. EndOf(t)
      /\ tpc[t] = "loop" => idx[t] \in OffsetOf(t) .. last[t]
      /\ tpc[t] \in InRow => idx[t] \in OffsetOf(t) .. last[t] - 1
    BY DEF IInv, Progress
<1>. HIDE DEF InRow
<1>. QED
    BY <1>1, ThreadRange

LEMMA LeftNat ==
    ASSUME IInv, NEW t \in Thread
    PROVE  StepsLeft(t) \in Nat /\ (tpc[t] # "done" => StepsLeft(t) > 0)
<1>1. tpc[t] \in {"none", "dispatch", "connect", "loop", "meta", "content", "index",
                  "load", "store", "done"}
    BY DEF IInv, TypeOK
<1>2. EndOf(t) - OffsetOf(t) \in Nat
    BY LeftRange
<1>3. tpc[t] \in {"connect", "loop"} => RowsLeft(t) \in Nat
    BY LeftRange DEF RowsLeft
<1>4. tpc[t] \in InRow => RowsLeft(t) \in Nat \ {0}
    BY LeftRange DEF RowsLeft
<1>. QED
    BY <1>1, <1>2, <1>3, <1>4 DEF StepsLeft, InRow

(* What changes nothing of a thread leaves it as many steps.                *)
LEMMA OtherLeft ==
    ASSUME NEW t \in Thread, total_objects' = total_objects,
           tpc'[t] = tpc[t], idx'[t] = idx[t], last'[t] = last[t]
    PROVE  StepsLeft(t)' = StepsLeft(t)
BY SameShares DEF StepsLeft, RowsLeft

(* A thread that has done with a row has that row less,                     *)
LEMMA AdvanceLeft ==
    ASSUME IInv, NEW t \in Thread, tpc[t] \in InRow, Advance(t), UNCHANGED last
    PROVE  StepsLeft(t)' \in Int /\ StepsLeft(t)' < StepsLeft(t)
<1>1. /\ tpc'[t] = "loop" /\ idx'[t] = idx[t] + 1 /\ last'[t] = last[t]
      /\ idx[t] \in Nat /\ last[t] \in Nat
    BY LeftRange DEF Advance, IInv, TypeOK
<1>2. RowsLeft(t) \in Int /\ RowsLeft(t)' = RowsLeft(t) - 1
    BY <1>1 DEF RowsLeft
<1>3. StepsLeft(t)' = 6 * (RowsLeft(t) - 1) + 1
    BY <1>1, <1>2 DEF StepsLeft
<1>4. /\ tpc[t] = "meta" => StepsLeft(t) = 6 * RowsLeft(t)
      /\ tpc[t] = "content" => StepsLeft(t) = 6 * RowsLeft(t) - 1
      /\ tpc[t] = "index" => StepsLeft(t) = 6 * RowsLeft(t) - 2
      /\ tpc[t] = "load" => StepsLeft(t) = 6 * RowsLeft(t) - 3
      /\ tpc[t] = "store" => StepsLeft(t) = 6 * RowsLeft(t) - 4
    BY DEF StepsLeft
<1>5. /\ 6 * (RowsLeft(t) - 1) + 1 < 6 * RowsLeft(t) - 4
      /\ StepsLeft(t) >= 6 * RowsLeft(t) - 4
    BY <1>2, <1>4 DEF InRow
<1>. HIDE DEF InRow
<1>. QED
    BY <1>2, <1>3, <1>5, LeftNat

(* one that ends has no step left,                                          *)
LEMMA DoneLeft ==
    ASSUME IInv, NEW t \in Thread, Runs(t), tpc' = [tpc EXCEPT ![t] = "done"]
    PROVE  StepsLeft(t)' \in Int /\ StepsLeft(t)' < StepsLeft(t)
<1>1. tpc'[t] = "done"
    BY DEF IInv, TypeOK
<1>2. StepsLeft(t)' = 0
    BY <1>1 DEF StepsLeft
<1>. QED
    BY <1>2, LeftNat DEF Runs

(* and so each step of a thread brings it nearer to its end.                *)
LEMMA ThreadNearer ==
    ASSUME IInv, NEW t \in Thread, ThreadStep(t)
    PROVE  StepsLeft(t)' \in Int /\ StepsLeft(t)' < StepsLeft(t)
<1>. DEFINE r == RowsLeft(t)
<1>0. /\ DOMAIN tpc = Thread /\ DOMAIN idx = Thread /\ DOMAIN last = Thread
      /\ r \in Int
    BY LeftRange DEF IInv, TypeOK, RowsLeft
<1>1. CASE Dispatch(t)
  <2>1. CASE tpc' = [tpc EXCEPT ![t] = "done"]
    BY <1>1, <2>1, DoneLeft DEF Dispatch
  <2>2. ASSUME NEW n \in OffsetOf(t) + 1 .. EndOf(t),
               idx' = [idx EXCEPT ![t] = OffsetOf(t)],
               last' = [last EXCEPT ![t] = n],
               tpc' = [tpc EXCEPT ![t] = "connect"]
        PROVE  StepsLeft(t)' \in Int /\ StepsLeft(t)' < StepsLeft(t)
    <3>1. RowsLeft(t)' = n - OffsetOf(t) /\ tpc'[t] = "connect"
      BY <1>0, <2>2 DEF RowsLeft
    <3>2. StepsLeft(t)' = 6 * (n - OffsetOf(t)) + 2
      BY <3>1 DEF StepsLeft
    <3>3. StepsLeft(t) = 6 * (EndOf(t) - OffsetOf(t)) + 3
      BY <1>1 DEF Dispatch, StepsLeft
    <3>. QED
      BY <3>2, <3>3, LeftRange
  <2>. QED
    BY <1>1, <2>1, <2>2 DEF Dispatch
<1>2. CASE Connect(t)
  <2>1. CASE tpc' = [tpc EXCEPT ![t] = "done"]
    BY <1>2, <2>1, DoneLeft DEF Connect
  <2>2. CASE tpc' = [tpc EXCEPT ![t] = "loop"]
    <3>1. RowsLeft(t)' = r /\ tpc'[t] = "loop" /\ tpc[t] = "connect"
      BY <1>0, <1>2, <2>2 DEF Connect, RowsLeft
    <3>. QED
      BY <1>0, <3>1 DEF StepsLeft
  <2>. QED
    BY <1>2, <2>1, <2>2 DEF Connect
<1>3. CASE NextRow(t)
  <2>1. CASE tpc' = [tpc EXCEPT ![t] = "done"]
    BY <1>3, <2>1, DoneLeft DEF NextRow
  <2>2. CASE tpc' = [tpc EXCEPT ![t] = "meta"]
    <3>1. RowsLeft(t)' = r /\ tpc'[t] = "meta" /\ tpc[t] = "loop"
      BY <1>0, <1>3, <2>2 DEF NextRow, RowsLeft
    <3>. QED
      BY <1>0, <3>1 DEF StepsLeft
  <2>. QED
    BY <1>3, <2>1, <2>2 DEF NextRow
<1>4. CASE ExtractMeta(t)
  <2>1. CASE Advance(t)
    BY <1>4, <2>1, AdvanceLeft DEF ExtractMeta, InRow
  <2>2. CASE ~Advance(t)
    <3>1. RowsLeft(t)' = r /\ tpc'[t] \in {"content", "index"} /\ tpc[t] = "meta"
      BY <1>0, <1>4, <2>2 DEF ExtractMeta, RowsLeft
    <3>. QED
      BY <1>0, <3>1 DEF StepsLeft
  <2>. QED
    BY <2>1, <2>2
<1>5. CASE ExtractContent(t)
  <2>1. RowsLeft(t)' = r /\ tpc'[t] = "index" /\ tpc[t] = "content"
    BY <1>0, <1>5 DEF ExtractContent, RowsLeft
  <2>. QED
    BY <1>0, <2>1 DEF StepsLeft
<1>6. CASE IndexTsv(t)
  <2>1. CASE Advance(t)
    BY <1>6, <2>1, AdvanceLeft DEF IndexTsv, InRow
  <2>2. CASE ~Advance(t)
    <3>1. RowsLeft(t)' = r /\ tpc'[t] = "load" /\ tpc[t] = "index"
      BY <1>0, <1>6, <2>2 DEF IndexTsv, RowsLeft
    <3>. QED
      BY <1>0, <3>1 DEF StepsLeft
  <2>. QED
    BY <2>1, <2>2
<1>7. CASE CountLoad(t)
  <2>1. RowsLeft(t)' = r /\ tpc'[t] = "store" /\ tpc[t] = "load"
    BY <1>0, <1>7 DEF CountLoad, RowsLeft
  <2>. QED
    BY <1>0, <2>1 DEF StepsLeft
<1>8. CASE CountStore(t)
    BY <1>8, AdvanceLeft DEF CountStore, InRow
<1>. QED
    BY <1>1, <1>2, <1>3, <1>4, <1>5, <1>6, <1>7, <1>8 DEF ThreadStep

(* It touches no other thread and not main.                                 *)
LEMMA ThreadOwnOnly ==
    ASSUME IInv, NEW t \in Thread, ThreadStep(t)
    PROVE  /\ UNCHANGED mainVars
           /\ \A u \in Thread \ {t} :
                tpc'[u] = tpc[u] /\ idx'[u] = idx[u] /\ last'[u] = last[u]
<1>. USE DEF IInv, TypeOK, Advance
<1>1. CASE Dispatch(t) \/ Connect(t) \/ NextRow(t)
    BY <1>1 DEF Dispatch, Connect, NextRow
<1>2. CASE ExtractMeta(t) \/ ExtractContent(t)
    BY <1>2 DEF ExtractMeta, ExtractContent
<1>3. CASE IndexTsv(t) \/ CountLoad(t) \/ CountStore(t)
    BY <1>3 DEF IndexTsv, CountLoad, CountStore
<1>. QED
    BY <1>1, <1>2, <1>3 DEF ThreadStep

(* A step of main brings main nearer to its end, and the thread it starts.  *)
LEMMA MainNearer ==
    ASSUME IInv, MainStep
    PROVE  /\ MainLeft' \in Int /\ MainLeft' < MainLeft
           /\ \A t \in Thread : StepsLeft(t)' <= StepsLeft(t)
<1>0. /\ created \in 0 .. NThreads /\ joined \in 0 .. NThreads
      /\ NThreads \in Nat /\ DOMAIN tpc = Thread
      /\ mainpc = "create" => joined = 0
      /\ \A t \in Thread : StepsLeft(t) \in Nat
    BY NThreadsAssumption, LeftNat DEF IInv, TypeOK, Waited
<1>1. CASE UNCHANGED threadVars
  <2>1. total_objects' = total_objects
    BY <1>1 DEF MainStep, MainStart, MainCreate, MainJoin, MainPrint
  <2>2. \A t \in Thread : StepsLeft(t)' = StepsLeft(t)
    BY <1>1, <2>1, OtherLeft DEF threadVars
  <2>3. CASE MainStart
    BY <1>0, <2>2, <2>3 DEF MainStart, MainLeft
  <2>4. CASE MainCreate
    <3>1. mainpc' \in {"join", "print"} \/ created' = created + 1
      BY <2>4 DEF MainCreate
    <3>. QED
      BY <1>0, <2>2, <2>4, <3>1 DEF MainCreate, MainLeft
  <2>5. CASE MainJoin
    BY <1>0, <2>2, <2>5 DEF MainJoin, MainLeft
  <2>6. CASE MainPrint
    BY <1>0, <2>2, <2>6 DEF MainPrint, MainLeft
  <2>. QED
    BY <1>0, <2>2, <2>3, <2>4, <2>5, <2>6 DEF MainStep
<1>2. CASE MainCreate /\ created < NThreads /\ created' = created + 1
  <2>1. /\ created \in Thread /\ mainpc = "create" /\ mainpc' = "create"
        /\ tpc' = [tpc EXCEPT ![created] = "dispatch"]
        /\ UNCHANGED <<total_objects, idx, last>>
    BY <1>0, <1>2 DEF MainCreate, Thread
  <2>2. MainLeft' \in Int /\ MainLeft' < MainLeft
    BY <1>0, <1>2, <2>1 DEF MainLeft
  <2>3. ASSUME NEW t \in Thread PROVE StepsLeft(t)' <= StepsLeft(t)
    <3>1. CASE t = created
      <4>1. tpc[t] = "none" /\ tpc'[t] = "dispatch"
        BY <1>0, <2>1, <3>1 DEF IInv, Waited
      <4>2. EndOf(t)' - OffsetOf(t)' = EndOf(t) - OffsetOf(t)
        BY <2>1, SameShares
      <4>. QED
        BY <4>1, <4>2, LeftRange DEF StepsLeft
    <3>2. CASE t # created
      BY <1>0, <2>1, <3>2, OtherLeft
    <3>. QED
      BY <3>1, <3>2
  <2>. QED
    BY <2>2, <2>3
<1>3. UNCHANGED threadVars \/ (MainCreate /\ created < NThreads /\ created' = created + 1)
    BY DEF MainStep, MainStart, MainCreate, MainJoin, MainPrint, threadVars
<1>. QED
    BY <1>1, <1>2, <1>3

(* The tool takes no more than 6 steps for a row, 4 for a thread and        *)
(* 2 * NThreads + 4 for main, in whatever order the threads run and         *)
(* whichever calls fail: extractor_worker_func goes through its list once.  *)
THEOREM StepsAreBounded == Spec => StepsRunOut
<1>1. ASSUME IInv, Next PROVE Shrinks
  <2>1. MainLeft \in Nat /\ \A t \in Thread : StepsLeft(t) \in Nat
    BY <1>1, LeftNat, NThreadsAssumption DEF MainLeft, IInv, TypeOK
  <2>2. CASE MainStep
    BY <1>1, <2>1, <2>2, MainNearer DEF Shrinks
  <2>3. ASSUME NEW t \in Thread, ThreadStep(t) PROVE Shrinks
    <3>1. MainLeft' = MainLeft /\ total_objects' = total_objects
      BY <1>1, <2>3, ThreadOwnOnly DEF MainLeft, mainVars
    <3>2. StepsLeft(t)' \in Int /\ StepsLeft(t)' < StepsLeft(t)
      BY <1>1, <2>3, ThreadNearer
    <3>3. \A u \in Thread \ {t} : StepsLeft(u)' = StepsLeft(u)
      BY <1>1, <2>3, <3>1, ThreadOwnOnly, OtherLeft
    <3>. QED
      BY <2>1, <3>1, <3>2, <3>3 DEF Shrinks
  <2>. QED
    BY <1>1, <2>2, <2>3 DEF Next
<1>2. IInv /\ [Next]_vars => [Shrinks]_vars
    BY <1>1
<1>. QED
    BY <1>2, Inductive, PTL DEF Spec, StepsRunOut
=============================================================================
