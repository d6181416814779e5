---------------------------- MODULE SearchProofs ----------------------------
(* Proofs about Search.  The options read so far and the variables they     *)
(* were stored in say the same (SInv); a lemma on operators then takes each *)
(* part of the SQL statement to what the usage text says of its option.     *)
EXTENDS Search, TLAPS, FiniteSetTheorems, SequenceTheorems

(* Every option has a variable.                                             *)
LEMMA SlotType ==
    /\ \A opt \in Single : SlotOf(opt) \in Slot
    /\ \A opt \in AttrOpt : SlotOf(opt) \in Attr
  BY DEF SlotOf, Single, AttrOpt, Slot, Attr

(* The operators of SQL, for a number that is read in one way.              *)
LEMMA CompareSays ==
    ASSUME NEW e \in Option, NEW x \in Int, NEW N, NEW M, ParseOp(e) # "STR",
           N = Double[e.a],
           e.b \in DOMAIN Double => M = Double[e.b]
    PROVE  Compare(ParseOp(e), x, N, M) <=> Says(e, x)
<1>1. e.a \in DOMAIN Double /\ e.pre \in DOMAIN Ops /\ N \in Int
  BY NumbersAssumption DEF ParseOp
<1>2. e.pre \in {"", "=", ">", "<", ">=", "=>", "<=", "=<", "!=", "<>"}
  BY <1>1 DEF Ops
<1>3. CASE e.b = ""
  <2>1. ParseOp(e) = Ops[e.pre]
    BY <1>1, <1>3 DEF ParseOp
  <2>2. e.b \notin DOMAIN Double
    BY <1>3, NumbersAssumption
  <2>3. CASE e.pre \in {"", "="}
    <3>1. Ops[e.pre] = "EQ"
      BY <2>3 DEF Ops
    <3>2. QED BY <2>1, <2>2, <2>3, <3>1, <1>1, <1>3 DEF Compare, Says
  <2>4. CASE e.pre = ">"
    <3>1. Ops[e.pre] = "GT"
      BY <2>4 DEF Ops
    <3>2. QED BY <2>1, <2>2, <2>4, <3>1, <1>1, <1>3 DEF Compare, Says
  <2>5. CASE e.pre = "<"
    <3>1. Ops[e.pre] = "LT"
      BY <2>5 DEF Ops
    <3>2. QED BY <2>1, <2>2, <2>5, <3>1, <1>1, <1>3 DEF Compare, Says
  <2>6. CASE e.pre \in {">=", "=>"}
    <3>1. Ops[e.pre] = "GE"
      BY <2>6 DEF Ops
    <3>2. Says(e, x) <=> (x = N \/ x > N)
      BY <2>2, <2>6, <1>1, <1>3 DEF Says
    <3>3. Compare(ParseOp(e), x, N, M) <=> x >= N
      BY <2>1, <3>1 DEF Compare
    <3>4. QED BY <3>2, <3>3, <1>1
  <2>7. CASE e.pre \in {"<=", "=<"}
    <3>1. Ops[e.pre] = "LE"
      BY <2>7 DEF Ops
    <3>2. Says(e, x) <=> (x = N \/ x < N)
      BY <2>2, <2>7, <1>1, <1>3 DEF Says
    <3>3. Compare(ParseOp(e), x, N, M) <=> x <= N
      BY <2>1, <3>1 DEF Compare
    <3>4. QED BY <3>2, <3>3, <1>1
  <2>8. CASE e.pre \in {"!=", "<>"}
    <3>1. Ops[e.pre] = "NE"
      BY <2>8 DEF Ops
    <3>2. Says(e, x) <=> (x > N \/ x < N)
      BY <2>2, <2>8, <1>1, <1>3 DEF Says
    <3>3. Compare(ParseOp(e), x, N, M) <=> x # N
      BY <2>1, <3>1 DEF Compare
    <3>4. QED BY <3>2, <3>3, <1>1
  <2>9. QED BY <1>2, <2>3, <2>4, <2>5, <2>6, <2>7, <2>8
<1>4. CASE e.b # ""
  <2>1. e.pre = "" /\ e.b \in DOMAIN Double /\ ParseOp(e) = "BETWEEN"
    BY <1>1, <1>4 DEF ParseOp
  <2>2. QED BY <2>1, <1>1, <1>4, NumbersAssumption DEF Compare, Says
<1>5. QED BY <1>3, <1>4

(* Whole numbers compare as they do in units.                               *)
LEMMA UnitsCompare ==
    ASSUME NEW op, NEW x \in Int, NEW n \in Int, NEW m,
           op = "BETWEEN" => m \in Int
    PROVE  Compare(op, x, n, m) <=> Compare(op, x * One, n * One, m * One)
<1>1. ASSUME NEW i \in Int, NEW j \in Int, i < j PROVE i * One < j * One
  <2>1. PICK d \in Nat : d > 0 /\ j = i + d
    <3>1. j - i \in Nat /\ j - i > 0 /\ j = i + (j - i)
      BY <1>1
    <3>2. QED BY <3>1
  <2>2. d * One > 0 /\ d * One \in Int /\ i * One \in Int
    BY <2>1, UnitsAssumption
  <2>3. j * One = i * One + d * One
    BY <2>1, UnitsAssumption
  <2>4. QED BY <2>2, <2>3
<1> DEFINE Alike(i, j) == /\ i * One \in Int /\ j * One \in Int
                          /\ i < j <=> i * One < j * One
                          /\ i = j <=> i * One = j * One
                          /\ j < i <=> j * One < i * One
<1>2. ASSUME NEW i \in Int, NEW j \in Int PROVE Alike(i, j)
  <2>1. i * One \in Int /\ j * One \in Int
    BY UnitsAssumption
  <2>2. i < j \/ i = j \/ j < i
    OBVIOUS
  <2>3. CASE i < j
    BY <2>1, <2>3, <1>1
  <2>4. CASE i = j
    BY <2>1, <2>4
  <2>5. CASE j < i
    BY <2>1, <2>5, <1>1
  <2>6. QED BY <2>2, <2>3, <2>4, <2>5
<1> HIDE DEF Alike
<1> DEFINE X == x * One
           N == n * One
           M == m * One
<1>3. Alike(x, n) /\ (op = "BETWEEN" => Alike(x, m))
  BY <1>2
<1>4. /\ X \in Int /\ N \in Int
      /\ x < n <=> X < N
      /\ x = n <=> X = N
      /\ n < x <=> N < X
  BY <1>3 DEF Alike
<1>5. op = "BETWEEN" => /\ M \in Int /\ m \in Int
                        /\ x < m <=> X < M
                        /\ x = m <=> X = M
  BY <1>3 DEF Alike
<1> HIDE DEF X, N, M
<1>6. Compare(op, x, n, m) <=> Compare(op, X, N, M)
  <2>1. (x > n <=> X > N) /\ (x >= n <=> X >= N) /\ (x <= n <=> X <= N)
        /\ (n <= x <=> N <= X)
    BY <1>4
  <2>2. ASSUME op = "BETWEEN" PROVE x <= m <=> X <= M
    BY <1>4, <1>5, <2>2
  <2>3. QED BY <1>4, <2>1, <2>2 DEF Compare
<1>7. QED BY <1>6 DEF X, N, M

(* A string that no operator fits says nothing of a number.                 *)
LEMMA StringSaysNothing ==
    ASSUME NEW e \in Option, NEW x \in Int, ParseOp(e) = "STR"
    PROVE  ~Says(e, x)
<1>1. \A p \in DOMAIN Ops : Ops[p] # "STR"
  BY DEF Ops
<1>2. DOMAIN Ops = {"", "=", ">", "<", ">=", "=>", "<=", "=<", "!=", "<>"}
  BY DEF Ops
<1>3. QED BY <1>1, <1>2, NumbersAssumption DEF ParseOp, Says

-----------------------------------------------------------------------------
(* Type correctness. *)

LEMMA SecondsType ==
    ASSUME NEW x \in Option, IsDate(x)
    PROVE  /\ Seconds(x) \in Option
           /\ Seconds(x).opt = x.opt /\ Seconds(x).pre = x.pre
           /\ Seconds(x).a = MkTime[x.a]
           /\ Seconds(x).b = IF x.pre = "" /\ x.b # "" THEN MkTime[x.b] ELSE ""
<1>1. MkTime[x.a] \in Str
  BY MkTimeAssumption, NumbersAssumption DEF IsDate
<1>2. CASE x.pre = "" /\ x.b # ""
  <2>1. MkTime[x.b] \in Str
    BY <1>2, MkTimeAssumption, NumbersAssumption DEF IsDate
  <2>2. QED BY <1>1, <1>2, <2>1 DEF Seconds, Option
<1>3. CASE ~(x.pre = "" /\ x.b # "")
  <2>1. "" \in Str
    BY NumbersAssumption
  <2>2. Seconds(x) = [x EXCEPT !.a = MkTime[x.a], !.b = ""]
    BY <1>3 DEF Seconds
  <2>3. QED BY <1>1, <1>3, <2>1, <2>2 DEF Option
<1>4. QED BY <1>2, <1>3

LEMMA NotNone == None \notin Option
  BY DEF None, Option, Single, AttrOpt, Quiet

LEMMA SelectedFinite ==
    /\ Selected \subseteq DOMAIN Index
    /\ IsFiniteSet(Selected)
    /\ Cardinality(Selected) \in 0 .. Cardinality(DOMAIN Index)
<1>1. Selected \subseteq DOMAIN Index
  BY DEF Selected, FattrOids
<1>2. QED BY <1>1, IndexAssumption, FS_Subset, FS_CardinalityType

LEMMA TypeInit == Init => TypeOK
<1>1. Cardinality(DOMAIN Index) \in Nat
  BY IndexAssumption, FS_CardinalityType
<1>2. QED BY <1>1 DEF Init, TypeOK, Set

LEMMA TypeStep == TypeOK /\ [Next]_vars => TypeOK'
<1> SUFFICES ASSUME TypeOK, [Next]_vars PROVE TypeOK'
  OBVIOUS
<1>0. ASSUME NEW x \in Options, Given(x) PROVE given' \in Seq(Options)
  <2>1. given \in Seq(Options) /\ given' = Append(given, x)
    BY <1>0 DEF TypeOK, Given
  <2>2. Append(given, x) \in Seq(Options)
    BY <2>1, AppendProperties
  <2>3. QED BY <2>1, <2>2
<1> USE DEF TypeOK
<1> USE OptionsAssumption, <1>0
<1>1. ASSUME NEW x \in Options, OptSet(x) PROVE TypeOK'
  <2>1. SlotOf(x.opt) \in Slot /\ x \in Option
    BY <1>1, SlotType DEF OptSet
  <2>2. \A s \in Slot : Set(s)' => val'[s].opt \in Single /\ SlotOf(val'[s].opt) = s
    BY <1>1, <2>1 DEF OptSet, Set
  <2>3. QED BY <1>1, <2>1, <2>2 DEF OptSet
<1>2. ASSUME NEW x \in Options, OptDate(x) PROVE TypeOK'
  <2>1. CASE IsDate(x)
    <3>1. Seconds(x) \in Option /\ Seconds(x).opt = "d"
      BY <1>2, <2>1, SecondsType DEF OptDate
    <3>2. SlotOf("d") = "st_mtime" /\ "st_mtime" \in Slot /\ "d" \in Single
      BY DEF SlotOf, Slot, Attr, Single
    <3>3. \A s \in Slot : Set(s)' => val'[s].opt \in Single /\ SlotOf(val'[s].opt) = s
      BY <1>2, <2>1, <3>1, <3>2 DEF OptDate, Set
    <3>4. QED BY <1>2, <2>1, <3>1, <3>2, <3>3 DEF OptDate
  <2>2. CASE ~IsDate(x)
    BY <1>2, <2>2 DEF OptDate, Set
  <2>3. QED BY <2>1, <2>2
<1>3. ASSUME NEW x \in Options, OptTag(x) PROVE TypeOK'
  BY <1>3 DEF OptTag, Set
<1>4. ASSUME NEW x \in Options, OptQuiet(x) PROVE TypeOK'
  BY <1>4 DEF OptQuiet, Set
<1>5. ASSUME NEW x \in Options, OptHelp(x) PROVE TypeOK'
  BY <1>5 DEF OptHelp, Set
<1>6. CASE Refuse
  BY <1>6 DEF Refuse, Set
<1>7. CASE Query
  BY <1>7, SelectedFinite DEF Query, Count, Set
<1>8. CASE Fail
  BY <1>8 DEF Fail, Set
<1>9. CASE UNCHANGED vars
  BY <1>9 DEF vars, Set
<1>10. QED
  BY <1>1, <1>2, <1>3, <1>4, <1>5, <1>6, <1>7, <1>8, <1>9 DEF Next

(* A static variable of hpssix-search holds an option of its own, whatever  *)
(* the command line.                                                        *)
THEOREM TypeCorrect == Spec => []TypeOK
  BY TypeInit, TypeStep, PTL DEF Spec

-----------------------------------------------------------------------------
(* The invariant: what the variables hold, in terms of the command line. *)

Stored(x) == IF x.opt = "d" THEN Seconds(x) ELSE x

ReadSoFar ==
    \A i \in DOMAIN given :
        /\ given[i].opt # "h"
        /\ given[i].opt = "d" => IsDate(given[i])
        /\ given[i].opt = "T" => given[i] \in tag_conds

Kept ==
    \A i \in DOMAIN given :
        (given[i].opt \in Single /\ InForce(i)) =>
            val[SlotOf(given[i].opt)] = Stored(given[i])

SetByOption ==
    \A s \in Slot : Set(s) =>
        \E i \in DOMAIN given :
            given[i].opt \in Single /\ InForce(i) /\ SlotOf(given[i].opt) = s

StaysSet ==
    \A i \in DOMAIN given : given[i].opt \in Single => Set(SlotOf(given[i].opt))

TagsGiven == \A c \in tag_conds : \E i \in DOMAIN given : given[i] = c

Answered ==
    /\ pc = "options" => printed = {}
    /\ pc = "done" =>
          /\ ~Refused
          /\ Set("countonly") => printed = {} /\ number = Cardinality(Selected)
          /\ ~Set("countonly") =>
                /\ printed \subseteq Selected
                /\ printed = Selected \/ (Limit # 0 /\ Cardinality(printed) = Limit)

SInv == /\ (pc # "exit" => ReadSoFar /\ Kept /\ SetByOption /\ StaysSet /\ TagsGiven)
        /\ Answered

LEMMA SInvInit == Init => SInv
  BY DEF Init, SInv, ReadSoFar, Kept, SetByOption, StaysSet, TagsGiven, Answered, Set

(* One more option.                                                         *)
LEMMA GivenMore ==
    ASSUME TypeOK, NEW x \in Options, Given(x)
    PROVE  /\ DOMAIN given' = DOMAIN given \cup {Len(given) + 1}
           /\ given'[Len(given) + 1] = x
           /\ \A k \in Nat : k = Len(given) + 1 => InForce(k)'
           /\ \A i \in DOMAIN given :
                 /\ given'[i] = given[i]
                 /\ InForce(i)' <=>
                      /\ InForce(i)
                      /\ (given[i].opt \in Single /\ x.opt \in Single) =>
                            SlotOf(x.opt) # SlotOf(given[i].opt)
<1>1. given \in Seq(Options) /\ given' = Append(given, x)
  BY DEF TypeOK, Given
<1>2. Len(given) \in Nat /\ DOMAIN given = 1 .. Len(given)
  BY <1>1
<1>3. Len(given') = Len(given) + 1 /\ DOMAIN given' = 1 .. Len(given) + 1
  BY <1>1
<1>4. given'[Len(given) + 1] = x /\ \A i \in 1 .. Len(given) : given'[i] = given[i]
  BY <1>1
<1>5. \A k \in Nat : k = Len(given) + 1 => InForce(k)'
  BY <1>2, <1>3 DEF InForce
<1>6. ASSUME NEW i \in DOMAIN given
      PROVE  InForce(i)' <=>
                /\ InForce(i)
                /\ (given[i].opt \in Single /\ x.opt \in Single) =>
                      SlotOf(x.opt) # SlotOf(given[i].opt)
  <2>1. i + 1 .. Len(given') = (i + 1 .. Len(given)) \cup {Len(given) + 1}
    BY <1>2, <1>3
  <2>2. \A j \in i + 1 .. Len(given) : j \in 1 .. Len(given)
    BY <1>2
  <2>3. QED BY <1>2, <1>4, <2>1, <2>2 DEF InForce
<1>7. QED BY <1>2, <1>3, <1>4, <1>5, <1>6

LEMMA SInvStep == TypeOK /\ SInv /\ [Next]_vars => SInv'
<1> SUFFICES ASSUME TypeOK, SInv, [Next]_vars PROVE SInv'
  OBVIOUS
<1>0. ASSUME NEW x \in Options, Given(x), UNCHANGED <<pc, printed, number>>,
             x.opt # "h", x.opt = "d" => IsDate(x),
             x.opt = "T" => tag_conds' = tag_conds \cup {x},
             x.opt # "T" => tag_conds' = tag_conds,
             x.opt \in Single => val' = [val EXCEPT ![SlotOf(x.opt)] = Stored(x)],
             x.opt \notin Single => val' = val
      PROVE  SInv'
  <2>1. /\ ReadSoFar /\ Kept /\ SetByOption /\ StaysSet /\ TagsGiven
        /\ pc = "options" /\ printed = {}
    BY <1>0 DEF SInv, Given, Answered
  <2>2. ReadSoFar'
    BY <1>0, <2>1, GivenMore DEF ReadSoFar
  <2>3. Kept'
    <3>1. ASSUME NEW i \in DOMAIN given, given'[i].opt \in Single, InForce(i)'
          PROVE  val'[SlotOf(given'[i].opt)] = Stored(given'[i])
      <4>1. /\ given'[i] = given[i] /\ InForce(i)
            /\ x.opt \in Single => SlotOf(x.opt) # SlotOf(given[i].opt)
        BY <1>0, <3>1, GivenMore
      <4>2. val[SlotOf(given[i].opt)] = Stored(given[i])
        BY <2>1, <3>1, <4>1 DEF Kept
      <4>3. SlotOf(given[i].opt) \in Slot
        BY <3>1, <4>1, SlotType
      <4>4. QED BY <1>0, <4>1, <4>2, <4>3 DEF TypeOK
    <3>2. ASSUME x.opt \in Single
          PROVE  val'[SlotOf(x.opt)] = Stored(x)
      BY <1>0, <3>2, SlotType DEF TypeOK
    <3>3. QED BY <1>0, <3>1, <3>2, GivenMore DEF Kept
  <2>4. SetByOption'
    <3>1. SUFFICES ASSUME NEW s \in Slot, Set(s)'
                   PROVE  \E i \in DOMAIN given' :
                            /\ given'[i].opt \in Single /\ InForce(i)'
                            /\ SlotOf(given'[i].opt) = s
      BY DEF SetByOption
    <3>2. CASE x.opt \in Single /\ SlotOf(x.opt) = s
      <4>0. given \in Seq(Options)
        BY DEF TypeOK
      <4>1. PICK k \in Nat : k = Len(given) + 1
        BY <4>0
      <4>2. k \in DOMAIN given' /\ given'[k] = x /\ InForce(k)'
        BY <1>0, <4>1, GivenMore
      <4>3. QED BY <3>2, <4>2
    <3>3. CASE ~(x.opt \in Single /\ SlotOf(x.opt) = s)
      <4>1. Set(s)
        BY <1>0, <3>1, <3>3 DEF Set, TypeOK
      <4>2. PICK i \in DOMAIN given :
                given[i].opt \in Single /\ InForce(i) /\ SlotOf(given[i].opt) = s
        BY <2>1, <4>1 DEF SetByOption
      <4>3. QED BY <1>0, <3>3, <4>2, GivenMore
    <3>4. QED BY <3>2, <3>3
  <2>5. TagsGiven'
    BY <1>0, <2>1, GivenMore DEF TagsGiven
  <2>6. StaysSet'
    <3>1. ASSUME x.opt \in Single PROVE Stored(x) # None
      <4>1. x \in Option
        BY OptionsAssumption
      <4>2. Stored(x) \in Option
        BY <1>0, <4>1, SecondsType DEF Stored
      <4>3. QED BY <4>2, NotNone
    <3>2. \A s \in Slot : Set(s) => Set(s)'
      BY <1>0, <3>1 DEF Set, TypeOK
    <3>3. x.opt \in Single => Set(SlotOf(x.opt))'
      BY <1>0, <3>1, SlotType DEF Set, TypeOK
    <3>4. \A i \in DOMAIN given : given[i].opt \in Single => Set(SlotOf(given[i].opt))'
      BY <1>0, <2>1, <3>2, SlotType, GivenMore DEF StaysSet
    <3>5. QED BY <1>0, <3>3, <3>4, GivenMore DEF StaysSet
  <2>7. QED BY <1>0, <2>1, <2>2, <2>3, <2>4, <2>5, <2>6 DEF SInv, Answered
<1>1. ASSUME NEW x \in Options, OptSet(x) PROVE SInv'
  BY <1>0, <1>1 DEF OptSet, Stored, Single, AttrOpt
<1>2. ASSUME NEW x \in Options, OptDate(x) PROVE SInv'
  <2>1. CASE IsDate(x)
    <3>1. SlotOf(x.opt) = "st_mtime" /\ x.opt \in Single /\ x.opt = "d"
      BY <1>2 DEF OptDate, SlotOf, Single
    <3>2. val' = [val EXCEPT ![SlotOf(x.opt)] = Stored(x)]
      BY <1>2, <2>1, <3>1 DEF OptDate, Stored
    <3>3. QED BY <1>0, <1>2, <2>1, <3>1, <3>2 DEF OptDate
  <2>2. CASE ~IsDate(x)
    BY <1>2, <2>2 DEF OptDate, SInv, Answered
  <2>3. QED BY <2>1, <2>2
<1>3. ASSUME NEW x \in Options, OptTag(x) PROVE SInv'
  <2>1. CASE x.tag # ""
    BY <1>0, <1>3, <2>1 DEF OptTag, Single, AttrOpt
  <2>2. CASE x.tag = ""
    BY <1>3, <2>2 DEF OptTag, SInv, Answered
  <2>3. QED BY <2>1, <2>2
<1>4. ASSUME NEW x \in Options, OptQuiet(x) PROVE SInv'
  BY <1>0, <1>4 DEF OptQuiet, Quiet, Single, AttrOpt
<1>5. ASSUME NEW x \in Options, OptHelp(x) PROVE SInv'
  BY <1>5 DEF OptHelp, SInv, Answered
<1>6. CASE Refuse
  BY <1>6 DEF Refuse, SInv, Answered
<1>7. CASE Fail
  BY <1>7 DEF Fail, SInv, Answered
<1>8. CASE Query
  <2>1. ReadSoFar' /\ Kept' /\ SetByOption' /\ StaysSet' /\ TagsGiven'
    BY <1>8 DEF Query, SInv, ReadSoFar, Kept, SetByOption, StaysSet, TagsGiven, InForce, Set
  <2>2. /\ Selected' = Selected /\ Refused' = Refused /\ Limit' = Limit
        /\ \A s \in Slot : Set(s)' = Set(s)
    BY <1>8 DEF Query, Selected, FattrOids, FileOids, TagOids, TsvOids, Refused,
                Limit, Set
  <2>3. Answered'
    BY <1>8, <2>2 DEF Query, Answered, Count, Slot, SInv
  <2>4. QED BY <2>1, <2>3 DEF SInv
<1>9. CASE UNCHANGED vars
  <2>1. (ReadSoFar /\ Kept /\ SetByOption /\ StaysSet /\ TagsGiven)' =
        (ReadSoFar /\ Kept /\ SetByOption /\ StaysSet /\ TagsGiven)
    BY <1>9 DEF vars, ReadSoFar, Kept, SetByOption, StaysSet, TagsGiven, InForce, Set
  <2>2. /\ Selected' = Selected /\ Refused' = Refused /\ Limit' = Limit
        /\ \A s \in Slot : Set(s)' = Set(s)
    BY <1>9 DEF vars, Selected, FattrOids, FileOids, TagOids, TsvOids, Refused,
                Limit, Set
  <2>3. Answered' = Answered
    BY <1>9, <2>2 DEF vars, Answered, Slot
  <2>4. QED BY <1>9, <2>1, <2>3 DEF SInv, vars
<1>10. QED
  BY <1>1, <1>2, <1>3, <1>4, <1>5, <1>6, <1>7, <1>8, <1>9 DEF Next

-----------------------------------------------------------------------------
(* From the statement to the command line. *)

(* The bits that -D and -F test, among the types that are in the index.     *)
LEMMA TypeBits ==
    ASSUME NEW o \in DOMAIN Index
    PROVE  /\ BitAnd(Index[o].attr["st_mode"], S_IFDIR) <=> TypeOf(o) = 4
           /\ BitAnd(Index[o].attr["st_mode"], S_IFREG) <=> TypeOf(o) \in {8, 10}
<1> DEFINE m == Index[o].attr["st_mode"]
<1>1. m \in Nat /\ (m \div 4096) % 16 \in {0, 4, 8, 10}
  BY IndexAssumption DEF Attr
<1> HIDE DEF m
<1>2. (m \div 16384) % 2 = 1 <=> (m \div 4096) % 16 = 4
  BY <1>1
<1>3. (m \div 32768) % 2 = 1 <=> (m \div 4096) % 16 \in {8, 10}
  BY <1>1
<1>4. QED BY <1>2, <1>3 DEF m, BitAnd, S_IFDIR, S_IFREG, TypeOf

(* A condition on tags is met by the row of its tag, if by any.             *)
LEMMA TagMeans ==
    ASSUME NEW o \in DOMAIN Index, NEW c \in Option, c.opt = "T",
           \A v \in {c.a, c.b} \cap DOMAIN Double : Lf(Double[v]) = Double[v]
    PROVE  /\ Means(o, c) <=> /\ c.tag \in DOMAIN Index[o].tags
                              /\ TagRow(c.tag, Index[o].tags[c.tag], c)
           /\ \A t \in DOMAIN Index[o].tags :
                 TagRow(t, Index[o].tags[t], c) => t = c.tag
<1> DEFINE sval == Index[o].tags[c.tag]
<1>1. Means(o, c) <=>
        /\ c.tag \in DOMAIN Index[o].tags
        /\ \/ sval \in DOMAIN Double /\ Says(c, Double[sval])
           \/ ParseOp(c) = "STR" /\ Like(sval, c)
  BY DEF Means, AttrOpt
<1>2. ASSUME sval \in DOMAIN Double, ParseOp(c) # "STR"
      PROVE  Compare(ParseOp(c), Double[sval], Lf(Double[c.a]), Lf(Double[c.b]))
                <=> Says(c, Double[sval])
  <2>1. c.a \in DOMAIN Double
    BY <1>2 DEF ParseOp
  <2>2. Lf(Double[c.a]) = Double[c.a]
    BY <2>1
  <2>3. c.b \in DOMAIN Double => Lf(Double[c.b]) = Double[c.b]
    OBVIOUS
  <2>4. QED BY <1>2, <2>2, <2>3, CompareSays, NumbersAssumption
<1>3. ASSUME sval \in DOMAIN Double, ParseOp(c) = "STR"
      PROVE  ~Says(c, Double[sval])
  BY <1>3, StringSaysNothing, NumbersAssumption
<1>4. QED BY <1>1, <1>2, <1>3 DEF TagRow

(* A condition on an attribute, as it is stored.                            *)
LEMMA AttrMeans ==
    ASSUME TypeOK, SInv, pc = "done", ReadAlike,
           NEW o \in DOMAIN Index, NEW i \in DOMAIN given,
           given[i].opt \in AttrOpt \cup {"d"}, InForce(i)
    PROVE  LET t == SlotOf(given[i].opt)
           IN  /\ t \in Attr /\ Set(t)
               /\ Compare(ParseOp(val[t]), Index[o].attr[t],
                          Ull[val[t].a], Ull[val[t].b]) <=> Means(o, given[i])
<1> DEFINE x == given[i]
           t == SlotOf(x.opt)
           e == Stored(x)
<1>1. x \in Option /\ x.opt \in Single /\ t \in Attr /\ t \in Slot
  <2>0. given \in Seq(Options)
    BY DEF TypeOK
  <2>1. x \in Options
    BY <2>0
  <2>2. SlotOf("d") = "st_mtime"
    BY DEF SlotOf
  <2>3. QED BY <2>1, <2>2, OptionsAssumption, SlotType DEF Single, Slot, Attr
<1>2. val[t] = e /\ (x.opt = "d" => IsDate(x))
  BY <1>1 DEF SInv, Kept, ReadSoFar
<1>3. e \in Option
  BY <1>1, <1>2, SecondsType DEF Stored
<1>4. Set(t) /\ ParseOp(e) # "STR"
  BY <1>1, <1>2, <1>3, NotNone DEF Set, SInv, Answered, Refused
<1>5. e.a \in DOMAIN Double
  BY <1>4 DEF ParseOp
<1>6. /\ Ull[e.a] * One = Double[e.a]
      /\ e.b \in DOMAIN Double => Ull[e.b] * One = Double[e.b]
  <2>1. CASE x.opt = "d"
    <3>1. e.a = MkTime[x.a] /\ x.a \in DOMAIN MkTime
      BY <1>1, <1>2, <2>1, SecondsType DEF Stored, IsDate
    <3>2. e.b \in DOMAIN Double => e.b = MkTime[x.b] /\ x.b \in DOMAIN MkTime
      <4>1. e.b = IF x.pre = "" /\ x.b # "" THEN MkTime[x.b] ELSE ""
        BY <1>1, <1>2, <2>1, SecondsType DEF Stored
      <4>2. QED BY <1>2, <2>1, <4>1, NumbersAssumption DEF IsDate
    <3>3. QED BY <3>1, <3>2, MkTimeAssumption
  <2>2. CASE x.opt \in AttrOpt
    BY <1>5, <2>2 DEF ReadAlike, Stored, AttrOpt
  <2>3. QED BY <2>1, <2>2
<1>7. Index[o].attr[t] \in Int /\ Index[o].attr[t] * One \in Int
  BY <1>1, IndexAssumption, UnitsAssumption
<1>8. Compare(ParseOp(e), Index[o].attr[t], Ull[e.a], Ull[e.b]) <=>
        Says(e, Index[o].attr[t] * One)
  <2>1. Ull[e.a] \in Int
    <3>1. Ull[e.a] \in Nat
      BY <1>5, NumbersAssumption, Zenon
    <3>2. QED BY <3>1
  <2>2. ParseOp(e) = "BETWEEN" => Ull[e.b] \in Int
    <3>1. \A p \in DOMAIN Ops : Ops[p] # "BETWEEN"
      BY DEF Ops
    <3>2. ParseOp(e) = "BETWEEN" => e.b \in DOMAIN Double
      BY <1>4, <3>1 DEF ParseOp
    <3>3. e.b \in DOMAIN Double => Ull[e.b] \in Nat
      BY NumbersAssumption, Zenon
    <3>4. QED BY <3>2, <3>3
  <2>3. Compare(ParseOp(e), Index[o].attr[t], Ull[e.a], Ull[e.b]) <=>
          Compare(ParseOp(e), Index[o].attr[t] * One, Ull[e.a] * One, Ull[e.b] * One)
    BY <1>7, <2>1, <2>2, UnitsCompare
  <2>4. QED BY <1>3, <1>4, <1>6, <1>7, <2>3, CompareSays
<1>9. Means(o, x) <=> Says(e, Index[o].attr[t] * One)
  <2>1. CASE x.opt = "d"
    <3>1. t = "st_mtime" /\ x.opt \notin AttrOpt
      BY <2>1 DEF SlotOf, AttrOpt
    <3>2. QED BY <1>2, <2>1, <3>1 DEF Means, Stored
  <2>2. CASE x.opt \in AttrOpt
    <3>1. x.opt # "d"
      BY <2>2 DEF AttrOpt
    <3>2. Means(o, x) = Says(x, Index[o].attr[SlotOf(x.opt)] * One)
      BY <2>2 DEF Means, AttrOpt
    <3>3. QED BY <3>1, <3>2 DEF Stored
  <2>3. QED BY <2>1, <2>2
<1>10. QED BY <1>1, <1>2, <1>4, <1>8, <1>9

(* A flag or a word is set when, and only when, its option was given.       *)
LEMMA SetIffGiven ==
    ASSUME TypeOK, SInv, pc = "done",
           NEW opt \in Single \ {"M", "d"}
    PROVE  /\ Set(SlotOf(opt)) <=> \E i \in DOMAIN given : given[i].opt = opt
           /\ Set(SlotOf(opt)) =>
                \E i \in DOMAIN given : given[i].opt = opt /\ InForce(i)
           /\ \A i \in DOMAIN given : (given[i].opt = opt /\ InForce(i)) =>
                val[SlotOf(opt)] = given[i]
<1>1. \A q \in Single : SlotOf(q) = SlotOf(opt) => q = opt
  BY DEF SlotOf, Single, AttrOpt
<1>2. SlotOf(opt) \in Slot /\ opt # "d"
  BY SlotType
<1>3. QED BY <1>1, <1>2 DEF SInv, SetByOption, StaysSet, Kept, Stored

LEMMA Slots ==
    /\ SlotOf("D") = "directory_only" /\ SlotOf("F") = "file_only"
    /\ SlotOf("r") = "removed" /\ SlotOf("c") = "countonly"
    /\ SlotOf("k") = "keyword" /\ SlotOf("n") = "name" /\ SlotOf("p") = "path"
    /\ {"D", "F", "r", "c", "k", "n", "p"} \subseteq Single \ {"M", "d"}
  BY DEF SlotOf, Single

(* The meaning of the options that are flags or words.                      *)
LEMMA WordMeans ==
    ASSUME NEW o, NEW x
    PROVE  /\ x.opt = "D" => (Means(o, x) <=> TypeOf(o) = 4)
           /\ x.opt = "F" => (Means(o, x) <=> TypeOf(o) = 8)
           /\ x.opt = "r" => (Means(o, x) <=> ~Index[o].valid)
           /\ x.opt = "k" => (Means(o, x) <=> x.a \in Index[o].words)
           /\ x.opt = "n" => (Means(o, x) <=> Like(Index[o].name, x))
           /\ x.opt = "p" => (Means(o, x) <=> Like(Index[o].path, x))
           /\ x.opt \in {"c", "l", "h"} \cup Quiet => Means(o, x)
  BY DEF Means, AttrOpt, Quiet

(* What the statement selects is wanted, or a link that --file-only finds.  *)
LEMMA SelectedIsWanted ==
    ASSUME TypeOK, SInv, pc = "done", ReadAlike, NEW o \in Selected
    PROVE  o \in Wanted \cup LinksToo
<1>0. /\ o \in DOMAIN Index /\ o \in FattrOids /\ o \in FileOids
      /\ (tag_conds # {} => o \in TagOids) /\ (Set("keyword") => o \in TsvOids)
      /\ given \in Seq(Options)
  BY DEF Selected, FattrOids, TypeOK
<1>1. Index[o].path # ""
  BY <1>0 DEF FileOids
<1>2. Index[o].valid = ~\E i \in DOMAIN given : given[i].opt = "r"
  <2>1. Index[o].valid = ~Set("removed")
    BY <1>0 DEF FattrOids
  <2>2. QED BY <2>1, Slots, SetIffGiven
<1>3. ASSUME NEW i \in DOMAIN given, InForce(i)
      PROVE  Means(o, given[i]) \/ (given[i].opt = "F" /\ TypeOf(o) = 10)
  <2> DEFINE x == given[i]
  <2>0. x \in Option
    <3>1. x \in Options
      BY <1>0
    <3>2. QED BY <3>1, OptionsAssumption
  <2>1. CASE x.opt \in AttrOpt \cup {"d"}
    BY <1>0, <1>3, <2>1, AttrMeans DEF FattrOids
  <2>2. CASE x.opt = "T"
    <3>1. x \in tag_conds
      BY <2>2 DEF SInv, ReadSoFar
    <3>2. PICK t \in DOMAIN Index[o].tags : TagRow(t, Index[o].tags[t], x)
      BY <1>0, <3>1 DEF TagOids
    <3>3. \A v \in {x.a, x.b} \cap DOMAIN Double : Lf(Double[v]) = Double[v]
      BY <2>2 DEF ReadAlike
    <3>4. QED BY <1>0, <2>0, <2>2, <3>2, <3>3, TagMeans
  <2>3. CASE x.opt \in {"D", "F", "r", "k", "n", "p"}
    <3>1. Set(SlotOf(x.opt)) /\ val[SlotOf(x.opt)] = x
      BY <1>3, <2>3, Slots, SetIffGiven
    <3>2. CASE x.opt = "D"
      BY <1>0, <3>1, <3>2, Slots, WordMeans, TypeBits DEF FattrOids
    <3>3. CASE x.opt = "F"
      BY <1>0, <3>1, <3>3, Slots, WordMeans, TypeBits DEF FattrOids
    <3>4. CASE x.opt = "r"
      BY <1>0, <3>1, <3>4, Slots, WordMeans DEF FattrOids
    <3>5. CASE x.opt = "k"
      BY <1>0, <3>1, <3>5, Slots, WordMeans DEF TsvOids
    <3>6. CASE x.opt = "n"
      BY <1>0, <3>1, <3>6, Slots, WordMeans DEF FileOids
    <3>7. CASE x.opt = "p"
      BY <1>0, <3>1, <3>7, Slots, WordMeans DEF FileOids
    <3>8. QED BY <2>3, <3>2, <3>3, <3>4, <3>5, <3>6, <3>7
  <2>4. CASE x.opt \in {"c", "l", "h"} \cup Quiet
    BY <2>4, WordMeans
  <2>5. QED BY <2>0, <2>1, <2>2, <2>3, <2>4 DEF Option, Single
<1>4. CASE TypeOf(o) = 10
  <2>1. o \in WantedBut({"F"})
    BY <1>0, <1>1, <1>2, <1>3 DEF WantedBut
  <2>2. QED BY <1>4, <2>1 DEF LinksToo
<1>5. CASE TypeOf(o) # 10
  BY <1>0, <1>1, <1>2, <1>3, <1>5 DEF Wanted, WantedBut
<1>6. QED BY <1>4, <1>5

(* All that is wanted is selected.                                          *)
LEMMA WantedIsSelected ==
    ASSUME TypeOK, SInv, pc = "done", ReadAlike, OneTag, NEW o \in Wanted
    PROVE  o \in Selected
<1>0. /\ o \in DOMAIN Index /\ Index[o].path # ""
      /\ Index[o].valid = ~\E i \in DOMAIN given : given[i].opt = "r"
      /\ \A i \in DOMAIN given : InForce(i) => Means(o, given[i])
  BY DEF Wanted, WantedBut
<1>1. ASSUME NEW opt \in {"D", "F", "k", "n", "p"}, Set(SlotOf(opt))
      PROVE  Means(o, val[SlotOf(opt)]) /\ val[SlotOf(opt)].opt = opt
  <2>1. opt \in Single \ {"M", "d"}
    BY <1>1, Slots
  <2>2. PICK i \in DOMAIN given : given[i].opt = opt /\ InForce(i)
    BY <1>1, <2>1, SetIffGiven
  <2>3. val[SlotOf(opt)] = given[i]
    BY <2>1, <2>2, SetIffGiven
  <2>4. QED BY <1>0, <2>2, <2>3
<1>2. o \in FattrOids
  <2>1. Index[o].valid = ~Set("removed")
    <3>1. Set("removed") <=> \E i \in DOMAIN given : given[i].opt = "r"
      BY Slots, SetIffGiven
    <3>2. QED BY <1>0, <3>1
  <2>2. ASSUME NEW t \in Attr, Set(t)
        PROVE  Compare(ParseOp(val[t]), Index[o].attr[t],
                       Ull[val[t].a], Ull[val[t].b])
    <3>1. PICK i \in DOMAIN given :
              given[i].opt \in Single /\ InForce(i) /\ SlotOf(given[i].opt) = t
      BY <2>2 DEF SInv, SetByOption, Slot
    <3>2. given[i].opt \in AttrOpt \cup {"d"}
      BY <3>1 DEF Single, SlotOf, Attr
    <3>3. QED BY <1>0, <3>1, <3>2, AttrMeans
  <2>3. Set("directory_only") => BitAnd(Index[o].attr["st_mode"], S_IFDIR)
    BY <1>0, <1>1, Slots, WordMeans, TypeBits
  <2>4. Set("file_only") => BitAnd(Index[o].attr["st_mode"], S_IFREG)
    BY <1>0, <1>1, Slots, WordMeans, TypeBits
  <2>5. QED BY <1>0, <2>1, <2>2, <2>3, <2>4 DEF FattrOids
<1>3. o \in FileOids
  BY <1>0, <1>1, Slots, WordMeans DEF FileOids
<1>4. ASSUME tag_conds # {} PROVE o \in TagOids
  <2>1. ASSUME NEW c \in tag_conds
        PROVE  /\ c.tag \in DOMAIN Index[o].tags
               /\ TagRow(c.tag, Index[o].tags[c.tag], c)
    <3>1. c \in Option /\ c.opt = "T"
      BY OptionsAssumption DEF TypeOK
    <3>2. PICK i \in DOMAIN given : given[i] = c
      BY DEF SInv, TagsGiven
    <3>3. InForce(i)
      BY <3>1, <3>2 DEF InForce, Single, AttrOpt
    <3>4. Means(o, c)
      BY <1>0, <3>2, <3>3
    <3>5. \A v \in {c.a, c.b} \cap DOMAIN Double : Lf(Double[v]) = Double[v]
      BY <3>1, <3>2 DEF ReadAlike
    <3>6. QED BY <1>0, <3>1, <3>4, <3>5, TagMeans
  <2>2. \A c, d \in tag_conds : c.tag = d.tag
    <3>1. \A c \in tag_conds : c.opt = "T" /\ \E i \in DOMAIN given : given[i] = c
      BY DEF TypeOK, SInv, TagsGiven
    <3>2. QED BY <3>1 DEF OneTag
  <2>3. PICK c \in tag_conds : TRUE
    BY <1>4
  <2>4. c.tag \in DOMAIN Index[o].tags
    BY <2>1
  <2>5. \A d \in tag_conds : TagRow(c.tag, Index[o].tags[c.tag], d)
    BY <2>1, <2>2
  <2>6. QED BY <1>0, <2>4, <2>5 DEF TagOids
<1>5. Set("keyword") => o \in TsvOids
  BY <1>0, <1>1, Slots, WordMeans DEF TsvOids
<1>6. QED BY <1>2, <1>3, <1>4, <1>5 DEF Selected

LEMMA SInvAlways == Spec => [](TypeOK /\ SInv)
<1>1. Init => TypeOK /\ SInv
  BY TypeInit, SInvInit
<1>2. TypeOK /\ SInv /\ [Next]_vars => TypeOK' /\ SInv'
  BY TypeStep, SInvStep
<1>3. QED BY <1>1, <1>2, PTL DEF Spec

(* Whatever the options and the index, hpssix-search prints only what meets *)
(* every option in force, and with --file-only symbolic links that meet the *)
(* others, when each number on the command line is read in one way.         *)
THEOREM PrintedAreWanted == Spec => []FindsOnlyWanted
<1>1. TypeOK /\ SInv => FindsOnlyWanted
  <2> SUFFICES ASSUME TypeOK, SInv, pc = "done", ReadAlike
               PROVE  printed \subseteq Wanted \cup LinksToo
    BY DEF FindsOnlyWanted
  <2>1. printed \subseteq Selected
    BY DEF SInv, Answered
  <2>2. QED BY <2>1, SelectedIsWanted
<1>2. QED BY <1>1, SInvAlways, PTL

(* Whatever the options and the index, nothing that meets all options is    *)
(* left out or not counted, when one tag is asked for and each number on    *)
(* the command line is read in one way.                                     *)
THEOREM WantedAreFound == Spec => []FindsAllWanted
<1>1. TypeOK /\ SInv => FindsAllWanted
  <2> SUFFICES ASSUME TypeOK, SInv, pc = "done", ReadAlike, OneTag
               PROVE  IF \E i \in DOMAIN given : given[i].opt = "c"
                      THEN number \in Cardinality(Wanted) ..
                                      Cardinality(Wanted \cup LinksToo)
                      ELSE \/ Wanted \subseteq printed
                           \/ Limit # 0 /\ Cardinality(printed) = Limit
    BY DEF FindsAllWanted
  <2>1. Wanted \subseteq Selected /\ Selected \subseteq Wanted \cup LinksToo
    BY SelectedIsWanted, WantedIsSelected
  <2>2. Set("countonly") <=> \E i \in DOMAIN given : given[i].opt = "c"
    BY Slots, SetIffGiven
  <2>3. Cardinality(Selected) \in Cardinality(Wanted) ..
                                  Cardinality(Wanted \cup LinksToo)
    <3>1. Wanted \cup LinksToo \subseteq DOMAIN Index
      BY DEF Wanted, WantedBut, LinksToo
    <3>2. IsFiniteSet(Wanted \cup LinksToo)
      BY <3>1, IndexAssumption, FS_Subset
    <3>3. /\ IsFiniteSet(Selected)
          /\ Cardinality(Selected) <= Cardinality(Wanted \cup LinksToo)
      BY <2>1, <3>2, FS_Subset
    <3>4. IsFiniteSet(Wanted) /\ Cardinality(Wanted) <= Cardinality(Selected)
      BY <2>1, <3>3, FS_Subset
    <3>5. QED BY <3>2, <3>3, <3>4, FS_CardinalityType
  <2>4. QED BY <2>1, <2>2, <2>3 DEF SInv, Answered
<1>2. QED BY <1>1, SInvAlways, PTL
=============================================================================
