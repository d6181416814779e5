------------------------------- MODULE Search -------------------------------
(***************************************************************************)
(* hpssix-search: the options of a command line are read one after the     *)
(* other into static variables, put together to one SQL statement, and the *)
(* objects it selects are printed.  The index is a constant, since one     *)
(* statement sees one state of it.                                         *)
(*                                                                         *)
(* A string is opaque.  An argument is split where parse_op splits it, into *)
(* operator characters, a first part and, after a comma, a second one; ""  *)
(* where there is none.                                                    *)
(*                                                                         *)
(* A number that may have a fraction is counted in a unit that divides the *)
(* last decimal place of every number at hand.                             *)
(***************************************************************************)
EXTENDS Integers, FiniteSets, Sequences

CONSTANTS
    Index,       \* object -> valid, attr, tags, words, name, path
    Options,     \* the options that a command line may have
    MaxOptions,  \* bound: how many it has
    Str,         \* the strings there are, "" among them
    One,         \* how many units 1 has
    Micro,       \* how many of them the last place has that %lf prints
    Double,      \* strings that are finite numbers, as sscanf reads them with
                 \* %lf, in units
    Ull,         \* the same and others, as strtoull reads them in base 0
    MkTime,      \* strings that are dates since 1970, as numbers of seconds
    Parts        \* string -> arguments that it is LIKE

Attr == {"oid", "st_mode", "st_uid", "st_gid", "st_size",
         "st_atime", "st_mtime", "st_ctime"}

(* The variable that an option is stored in.                                *)
SlotOf(opt) ==
    CASE opt = "i" -> "oid"       [] opt = "m" -> "st_mode"
      [] opt = "u" -> "st_uid"    [] opt = "g" -> "st_gid"
      [] opt = "s" -> "st_size"   [] opt = "A" -> "st_atime"
      [] opt = "C" -> "st_ctime"  [] opt \in {"M", "d"} -> "st_mtime"
      [] opt = "D" -> "directory_only"
      [] opt = "F" -> "file_only" [] opt = "r" -> "removed"
      [] opt = "c" -> "countonly" [] opt = "k" -> "keyword"
      [] opt = "l" -> "limit"     [] opt = "n" -> "name"
      [] opt = "p" -> "path"
AttrOpt == {"i", "m", "u", "g", "s", "A", "M", "C"}
Single  == AttrOpt \cup {"d", "D", "F", "r", "c", "k", "l", "n", "p"}
Slot    == Attr \cup {"directory_only", "file_only", "removed", "countonly",
                      "keyword", "limit", "name", "path"}

(* They change how results are printed, or nothing at all: an argument that *)
(* is no option is stepped over.                                            *)
Quiet   == {"I", "V", "t", "v", "operand"}
None    == [opt |-> "none", tag |-> "", pre |-> "", a |-> "", b |-> ""]

Option  == [opt : Single \cup Quiet \cup {"T", "h"},
            tag : Str, pre : Str, a : Str, b : Str]

ASSUME IndexAssumption ==
    /\ IsFiniteSet(DOMAIN Index)
    /\ \A o \in DOMAIN Index :
          /\ Index[o].valid \in BOOLEAN
          /\ \A t \in Attr : Index[o].attr[t] \in Nat
          /\ (Index[o].attr["st_mode"] \div 4096) % 16 \in {0, 4, 8, 10}
ASSUME OptionsAssumption    == Options \subseteq Option
ASSUME MaxOptionsAssumption == MaxOptions \in Nat
ASSUME UnitsAssumption      == One \in Nat \ {0} /\ Micro \in Nat \ {0}
ASSUME NumbersAssumption    ==
    /\ DOMAIN Double \subseteq DOMAIN Ull
    /\ "" \in Str /\ DOMAIN Ull \subseteq Str \ {""}
    /\ \A x \in DOMAIN Double : Double[x] \in Int
    /\ \A x \in DOMAIN Ull : Ull[x] \in Nat
ASSUME MkTimeAssumption     ==
    \A x \in DOMAIN MkTime :
        MkTime[x] \in DOMAIN Double /\ Double[MkTime[x]] = Ull[MkTime[x]] * One

VARIABLES
    pc,        \* "options", "done" or "exit"
    val,       \* the static variables, as the option each was set from
    tag_conds, \* the conditions on tags
    printed,   \* the objects printed
    number,    \* the number that --count-only prints
    given      \* history: the options, in order

vars == <<pc, val, tag_conds, printed, number, given>>

Init ==
    /\ pc = "options"
    /\ val = [s \in Slot |-> None]
    /\ tag_conds = {}
    /\ printed = {} /\ number = 0
    /\ given = <<>>

-----------------------------------------------------------------------------
(* parse_op: every other string is left for LIKE. *)

(* Printed by %lf, to the nearest number of six decimal places.             *)
Lf(n) == ((2 * n + Micro) \div (2 * Micro)) * Micro

Ops == [p \in {"", "=", ">", "<", ">=", "=>", "<=", "=<", "!=", "<>"} |->
            CASE p \in {"", "="}     -> "EQ"
              [] p = ">"             -> "GT"
              [] p = "<"             -> "LT"
              [] p \in {">=", "=>"}  -> "GE"
              [] p \in {"<=", "=<"}  -> "LE"
              [] p \in {"!=", "<>"}  -> "NE"]

ParseOp(e) ==
    IF e.a \notin DOMAIN Double \/ e.pre \notin DOMAIN Ops THEN "STR"
    ELSE IF e.b = "" THEN Ops[e.pre]
    ELSE IF e.pre = "" /\ e.b \in DOMAIN Double THEN "BETWEEN"
    ELSE "STR"

(* The predicate of an operator in SQL.                                     *)
Compare(op, x, v1, v2) ==
    \/ op = "EQ" /\ x = v1
    \/ op = "GT" /\ x > v1
    \/ op = "GE" /\ x >= v1
    \/ op = "LT" /\ x < v1
    \/ op = "LE" /\ x <= v1
    \/ op = "NE" /\ x # v1
    \/ op = "BETWEEN" /\ v1 <= x /\ x <= v2

(* st_mode & v > 0, v a single bit.                                         *)
BitAnd(mode, v) == (mode \div v) % 2 = 1
S_IFDIR == 16384
S_IFREG == 32768

(* LIKE '%%...%%'.                                                          *)
Like(str, e) == <<e.pre, e.a, e.b>> \in Parts[str]

-----------------------------------------------------------------------------
(* main: the getopt loop. *)

Given(x) == pc = "options" /\ Len(given) < MaxOptions /\ given' = Append(given, x)

OptSet(x) ==
    /\ Given(x)
    /\ x.opt \in Single \ {"d"}
    /\ val' = [val EXCEPT ![SlotOf(x.opt)] = x]
    /\ UNCHANGED <<pc, tag_conds, printed, number>>

(* parse_datetime: two dates or one; behind an operator of one or two       *)
(* characters the second is not looked at.                                  *)
IsDate(x) ==
    /\ x.a \in DOMAIN MkTime
    /\ x.pre = "" => (x.b = "" \/ x.b \in DOMAIN MkTime)
Seconds(x) ==
    [x EXCEPT !.a = MkTime[x.a],
              !.b = IF x.pre = "" /\ x.b # "" THEN MkTime[x.b] ELSE ""]

OptDate(x) ==
    /\ Given(x)
    /\ x.opt = "d"
    /\ IF IsDate(x)
       THEN val' = [val EXCEPT !["st_mtime"] = Seconds(x)] /\ UNCHANGED pc
       ELSE pc' = "exit" /\ UNCHANGED val
    /\ UNCHANGED <<tag_conds, printed, number>>

(* Mutant: an argument without a colon is a condition on no tag.            *)
OptTagNoColon(x) ==
    /\ Given(x)
    /\ x.opt = "T"
    /\ tag_conds' = tag_conds \cup {x}
    /\ UNCHANGED <<pc, val, printed, number>>

(* add_tag_cond: without a colon there is no tag.                           *)
OptTag(x) ==
    /\ Given(x)
    /\ x.opt = "T"
    /\ IF x.tag # ""
       THEN tag_conds' = tag_conds \cup {x} /\ UNCHANGED pc
       ELSE pc' = "exit" /\ UNCHANGED tag_conds
    /\ UNCHANGED <<val, printed, number>>

OptQuiet(x) ==
    /\ Given(x)
    /\ x.opt \in Quiet
    /\ UNCHANGED <<pc, val, tag_conds, printed, number>>

OptHelp(x) ==
    /\ Given(x)
    /\ x.opt = "h"
    /\ pc' = "exit"
    /\ UNCHANGED <<val, tag_conds, printed, number>>

-----------------------------------------------------------------------------
(* main, after the options. *)

Set(s) == val[s] # None

(* fattr_get_sql ends the program for an argument that is no number and for *)
(* -D or -F with -m; -D and -F together are refused later.                  *)
Refused ==
    \/ \E t \in Attr : Set(t) /\ ParseOp(val[t]) = "STR"
    \/ (Set("directory_only") \/ Set("file_only")) /\ Set("st_mode")
    \/ Set("directory_only") /\ Set("file_only")

Refuse ==
    /\ pc = "options"
    /\ given = <<>> \/ Refused
    /\ pc' = "exit"
    /\ UNCHANGED <<val, tag_conds, printed, number, given>>

(* fattr_oids: get_sql_fattr.                                               *)
FattrOids ==
    {o \in DOMAIN Index :
        /\ Index[o].valid = ~Set("removed")
        /\ \A t \in Attr : Set(t) =>
              Compare(ParseOp(val[t]), Index[o].attr[t],
                      Ull[val[t].a], Ull[val[t].b])
        /\ Set("directory_only") => BitAnd(Index[o].attr["st_mode"], S_IFDIR)
        /\ Set("file_only") => BitAnd(Index[o].attr["st_mode"], S_IFREG)}

(* One row of hpssix_attr_val, a tag's name and value, against a condition. *)
(* rval is there when the value is a number; the condition's numbers are    *)
(* printed into the statement.  BETWEEN's sprintf has a surplus argument in *)
(* front of its two numbers, a pointer; where floating-point arguments are  *)
(* passed in registers of their own, as on x86-64, the numbers are the ones *)
(* that are printed, which is assumed here.                                 *)
TagRow(t, sval, c) ==
    /\ t = c.tag
    /\ \/ ParseOp(c) = "STR" /\ Like(sval, c)
       \/ /\ ParseOp(c) # "STR"
          /\ sval \in DOMAIN Double
          /\ Compare(ParseOp(c), Double[sval], Lf(Double[c.a]), Lf(Double[c.b]))

(* Mutant: conditions are joined with OR.                                   *)
TagOidsAny ==
    {o \in DOMAIN Index :
        \E t \in DOMAIN Index[o].tags :
            \E c \in tag_conds : TagRow(t, Index[o].tags[t], c)}

(* tag_oids: get_sql_tag puts all conditions on one row.                    *)
TagOids ==
    {o \in DOMAIN Index :
        \E t \in DOMAIN Index[o].tags :
            \A c \in tag_conds : TagRow(t, Index[o].tags[t], c)}

(* tsv_oids, and the rows of hpssix_file with get_file_predicate.           *)
TsvOids == {o \in DOMAIN Index : val["keyword"].a \in Index[o].words}
FileOids ==
    {o \in DOMAIN Index :
        /\ Index[o].path # ""
        /\ Set("name") => Like(Index[o].name, val["name"])
        /\ Set("path") => Like(Index[o].path, val["path"])}

(* The NATURAL JOIN.                                                        *)
Selected ==
    {o \in FattrOids \cap FileOids :
        /\ tag_conds # {} => o \in TagOids
        /\ Set("keyword") => o \in TsvOids}

(* strtoull of a string that is no number is 0, and 0 stands for no limit.  *)
Limit ==
    IF Set("limit") /\ val["limit"].a \in DOMAIN Ull THEN Ull[val["limit"].a]
    ELSE 0

(* Mutant: the limit is one for the count, too.                             *)
CountLimited ==
    IF Limit # 0 /\ Cardinality(Selected) > Limit THEN Limit
    ELSE Cardinality(Selected)

(* SELECT COUNT(f.path): LIMIT is for the rows of the result, of which a    *)
(* count is one.                                                            *)
Count == Cardinality(Selected)

(* A count is not grouped by the column that keywords are ranked by, and    *)
(* PostgreSQL refuses to order by it.                                       *)
Orderable == ~(Set("countonly") /\ Set("keyword"))

(* The query and print_result.                                              *)
Query ==
    /\ pc = "options"
    /\ given # <<>> /\ ~Refused /\ Orderable
    /\ pc' = "done"
    /\ IF Set("countonly")
       THEN number' = Count /\ UNCHANGED printed
       ELSE /\ printed' \in SUBSET Selected
            /\ IF Limit = 0 THEN printed' = Selected
               ELSE \/ printed' = Selected /\ Cardinality(Selected) <= Limit
                    \/ Cardinality(printed') = Limit
            /\ UNCHANGED number
    /\ UNCHANGED <<val, tag_conds, given>>

(* No configuration, no connection, or the query failed.                    *)
Fail ==
    /\ pc = "options"
    /\ given # <<>> /\ ~Refused
    /\ pc' = "exit"
    /\ UNCHANGED <<val, tag_conds, printed, number, given>>

-----------------------------------------------------------------------------
Next ==
    \/ \E x \in Options : OptSet(x) \/ OptDate(x) \/ OptTag(x) \/ OptQuiet(x)
                          \/ OptHelp(x)
    \/ Refuse \/ Query \/ Fail

Spec == Init /\ [][Next]_vars

-----------------------------------------------------------------------------
(* Type invariant: a variable holds an option of its own, and a condition   *)
(* on tags has a tag.                                                       *)
TypeOK ==
    /\ pc \in {"options", "done", "exit"}
    /\ val \in [Slot -> Option \cup {None}]
    /\ \A s \in Slot : Set(s) =>
          val[s].opt \in Single /\ SlotOf(val[s].opt) = s
    /\ tag_conds \subseteq {x \in Options : x.opt = "T" /\ x.tag # ""}
    /\ printed \subseteq DOMAIN Index
    /\ number \in 0 .. Cardinality(DOMAIN Index)
    /\ given \in Seq(Options)

-----------------------------------------------------------------------------
(* What an option says of an object, in the words of the usage text; first  *)
(* what an expression says of a number, in units.                           *)

Says(e, x) ==
    \/ /\ e.b = "" /\ e.a \in DOMAIN Double
       /\ \/ x = Double[e.a] /\ e.pre \in {"", "=", ">=", "=>", "<=", "=<"}
          \/ x > Double[e.a] /\ e.pre \in {">", ">=", "=>", "!=", "<>"}
          \/ x < Double[e.a] /\ e.pre \in {"<", "<=", "=<", "!=", "<>"}
    \/ /\ e.b \in DOMAIN Double /\ e.a \in DOMAIN Double /\ e.pre = ""
       /\ Double[e.a] <= x /\ x <= Double[e.b]

(* The type bits: 4 of a directory, 8 of a regular file, 10 of a symbolic   *)
(* link.                                                                    *)
TypeOf(o) == (Index[o].attr["st_mode"] \div 4096) % 16

Means(o, x) ==
    CASE x.opt \in AttrOpt ->
            Says(x, Index[o].attr[SlotOf(x.opt)] * One)
      [] x.opt = "d" ->
            IsDate(x) /\ Says(Seconds(x), Index[o].attr["st_mtime"] * One)
      [] x.opt = "T" ->
            /\ x.tag \in DOMAIN Index[o].tags
            /\ \/ /\ Index[o].tags[x.tag] \in DOMAIN Double
                  /\ Says(x, Double[Index[o].tags[x.tag]])
               \/ ParseOp(x) = "STR" /\ Like(Index[o].tags[x.tag], x)
      [] x.opt = "D" -> TypeOf(o) = 4
      [] x.opt = "F" -> TypeOf(o) = 8
      [] x.opt = "r" -> ~Index[o].valid
      [] x.opt = "k" -> x.a \in Index[o].words
      [] x.opt = "n" -> Like(Index[o].name, x)
      [] x.opt = "p" -> Like(Index[o].path, x)
      [] OTHER -> TRUE

(* Options are in force up to the next one for the same variable.           *)
InForce(i) ==
    \A j \in i + 1 .. Len(given) :
        (given[i].opt \in Single /\ given[j].opt \in Single) =>
            SlotOf(given[j].opt) # SlotOf(given[i].opt)

WantedBut(opts) ==
    {o \in DOMAIN Index :
        /\ Index[o].path # ""
        /\ Index[o].valid = ~\E i \in DOMAIN given : given[i].opt = "r"
        /\ \A i \in DOMAIN given :
              (InForce(i) /\ given[i].opt \notin opts) => Means(o, given[i])}
Wanted == WantedBut({})

(* Symbolic links that meet every option but --file-only.                   *)
LinksToo == {o \in WantedBut({"F"}) : TypeOf(o) = 10}

(* An attribute's number is recognised by %lf and then read by strtoull:    *)
(* 010 is 10 to one and 8 to the other, 8.5 is 8 to the other.  A tag's is  *)
(* printed with six decimal places.                                         *)
ReadAlike ==
    \A i \in DOMAIN given :
        \A v \in {given[i].a, given[i].b} \cap DOMAIN Double :
            /\ given[i].opt \in AttrOpt => Double[v] = Ull[v] * One
            /\ given[i].opt = "T" => Lf(Double[v]) = Double[v]

(* What hpssix-search prints meets every option of the command line that    *)
(* was not replaced by a later one, in whatever order and number they came: *)
(* none is dropped on its way through the static variables, the operators   *)
(* and the joins.  There are two exceptions.  --file-only, "Search only     *)
(* regular files" in the usage text, tests a bit that symbolic links have   *)
(* as well, and finds those that meet the other options (LinksToo).  And a  *)
(* number may be read in two ways, or have more than six decimal places     *)
(* (ReadAlike).                                                             *)
FindsOnlyWanted == (pc = "done" /\ ReadAlike) => printed \subseteq Wanted \cup LinksToo

(* Nothing that meets all options is left out, up to the limit, and a count *)
(* counts all of it whatever the limit; symbolic links may be counted with  *)
(* --file-only (LinksToo).  The exceptions are ReadAlike and conditions on  *)
(* two tags, which no row of hpssix_attr_val meets (OneTag).                *)
OneTag ==
    \A i, j \in DOMAIN given :
        (given[i].opt = "T" /\ given[j].opt = "T") => given[i].tag = given[j].tag
FindsAllWanted ==
    (pc = "done" /\ ReadAlike /\ OneTag) =>
        IF \E i \in DOMAIN given : given[i].opt = "c"
        THEN number \in Cardinality(Wanted) .. Cardinality(Wanted \cup LinksToo)
        ELSE Wanted \subseteq printed \/ (Limit # 0 /\ Cardinality(printed) = Limit)
=============================================================================
