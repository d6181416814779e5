------------------------------ MODULE MCSearch ------------------------------
(* An index with one object of each sort that the options tell apart, and   *)
(* for each option the arguments that parse_op tells apart.  The unit is a  *)
(* hundredth, and %lf prints one decimal place instead of six.              *)
EXTENDS Search, TLC

(* strtoull wraps negative numbers, here below a smaller bound than 2^64.   *)
MaxUll   == 100000

MCStr    == {"", "8", "10", "010", "8.5", "8.51", "-8", "1x", "x", "w", "d8", "d10", "draft", "/a",
             "/b", "t", "u", "=", ">", "<", ">=", "=>", "<=", "!=", "!"}
MCDouble == "8" :> 8 * One @@ "10" :> 10 * One @@ "010" :> 10 * One
            @@ "8.5" :> 8 * One + One \div 2 @@ "-8" :> -8 * One
            @@ "8.51" :> 8 * One + One \div 2 + 1
MCUll    == "8" :> 8 @@ "10" :> 10 @@ "010" :> 8 @@ "8.5" :> 8 @@ "1x" :> 1
            @@ "-8" :> MaxUll - 8 @@ "8.51" :> 8
MCMkTime == "d8" :> "8" @@ "d10" :> "10"

Word(w)  == <<"", w, "">>
MCParts  == [str \in {"8", "9", "10", "8.5", "draft", "/a", "/b"} |->
                {Word(""), Word(str)}]

NoTags == [t \in {} |-> ""]
Row(mode, n, tags) ==
    [valid |-> TRUE, attr |-> [t \in Attr |-> IF t = "st_mode" THEN mode ELSE n],
     tags |-> tags, words |-> {}, name |-> "/a", path |-> "/a"]

File      == 32768
Directory == 16384
Link      == 40960

MCIndex ==
    [o \in 1 .. 9 |->
        CASE o = 1 -> Row(File, 8, "t" :> "8")
          [] o = 2 -> Row(File, 9, "t" :> "8.5" @@ "u" :> "10")
          [] o = 3 -> Row(File, 10, "t" :> "draft")
          [] o = 4 -> Row(Directory, 10, "u" :> "10")
          [] o = 5 -> Row(Link, 10, NoTags)
          [] o = 6 -> [Row(File, 8, "t" :> "10") EXCEPT !.valid = FALSE]
          [] o = 7 -> [Row(File, 9, "t" :> "8") EXCEPT !.words = {"w"}, !.path = "/b"]
          [] o = 8 -> [Row(File, 10, "t" :> "10") EXCEPT !.name = "/b"]
          [] o = 9 -> [Row(File, 8, NoTags) EXCEPT !.path = ""]]

Opt(o)           == [opt |-> o, tag |-> "", pre |-> "", a |-> "", b |-> ""]
Arg(o, p, x, y)  == [Opt(o) EXCEPT !.pre = p, !.a = x, !.b = y]
Tag(t, p, x, y)  == [Arg("T", p, x, y) EXCEPT !.tag = t]

MCOptions ==
    {Opt(o) : o \in {"D", "F", "r", "c", "I", "operand", "h"}}
    \cup {Arg("s", p, "10", "") : p \in {"", ">", "<", "=>", "<=", "!=", "!"}}
    \cup {Arg("u", p, "8", y) : p \in {"", ">"}, y \in {"10", "x"}}
    \cup {Arg("s", "<", x, "") : x \in {"8.5", "-8"}}
    \cup {Arg("M", "", "010", ""), Arg("M", "=", "8", ""), Arg("m", "", "8", "")}
    \cup {Arg("d", p, x, y) : p \in {"", ">="}, x \in {"d8", "x"}, y \in {"", "d10"}}
    \cup {Arg("l", "", "1x", ""), Arg("l", "", "x", ""), Arg("k", "", "w", ""),
          Arg("n", "", "/a", ""), Arg("p", "", "/b", "")}
    \cup {Tag("t", "", "", ""), Tag("t", "", "8", "10"), Tag("t", ">", "8", ""),
          Tag("t", ">=", "8.5", ""), Tag("t", "", "-8", "8.51"),
          Tag("u", "", "10", ""), Tag("t", "", "draft", ""), Tag("", "", "8", "")}
=============================================================================
