--------------------------- MODULE MCBuilderTool ----------------------------
(* Objects of every sort that the filter tells apart, in an index that has  *)
(* none, some or all of them.                                               *)
EXTENDS BuilderTool

K(r, s, e) == [reg |-> r, size |-> s, ext |-> e]
MCKinds ==
    {K(TRUE, 1, "doc"), K(TRUE, 2, "doc"), K(TRUE, 1, "d"), K(TRUE, 1, NoExt),
     K(TRUE, 0, "doc"), K(FALSE, 1, "doc")}
MCBegins == {<<"d", "doc">>, <<"", "doc">>}

Old(S) == [o \in S |-> "old"]
MCIndices ==
    {Empty,
     [object |-> Old({1}), invalid |-> {}, file |-> Old({1}), attr_val |-> Old({1})],
     [object |-> Old(Oid), invalid |-> {1}, file |-> Old(Oid), attr_val |-> Old({})]}
=============================================================================
