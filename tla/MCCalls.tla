------------------------------ MODULE MCCalls -------------------------------
(***************************************************************************)
(* Calls, with the values TLC checks it for.                               *)
(***************************************************************************)
EXTENDS Calls

-----------------------------------------------------------------------------
(* The values                                                              *)

(* Sorted tables of up to five rows over three urls.                       *)
MCUrls == 1..3
MCTables == UNION {{t \in [1..k -> MCUrls] : Sorted(t)} : k \in 0..5}

(* Every text of up to six characters; the second value is missing.        *)
MCTexts == UNION {[1..k -> {"'", ":", "a", " "}] : k \in 0..6}
MCGiven == {0, 2}

(* Objects shorter than the buffer, as long, and one unit too long.        *)
MCLength == [v \in {"short", "fits", "long"} |->
               CASE v = "short" -> 2 [] v = "fits" -> 3 [] OTHER -> 4]
MCVersions == DOMAIN MCLength

(* One or two queries: below each other, overlapping by rows or columns,   *)
(* on another sheet, on a missing one, and over a sheet's edges.           *)
MCSheets == {0, 1}
Query(sheet, row, col, width) == [sheet |-> sheet, row |-> row, col |-> col, width |-> width]
MCQueries == {Query(0, 0, 0, 1), Query(0, 1, 0, 2), Query(0, 3, 1, 2),
              Query(1, -1, 0, 1), Query(2, 0, 0, 1)}
MCLists == UNION {[1..k -> MCQueries] : k \in 1..2}

(* Two calls on tables that lose rows at either end or get one in front;   *)
(* pages from the first to behind the last, texts that are missing or 0.   *)
MCRows == {"a", "b", "c", "x"}
MCPageTables == {<<>>, <<"a">>, <<"a", "b", "c">>, <<"b", "c">>, <<"x", "a", "b", "c">>}
MCPageTexts == {0, 1, 2, 3, Absent}
MCSizeTexts == {0, 1, 2, Absent}

(* Rules of up to three entries, each a condition, an unknown tag or a     *)
(* group of up to two entries, which may be groups of one once more.       *)
Leaf == {[tag |-> t, rules |-> <<>>] : t \in {"none", "rule", "other"}}
UpTo(k, S) == UNION {[1..j -> S] : j \in 0..k}
GroupsOf(k, S) == {[tag |-> "group", rules |-> r] : r \in UpTo(k, S)}
MCRules == UpTo(3, Leaf \cup GroupsOf(2, Leaf)) \cup UpTo(2, GroupsOf(2, GroupsOf(1, Leaf)))

(* Steps that make lists, rows and shared members in both objects and work *)
(* on each other's results, and that agree on the kind of each member.     *)
Selects ==
  LET Select(module, input, to, key) ==
        [module |-> module, input |-> input, to |-> to, key |-> key]
  IN  {Select("select_list", "", "request", "rows"),
       Select("select_one", "", "response", "data"),
       Select("select_page", "", "response", "page"),
       Select("batch_select_one", "rows", "request", ""),
       Select("batch_select_list", "rows", "request", "list"),
       Select("batch_select_column_list", "rows", "response", "cols"),
       Select("callproc", "", "", "id"),
       Select("batch_callproc", "rows", "", "out"),
       Select("batch_callproc", "names", "", "names"),
       Select("add", "", "", "flag")}
Shares ==
  LET Share(module, from, to, key, new) ==
        [module |-> module, input |-> "", from |-> from, to |-> to, key |-> key, newkey |-> new]
  IN  {Share("copy", <<"request">>, <<"response">>, "rows", "list"),
       Share("copy", <<"response">>, <<"request">>, "cols", "names"),
       Share("copy", <<"response", "data">>, <<"request", "more">>, "col", "id"),
       Share("batch_copy", <<"request">>, <<"request", "rows">>, "id", "id")}
MCSteps == Selects \cup Shares

(* The kinds of these steps' members; a wrapped name is in "wrapper".      *)
MCSchema ==
  LET Kind(type, depth, parts) == [type |-> type, depth |-> depth, parts |-> parts]
  IN  [request  |-> Kind("object", 0,
                      [rows |-> "rows", names |-> "names", more |-> "more", id |-> "text",
                       settle_date |-> "text", success |-> "text", flag |-> "text"]),
       response |-> Kind("object", 0,
                      [data |-> "more", list |-> "rows", page |-> "rows", cols |-> "names",
                       total |-> "text"]),
       more     |-> Kind("object", 1, [id |-> "text", col |-> "text"]),
       rows     |-> Kind("array", 1, [each |-> "row"]),
       row      |-> Kind("object", 2,
                      [col |-> "text", id |-> "text", out |-> "text", list |-> "lines"]),
       lines    |-> Kind("array", 3, [each |-> "line"]),
       line     |-> Kind("object", 4, [col |-> "text"]),
       names    |-> Kind("array", 1, [each |-> "text"]),
       wrapper  |-> Kind("object", 1, [names |-> "text"]),
       text     |-> Kind("string", 5, <<>>)]

MCSpec == CallsSpec /\ CallsFairness
=============================================================================
