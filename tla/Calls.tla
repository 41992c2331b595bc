------------------------------- MODULE Calls --------------------------------
(***************************************************************************)
(* The functions that process() calls, one call per behaviour.  The daemon *)
(* has one thread, so no two of these calls overlap: "call" says which one *)
(* is made, and the variables of the others rest.  The one component that  *)
(* is extended has its own program counter; the others share "at", and     *)
(* further variables where they use the same name.                         *)
(***************************************************************************)
EXTENDS ConfigSearch

CONSTANTS
  MaxRows, MaxPlaces, RowLimit, AclLimit, RowSize, MaxSpace,  \* Statement
  Texts, Given,                                               \* SqlText
  Versions, Length, BlockSize, MaxFile,                       \* JsonFile
  Sheets, Queries, Lists, LastRow, LastCol,                   \* ExportXls
  Rows, PageTables, PageTexts, SizeTexts, MaxCalls,           \* SelectPages
  RuleDepth, RuleLists,                                       \* RuleWhere
  MaxFetched, MaxWork, Steps, Schema,                         \* JsonRefs
  Absent   \* a member the request does not have

(* A row that is exported has a line end at least.                         *)
ASSUME StatementAssumption ==
  /\ MaxRows \in Nat /\ MaxPlaces \in Nat /\ MaxSpace \in Nat
  /\ RowLimit \in Nat /\ AclLimit \in Nat
  /\ RowSize \in Nat \ {0}

(* The scanner tells four kinds of characters apart.                       *)
ASSUME TextAssumption == Texts \subseteq Seq({"'", ":", "a", " "})

(* An object's text has a unit at least, the buffer may be of any size.    *)
ASSUME FileAssumption ==
  /\ Versions # {} /\ Versions \cap {"NULL", "none"} = {}
  /\ Length \in [Versions -> Nat \ {0}]
  /\ BlockSize \in Nat /\ MaxFile \in Nat

(* The parameters are what atoi makes of texts: any integers.              *)
ASSUME ExportAssumption ==
  /\ Lists \subseteq Seq(Queries)
  /\ \A query \in Queries : {query.row, query.col, query.width} \subseteq Int
  /\ LastRow \in Nat /\ LastCol \in Nat

ASSUME PagesAssumption ==
  /\ PageTables \subseteq Seq(Rows)
  /\ PageTexts \subseteq Int \cup {Absent} /\ SizeTexts \subseteq Int \cup {Absent}
  /\ Absent \notin Int
  /\ MaxCalls \in Nat

VARIABLES
  call,                                                 \* the function
  at, count, ret, file, total, rows,                    \* shared
  kind, given, places, stmt, bound, rownum, kept, space, res, err, failed,
  s, idx, sqlbuf,
  obj, fd, mem, pos, got, rc, loaded,
  list, book, cells, q, n, named,
  table, page, size, calls, readTo,
  rules, buf,
  heap, request, response, work, abandoned

shared == <<at, count, ret, file, total, rows>>
statement == <<kind, given, places, stmt, bound, rownum, kept, space, res, err, failed>>
scan == <<s, idx, sqlbuf>>
jsonFile == <<obj, fd, mem, pos, got, rc, loaded>>
export == <<list, book, cells, q, n, named>>
pages == <<table, page, size, calls, readTo>>
text == <<rules, buf>>
refs == <<heap, request, response, work, abandoned>>
callsVars == <<vars, call, shared, statement, scan, jsonFile, export, pages, text, refs>>

Sql == INSTANCE Statement WITH pc <- at
Scan == INSTANCE SqlText WITH pc <- at
File == INSTANCE JsonFile WITH pc <- at
Xls == INSTANCE ExportXls WITH pc <- at, url <- named
Pages == INSTANCE SelectPages WITH pc <- at, Tables <- PageTables, NULL <- Absent
Where == INSTANCE RuleWhere WITH Depth <- RuleDepth, Lists <- RuleLists
Refs == INSTANCE JsonRefs WITH pc <- at

ASSUME RuleAssumption == RuleDepth \in Nat /\ RuleLists \subseteq Where!Nested[RuleDepth]

ASSUME ObjectsAssumption ==
  /\ MaxFetched \in Nat /\ MaxWork \in Nat
  /\ Refs!KindsInOrder /\ Refs!StepsAgree

-----------------------------------------------------------------------------
(* One call                                                                *)

Rests == "rests"
NoSearch == /\ g_fun_config = <<>> /\ url = 1 /\ pc = "done" /\ l = 0 /\ u = 0
            /\ config = -1 /\ config_len = 0
NoStatement == /\ kind = Rests /\ given = Rests /\ places = Rests /\ stmt = Rests
               /\ bound = Rests /\ rownum = Rests /\ kept = Rests /\ space = Rests
               /\ res = Rests /\ err = Rests /\ failed = Rests
NoScan == s = Rests /\ idx = Rests /\ sqlbuf = Rests
NoFile == /\ obj = Rests /\ fd = Rests /\ mem = Rests /\ pos = Rests /\ got = Rests
          /\ rc = Rests /\ loaded = Rests
NoExport == /\ list = Rests /\ book = Rests /\ cells = Rests /\ q = Rests
            /\ n = Rests /\ named = Rests
NoPages == table = Rests /\ page = Rests /\ size = Rests /\ calls = Rests /\ readTo = Rests
NoText == rules = Rests /\ buf = Rests
NoRefs == /\ heap = Rests /\ request = Rests /\ response = Rests
          /\ work = Rests /\ abandoned = Rests

CallsInit ==
  \/ /\ call = "search_fun_config_min" /\ Init
     /\ NoStatement /\ NoScan /\ NoFile /\ NoExport /\ NoPages /\ NoText /\ NoRefs
     /\ at = Rests /\ count = Rests /\ ret = Rests /\ file = Rests
     /\ total = Rests /\ rows = Rests
  \/ /\ call = "sql_execute" /\ Sql!Init
     /\ NoSearch /\ NoScan /\ NoFile /\ NoExport /\ NoPages /\ NoText /\ NoRefs
     /\ ret = Rests /\ file = Rests /\ rows = Rests
  \/ /\ call = "gen_sql" /\ Scan!Init
     /\ NoSearch /\ NoStatement /\ NoFile /\ NoExport /\ NoPages /\ NoText /\ NoRefs
     /\ file = Rests /\ total = Rests /\ rows = Rests
  \/ /\ call = "json_util_object" /\ File!Init
     /\ NoSearch /\ NoStatement /\ NoScan /\ NoExport /\ NoPages /\ NoText /\ NoRefs
     /\ count = Rests /\ ret = Rests /\ total = Rests /\ rows = Rests
  \/ /\ call = "module_export_xls" /\ Xls!Init
     /\ NoSearch /\ NoStatement /\ NoScan /\ NoFile /\ NoPages /\ NoText /\ NoRefs
     /\ count = Rests /\ total = Rests
  \/ /\ call = "module_select_page" /\ Pages!Init
     /\ NoSearch /\ NoStatement /\ NoScan /\ NoFile /\ NoExport /\ NoText /\ NoRefs
     /\ count = Rests /\ file = Rests
  \/ /\ call = "gen_group_where" /\ Where!Init
     /\ NoSearch /\ NoStatement /\ NoScan /\ NoFile /\ NoExport /\ NoPages /\ NoRefs
     /\ at = Rests /\ count = Rests /\ ret = Rests /\ file = Rests
     /\ total = Rests /\ rows = Rests
  \/ /\ call = "process" /\ Refs!Init
     /\ NoSearch /\ NoStatement /\ NoScan /\ NoFile /\ NoExport /\ NoPages /\ NoText
     /\ count = Rests /\ ret = Rests /\ file = Rests /\ total = Rests /\ rows = Rests

CallsNext ==
  \/ /\ call = "search_fun_config_min" /\ Next
     /\ UNCHANGED <<call, shared, statement, scan, jsonFile, export, pages, text, refs>>
  \/ /\ call = "sql_execute" /\ Sql!Next
     /\ UNCHANGED <<call, vars, ret, file, rows, scan, jsonFile, export, pages, text, refs>>
  \/ /\ call = "gen_sql" /\ Scan!Next
     /\ UNCHANGED <<call, vars, file, total, rows, statement, jsonFile, export, pages, text, refs>>
  \/ /\ call = "json_util_object" /\ File!Next
     /\ UNCHANGED <<call, vars, count, ret, total, rows, statement, scan, export, pages, text, refs>>
  \/ /\ call = "module_export_xls" /\ Xls!Next
     /\ UNCHANGED <<call, vars, count, total, statement, scan, jsonFile, pages, text, refs>>
  \/ /\ call = "module_select_page" /\ Pages!Next
     /\ UNCHANGED <<call, vars, count, file, statement, scan, jsonFile, export, text, refs>>
  \/ /\ call = "gen_group_where" /\ Where!Next
     /\ UNCHANGED <<call, vars, shared, statement, scan, jsonFile, export, pages, refs>>
  \/ /\ call = "process" /\ Refs!Next
     /\ UNCHANGED <<call, vars, count, ret, file, total, rows>>
     /\ UNCHANGED <<statement, scan, jsonFile, export, pages, text>>

CallsSpec == CallsInit /\ [][CallsNext]_callsVars

(* The loops of the search, the scan and of a saving or loading go on.     *)
CallsFairness ==
  /\ WF_vars(Next)
  /\ WF_<<at, count, ret, scan>>(Scan!Next)
  /\ File!Fairness

-----------------------------------------------------------------------------
(* What the instances promise, each while its call is made                 *)

(* Every variable of the call at hand has its type.                        *)
CallTypes ==
  /\ call = "search_fun_config_min" => TypeOK
  /\ call = "sql_execute" => Sql!TypeOK
  /\ call = "gen_sql" => Scan!TypeOK
  /\ call = "json_util_object" => File!TypeOK
  /\ call = "module_export_xls" => Xls!TypeOK
  /\ call = "module_select_page" => Pages!TypeOK
  /\ call = "gen_group_where" => Where!TypeOK
  /\ call = "process" => Refs!TypeOK

(* sql_execute returns -1 exactly when something failed, and frees; any    *)
(* other result stands for every row, up to the handler's limit.           *)
ResultTells ==
  call = "sql_execute" => Sql!ResultTells /\ Sql!NothingMissing /\ Sql!WithinLimit
(* Every placeholder has its own value when the statement is executed.     *)
AllBound == call = "sql_execute" => Sql!AllBound

(* gen_sql refuses exactly the malformed texts; in the others the n-th     *)
(* placeholder has become the n-th value, and the rest is kept.            *)
ValuesInPlace == call = "gen_sql" => Scan!RefusedIffMalformed /\ Scan!ValuesInPlace

(* to_file returns 0 only when the file is the object's whole text, and    *)
(* every way out closes the file and frees the buffers.                    *)
SavedIsWhole == call = "json_util_object" => File!SavedIsWhole /\ File!NothingHeld
(* from_file never takes parts of two savings for an object.               *)
LoadedIsWhole == File!LoadedIsWhole

(* An export that returns 0 leaves every row of every query in its place,  *)
(* one that fails neither a half book nor an older one, and both release   *)
(* the book.                                                               *)
WholeBookOrNone ==
  call = "module_export_xls" => Xls!BookComplete /\ Xls!NoHalfBook /\ Xls!BookReleased

(* Pages asked for in turn put the table together.                         *)
PagesJoin == call = "module_select_page" => Pages!PagesJoin

(* A condition has every part of its rule, and can be read exactly when    *)
(* the rule is clean.                                                      *)
ReadableIffClean == call = "gen_group_where" => Where!ReadableIffClean /\ Where!NothingLost

(* The count of each json object is the number of those that hold it, and  *)
(* nobody holds an object that has been freed.                             *)
CountsExact == call = "process" => Refs!CountsExact /\ Refs!NoDangling
(* A cycle that got its job list leaves no object behind.                  *)
CycleReleases == call = "process" => Refs!CycleReleases
(* Nothing is ever added to an object of the wrong kind.                   *)
KindsRespected == call = "process" => Refs!KindsRespected

(* The search, the scan, a saving and a loading end, for every table,      *)
(* every text and every file.                                              *)
CallsReturn ==
  /\ call = "search_fun_config_min" => Ends
  /\ call = "gen_sql" => Scan!Ends
  /\ call = "json_util_object" => File!Returns
=============================================================================
