---------------------------- MODULE SelectPages ----------------------------
(***************************************************************************)
(* A list read page by page with module_select_page.                       *)
(*                                                                         *)
(* A call asks for a page of a size, both members of the request, runs the *)
(* configured statement once to count its rows and once with a window over *)
(* their numbers, and adds the rows to the response's array, which keeps   *)
(* what earlier calls of the cycle have added.  The two statements see the *)
(* table as each finds it.  The window's four places are bound to page,    *)
(* size, page, size.                                                       *)
(***************************************************************************)
EXTENDS Integers, Sequences

CONSTANTS
  Rows,       \* what a table can have
  Tables,     \* what the statement yields: sequences of rows, in order
  PageTexts,  \* what "page" is in the request, as a number, or NULL
  SizeTexts,  \* the same of "rows"
  NULL,       \* no member
  MaxCalls    \* bound: calls of a cycle

VARIABLES
  table,    \* the rows the statement yields now
  pc,       \* idle, total, rows
  page, size,
  total,    \* the member of the response that the count's handler sets, or NULL
  rows,     \* the array in the response
  ret,      \* of the last call
  calls,
  readTo    \* history: rows asked for by pages 1, 2, ... of one size, or -1

vars == <<table, pc, page, size, total, rows, ret, calls, readTo>>

TypeOK ==
  /\ table \in Tables
  /\ pc \in {"idle", "total", "rows"}
  /\ page \in Nat \ {0} /\ size \in Nat \ {0}
  /\ total \in Nat \cup {NULL}
  /\ rows \in Seq(Rows)
  /\ ret \in {0, -1} /\ calls \in 0..MaxCalls
  /\ readTo \in Int

Init ==
  /\ table \in Tables
  /\ pc = "idle" /\ page = 1 /\ size = 10 /\ total = NULL
  /\ rows = <<>> /\ ret = 0 /\ calls = 0
  /\ readTo = 0

-----------------------------------------------------------------------------
(* A text that is missing has a default, and one that is no positive       *)
(* number too.                                                             *)
Number(text, default) == IF text = NULL \/ text <= 0 THEN default ELSE text
Ask ==
  /\ pc = "idle" /\ calls < MaxCalls
  /\ \E p \in PageTexts, z \in SizeTexts :
        /\ page' = Number(p, 1) /\ size' = Number(z, 10)
        /\ readTo' = IF readTo = (page' - 1) * size' THEN readTo ELSE -1
  /\ calls' = calls + 1
  /\ pc' = "total"
  /\ UNCHANGED <<table, total, rows, ret>>

(* The statement cannot be generated, or its count fails.                  *)
CountFails ==
  /\ pc = "total"
  /\ ret' = -1 /\ readTo' = -1 /\ pc' = "idle"
  /\ UNCHANGED <<table, page, size, total, rows, calls>>

(* Without " from " in the text the call ends at once, and with 0.         *)
NoFrom ==
  /\ pc = "total"
  /\ ret' = 0 /\ readTo' = -1 /\ pc' = "idle"
  /\ UNCHANGED <<table, page, size, total, rows, calls>>

Count ==
  /\ pc = "total"
  /\ total' = Len(table)
  /\ pc' = "rows"
  /\ UNCHANGED <<table, page, size, rows, ret, calls, readTo>>

(* rn <= page*size and rn > (page-1)*size, rn being a row's number.        *)
Lesser(m, n) == IF m < n THEN m ELSE n
OneTooEarly == IF page = 1 THEN 0 ELSE (page - 1) * size - 1
Before == (page - 1) * size
InPage == SubSeq(table, Before + 1, Lesser(page * size, Len(table)))
(* select_fetch_rows_handler: no more rows than the size.                  *)
Limit(k) == Lesser(k, size)
Window == SubSeq(InPage, 1, Limit(Len(InPage)))
Fetch ==
  /\ pc = "rows"
  /\ rows' = rows \o Window
  /\ readTo' = IF readTo = -1 THEN -1 ELSE page * size
  /\ ret' = 0 /\ pc' = "idle"
  /\ UNCHANGED <<table, page, size, total, calls>>

(* The second statement fails, after any of the rows: they stay.           *)
FetchFails ==
  /\ pc = "rows"
  /\ \E k \in 0..Len(Window) : rows' = rows \o SubSeq(Window, 1, k)
  /\ ret' = -1 /\ readTo' = -1 /\ pc' = "idle"
  /\ UNCHANGED <<table, page, size, total, calls>>

(* Another session commits a change.                                       *)
Change ==
  /\ \E t \in Tables \ {table} : table' = t
  /\ readTo' = -1
  /\ UNCHANGED <<pc, page, size, total, rows, ret, calls>>

(* The cycle has no more pages to ask for.                                 *)
Done == pc = "idle" /\ calls = MaxCalls /\ UNCHANGED vars

Next == Ask \/ CountFails \/ NoFrom \/ Count \/ Fetch \/ FetchFails \/ Change \/ Done

Spec == Init /\ [][Next]_vars

-----------------------------------------------------------------------------
(* Properties                                                              *)

(* Pages asked for in turn, of one size or of sizes that fit together, of  *)
(* a table nobody changes, put the table together: no row is missing or    *)
(* there twice at a boundary, and the total says where it ends.            *)
PagesJoin ==
  pc = "idle" /\ readTo > 0 =>
    /\ rows = SubSeq(table, 1, Lesser(readTo, Len(table)))
    /\ total = Len(table)

-----------------------------------------------------------------------------
(* Why                                                                     *)

(* While pages are asked for in turn, the array is the table up to where   *)
(* they have got, the next page begins there, and the total was taken of   *)
(* this table.                                                             *)
InTurn ==
  readTo # -1 =>
    /\ readTo \in Nat
    /\ rows = SubSeq(table, 1, Lesser(readTo, Len(table)))
    /\ pc # "idle" => readTo = Before
    /\ pc = "rows" \/ (pc = "idle" /\ readTo > 0) => total = Len(table)

PagesInv == TypeOK /\ InTurn
=============================================================================
