----------------------------- MODULE ExportXls -----------------------------
(***************************************************************************)
(* One call of module_export_xls: a workbook filled from several queries.  *)
(*                                                                         *)
(* The file is created, and so cut, before anything else; a book is loaded *)
(* from the template, each query's rows are written to its sheet from its  *)
(* first cell on, and the book is saved over the file.  The book library   *)
(* is prebuilt: a write outside the sheet is refused, and the code does    *)
(* not look at that result.  A cell is <<sheet, row, column>>.             *)
(***************************************************************************)
EXTENDS Integers, Sequences

CONSTANTS
  Sheets,    \* the template's sheets, by index
  Queries,   \* [sheet, row, col, width], as the parameter list gives them
  Lists,     \* parameter lists: sequences of queries
  MaxRows,   \* bound: rows a query returns
  LastRow,   \* the last row a sheet has
  LastCol    \* its last column

VARIABLES
  list,   \* the queries of this call
  rows,   \* how many rows each of them has
  pc,     \* create, load, sheet, fill, save, release, done
  file,   \* older, empty, cut, or the cells of a saved book
  book,   \* none, open, released
  cells,  \* the open book: who wrote each cell last, <<query, row>>
  q, n,   \* the query at hand, and its rows written
  ret,
  url     \* the member "url" was added to the response

vars == <<list, rows, pc, file, book, cells, q, n, ret, url>>

Template == [c \in {} |-> 0]   \* no cell but the template's own

TypeOK ==
  /\ list \in Lists /\ rows \in [DOMAIN list -> 0..MaxRows]
  /\ pc \in {"create", "load", "sheet", "fill", "save", "release", "done"}
  /\ file = [is |-> "book", cells |-> cells] \/ file.is \in {"older", "empty", "cut"}
  /\ book \in {"none", "open", "released"}
  /\ DOMAIN cells \subseteq Sheets \X (0..LastRow) \X (0..LastCol)
  /\ \A c \in DOMAIN cells : cells[c] \in (DOMAIN list) \X (1..MaxRows)
  /\ q \in 1..Len(list) + 1 /\ n \in 0..MaxRows
  /\ ret \in {0, -1} /\ url \in BOOLEAN

Init ==
  /\ list \in Lists /\ rows \in [DOMAIN list -> 0..MaxRows]
  /\ pc = "create" /\ file = [is |-> "older"]
  /\ book = "none" /\ cells = Template
  /\ q = 1 /\ n = 0 /\ ret = 0 /\ url = FALSE

-----------------------------------------------------------------------------
(* create_file, with its directory; the descriptor is closed at once.      *)
Truncated == [is |-> "empty"]
CreateFile ==
  /\ pc = "create"
  /\ file' = Truncated /\ pc' = "load"
  /\ UNCHANGED <<list, rows, book, cells, q, n, ret, url>>

CreateFails ==
  /\ pc = "create"
  /\ ret' = -1 /\ pc' = "done"
  /\ UNCHANGED <<list, rows, file, book, cells, q, n, url>>

Load ==
  /\ pc = "load"
  /\ book' = "open" /\ pc' = "sheet"
  /\ UNCHANGED <<list, rows, file, cells, q, n, ret, url>>

(* No book, or one that does not load: only the second is released.        *)
LoadFails ==
  /\ pc = "load"
  /\ \E b \in {"none", "open"} : book' = b
  /\ ret' = -1 /\ pc' = "release"
  /\ UNCHANGED <<list, rows, file, cells, q, n, url>>

(* The loop over the queries, up to the first error.                       *)
GetSheet ==
  /\ pc = "sheet" /\ ret = 0 /\ q <= Len(list)
  /\ list[q].sheet \in Sheets
  /\ pc' = "fill" /\ n' = 0
  /\ UNCHANGED <<list, rows, file, book, cells, q, ret, url>>

NoSheet ==
  /\ pc = "sheet" /\ ret = 0 /\ q <= Len(list)
  /\ list[q].sheet \notin Sheets
  /\ ret' = -1 /\ q' = q + 1
  /\ UNCHANGED <<list, rows, pc, file, book, cells, n, url>>

(* select_fetch_export_xls_handler: row k goes to row - 1 + k, and into as *)
(* many columns as the query has.                                          *)
OneRowLower(query, k) == query.row + k
RowOf(query, k) == query.row + k - 1
InSheet(c) == c[2] \in 0..LastRow /\ c[3] \in 0..LastCol
CellsOf(query, k) ==
  {c \in {query.sheet} \X {RowOf(query, k)} \X (query.col..query.col + query.width - 1) :
     InSheet(c)}
FetchRow ==
  /\ pc = "fill" /\ n < rows[q]
  /\ LET new == CellsOf(list[q], n + 1)
     IN  cells' = [c \in DOMAIN cells \cup new |->
                     IF c \in new THEN <<q, n + 1>> ELSE cells[c]]
  /\ n' = n + 1
  /\ UNCHANGED <<list, rows, pc, file, book, q, ret, url>>

FetchEnds ==
  /\ pc = "fill" /\ n = rows[q]
  /\ q' = q + 1 /\ pc' = "sheet"
  /\ UNCHANGED <<list, rows, file, book, cells, n, ret, url>>

(* generate_sql fails, or sql_execute does after some of the rows.         *)
SqlFails ==
  /\ pc = "fill"
  /\ ret' = -1 /\ q' = q + 1 /\ pc' = "sheet"
  /\ UNCHANGED <<list, rows, file, book, cells, n, url>>

LoopEnds ==
  /\ pc = "sheet" /\ (ret # 0 \/ q > Len(list))
  /\ pc' = "save"
  /\ UNCHANGED <<list, rows, file, book, cells, q, n, ret, url>>

(* Saved only when every query has been.                                   *)
Always == TRUE
MaySave == ret = 0
Save ==
  /\ pc = "save" /\ MaySave
  /\ file' = [is |-> "book", cells |-> cells]
  /\ url' = TRUE /\ pc' = "release"
  /\ UNCHANGED <<list, rows, book, cells, q, n, ret>>

SaveFails ==
  /\ pc = "save" /\ MaySave
  /\ \E is \in {"empty", "cut"} : file' = [is |-> is]
  /\ ret' = -1 /\ pc' = "release"
  /\ UNCHANGED <<list, rows, book, cells, q, n, url>>

NotSaved ==
  /\ pc = "save" /\ ~MaySave
  /\ pc' = "release"
  /\ UNCHANGED <<list, rows, file, book, cells, q, n, ret, url>>

OnlyWhenSaved == IF ret = 0 THEN "released" ELSE book
Released == IF book # "none" THEN "released" ELSE book
Release ==
  /\ pc = "release"
  /\ book' = Released /\ pc' = "done"
  /\ UNCHANGED <<list, rows, file, cells, q, n, ret, url>>

(* module_export_xls has returned, or the process is gone.                 *)
Done == pc = "done" /\ UNCHANGED vars

(* stop.sh, in the middle of the saving too; the restarted daemon runs the *)
(* job, and this step, again.                                              *)
Killed ==
  /\ pc # "create"
  /\ pc' = "create" /\ book' = "none" /\ cells' = Template
  /\ q' = 1 /\ n' = 0 /\ ret' = 0 /\ url' = FALSE
  /\ \/ file' = IF file.is = "book" THEN [is |-> "older"] ELSE file
     \/ pc = "save" /\ MaySave /\ file' = [is |-> "cut"]
  /\ UNCHANGED <<list, rows>>

Next == \/ CreateFile \/ CreateFails \/ Load \/ LoadFails \/ GetSheet \/ NoSheet
        \/ FetchRow \/ FetchEnds \/ SqlFails \/ LoopEnds \/ Save \/ SaveFails
        \/ NotSaved \/ Release \/ Killed \/ Done

Spec == Init /\ [][Next]_vars

-----------------------------------------------------------------------------
(* Properties                                                              *)

(* Who a cell of the finished book belongs to: the last of the queries     *)
(* that has a row there.                                                   *)
Claims(c) ==
  {e \in UNION {{j} \X (1..rows[j]) : j \in DOMAIN list} :
     LET query == list[e[1]]
     IN  /\ c[1] = query.sheet
         /\ c[2] = query.row + e[2] - 1
         /\ c[3] \in query.col..query.col + query.width - 1}
Covered == UNION {{<<list[j].sheet, list[j].row + k - 1, list[j].col + w>> :
                     k \in 1..rows[j], w \in 0..list[j].width - 1} : j \in DOMAIN list}

(* A return of 0 leaves the template with every row of every query in its  *)
(* place, a later query over an earlier one, and the response names it.    *)
(* Only what lies outside the sheet is missing, which nobody is told.      *)
BookComplete ==
  pc = "done" /\ ret = 0 =>
    /\ file.is = "book" /\ url
    /\ DOMAIN file.cells = {c \in Covered : InSheet(c)}
    /\ \A c \in DOMAIN file.cells :
         /\ file.cells[c] \in Claims(c)
         /\ \A e \in Claims(c) : e[1] <= file.cells[c][1]

(* A failed call leaves no book: neither one with some of the queries, nor *)
(* an older one once the file was created, which a later upload would take *)
(* for this job's; and the response does not name it.                      *)
NoHalfBook ==
  /\ pc = "done" /\ ret # 0 => file.is # "book" /\ ~url
  /\ pc \notin {"create", "done"} => file.is # "older"

(* Whatever fails, a book that was created is released by the end of the   *)
(* call: the daemon makes one for every job.                               *)
BookReleased == pc = "done" => book # "open"

-----------------------------------------------------------------------------
(* Why                                                                     *)

(* What each step finds.                                                   *)
BookSteps ==
  /\ pc \in {"create", "load"} => /\ book = "none" /\ cells = Template
                                 /\ q = 1 /\ ret = 0
  /\ pc \in {"sheet", "fill", "save"} => book = "open"
  /\ pc = "done" => book # "open"
  /\ pc = "create" => file.is # "book"
  /\ pc \in {"load", "sheet", "fill", "save"} => file.is = "empty"
  /\ pc \notin {"release", "done"} => ~url
  /\ pc = "fill" => ret = 0 /\ q <= Len(list) /\ list[q].sheet \in Sheets /\ n <= rows[q]
  /\ pc = "save" /\ ret = 0 => q = Len(list) + 1
  /\ pc \in {"release", "done"} /\ ret = 0 =>
       file = [is |-> "book", cells |-> cells] /\ url /\ q = Len(list) + 1
  /\ pc \in {"release", "done"} /\ ret # 0 => file.is # "book" /\ ~url
  /\ pc = "release" /\ ret # 0 => file.is # "older"

(* Without an error, each row fetched so far has its cells, and each cell  *)
(* is of such a row, of the last query that has one there.                 *)
Past(j, k) == j < q \/ (j = q /\ pc = "fill" /\ k <= n)
InPlace ==
  ret = 0 =>
    /\ \A j \in DOMAIN list : \A k \in 1..rows[j] :
          Past(j, k) => CellsOf(list[j], k) \subseteq DOMAIN cells
    /\ \A c \in DOMAIN cells : \E j \in DOMAIN list : \E k \in 1..rows[j] :
          Past(j, k) /\ cells[c] = <<j, k>> /\ c \in CellsOf(list[j], k)
    /\ \A c \in DOMAIN cells : \A j \in DOMAIN list : \A k \in 1..rows[j] :
          Past(j, k) /\ c \in CellsOf(list[j], k) => j <= cells[c][1]

BookInv == TypeOK /\ BookSteps /\ InPlace
=============================================================================
