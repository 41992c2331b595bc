----------------------------- MODULE FunModules -----------------------------
(***************************************************************************)
(* The function modules of process_util.c: what one configured step (a row *)
(* of fun_config, run by execute_config) may do.                           *)
(*                                                                         *)
(* A module is a C function that reads the request, runs statements on the *)
(* job's connection, and returns 0 or -1.  Here a module is the SET of     *)
(* outcomes one call of it can have; the statements' data (row counts,     *)
(* column values) and the faults of the outside world are what makes the   *)
(* set have more than one element.  Statement and parameter texts are left *)
(* out; a row whose parameter list a module rejects behaves as a row that  *)
(* names no module does: it returns -1 before any effect.                  *)
(***************************************************************************)
EXTENDS Integers, Sequences, FiniteSets

CONSTANTS
  Keys,    \* names of members of the request and response objects
  Files,   \* names of files under DOCUMENT_ROOT/download
  Faults   \* which classes of failure the environment can produce

ASSUME FaultsAssumption == Faults \subseteq {"sql", "rows", "io", "quiet"}
  \* "sql"  - a statement fails although the connection is up
  \* "rows" - a statement matches fewer rows than the configuration expects,
  \*          or an array or object it takes from the request is missing
  \* "io"   - a file cannot be created or written, an FTP transfer fails
  \* "quiet" - the code does not notice a failure: a short write, a local
  \*          file it cannot open or cannot read to the end

(* my_check_module, process_util.c:1561: the dispatch table.  "del" is in   *)
(* the table too; its effect is on the request object's reference counts,  *)
(* which these outcomes do not describe, so no step here names it.         *)
Selects == {"select_one", "select_list", "select_page"}
BatchSelects == {"batch_select_one", "batch_select_list",
                 "batch_select_column_list"}
BatchDmls == {"batch_insert", "batch_update", "batch_delete", "batch_callproc"}
ModuleNames == Selects \cup BatchSelects \cup BatchDmls \cup
  {"insert", "update", "delete", "callproc", "copy", "batch_copy", "add",
   "export_txt", "export_xls", "upload", "download"}

(* fun_config_t: the columns of fun_config a step's behaviour depends on.  *)
Step == [module  : ModuleNames \cup {"unknown"},
         exec    : {"0", "1", "2"}, \* exec_type: main step, handler step, other
         guarded : BOOLEAN,         \* test_input is set and may be false
         tested  : BOOLEAN,         \* test is set and may be false
         check   : BOOLEAN,         \* the parameter for a row check is given
         keys    : SUBSET Keys,     \* members it writes
         needs   : SUBSET Keys,     \* members its parameters read
         file    : Files,           \* the file it exports, uploads, downloads
         mark    : BOOLEAN]         \* it sets the job row's status column

(* What one call did: its return value, whether it left an uncommitted     *)
(* change behind, the members it wrote, the file it left (cut: shorter     *)
(* than the call's success says), and whether it handed the local file to  *)
(* the remote server (unread: it could not read the whole of that file).   *)
Outcome == [ret : {0, -1}, dml : {"no", "yes"}, keys : SUBSET Keys,
            file : {"same", "partial", "cut", "whole"},
            sent : {"no", "unread", "yes"}]

Result(ret, dml, keys) ==
  [ret |-> ret, dml |-> dml, keys |-> keys, file |-> "same", sent |-> "no"]
NoEffect == Result(0, "no", {})
Failed == Result(-1, "no", {})
YesIf(b) == IF b THEN "yes" ELSE "no"
Ret(n) == IF n < 0 THEN -1 ELSE 0
Maybe(fault, v) == IF fault \in Faults THEN {v} ELSE {}

-----------------------------------------------------------------------------
(* sql_execute, db_hander.c:56: -1, or a row count: 1 when it is the count *)
(* the step expects, 0 when it is smaller.  up: the connection works.      *)
SqlExecute(up) ==
  (IF up THEN {1} \cup Maybe("rows", 0) ELSE {-1}) \cup Maybe("sql", -1)

(* fun_config_test_value at a module's start: false returns 0 at once.     *)
Tested(s, outs) == outs \cup (IF s.tested THEN {NoEffect} ELSE {})

(* module_select_one: the row's columns become members of the target only  *)
(* when a row is found; select_fetch_row_handler is not called otherwise.  *)
SelectOne(s, up) ==
  {Result(Ret(n), "no", IF n > 0 THEN s.keys ELSE {}) : n \in SqlExecute(up)}

(* module_select_list: a new array replaces the member before the          *)
(* statement runs, so the member is this job's even when nothing is found. *)
FoundRowsOnly(s, up) == SelectOne(s, up)
SelectList(s, up) ==
  {Result(Ret(n), "no", s.keys) : n \in SqlExecute(up)}

(* module_select_page: an array that is already in the response is kept,   *)
(* so what an earlier job left there stays in front of this job's rows.    *)
SelectPage(s, up) ==
  {Result(Ret(n), "no", k) :
     n \in SqlExecute(up), k \in {{}, s.keys}}

(* check_data_acl: a count different from the changed rows is a refusal.   *)
CheckDataAcl(s, up) ==
  IF s.check THEN {IF n > 0 THEN 0 ELSE -1 : n \in SqlExecute(up)} ELSE {0}

(* module_insert: the optional key statement first, then the insert, then  *)
(* the check; a refused insert returns -1 with the row already inserted.   *)
InsertRow(s, up, keys) ==
  {Result(IF n < 0 THEN -1 ELSE a, YesIf(n > 0), keys) :
     n \in SqlExecute(up), a \in CheckDataAcl(s, up)}
Insert(s, up) ==
  IF s.keys = {} THEN InsertRow(s, up, {})
  ELSE UNION {IF k < 0 THEN {Failed}
              ELSE InsertRow(s, up, IF k > 0 THEN s.keys ELSE {}) :
                k \in SqlExecute(up)}

(* module_update: no row matched is an error, a refused update returns -1  *)
(* with the rows already updated.                                          *)
Update(s, up) ==
  {Result(IF n <= 0 THEN -1 ELSE a, YesIf(n > 0), {}) :
     n \in SqlExecute(up), a \in CheckDataAcl(s, up)}

(* module_delete: with a minimum row count, fewer rows is an error that    *)
(* comes after those rows were deleted.                                    *)
Delete(s, up) ==
  {Result(IF n < 0 \/ (n = 0 /\ s.check) THEN -1 ELSE 0,
          YesIf(n > 0 \/ (n = 0 /\ s.check)), {}) : n \in SqlExecute(up)}

(* module_callproc: an anonymous block has no row count to fall short of;  *)
(* output parameters become members only when the call succeeded.          *)
CallProc(s, up) ==
  {IF n < 0 THEN Failed ELSE Result(0, "yes", s.keys) : n \in SqlExecute(up)}

(* module_copy, module_batch_copy, module_add: request members only.       *)
Copy(s) == {Result(0, "no", s.keys)} \cup Maybe("rows", Failed)
BatchCopy(s) == {NoEffect} \cup Maybe("rows", Failed)
Add(s) == {Result(0, "no", s.keys)}

(* The module_batch_* loops: the input must be an array; the first row     *)
(* that fails ends the loop, with the rows before it already written.      *)
(* Members go to the array's rows, not to the request.                     *)
Batch(outs) ==
  LET rows == {[o EXCEPT !.keys = {}] : o \in outs}
  IN  rows \cup Maybe("rows", NoEffect) \cup Maybe("rows", Failed) \cup
      {[o EXCEPT !.dml = "yes"] : o \in {r \in rows : \E q \in rows :
                                          q.ret = 0 /\ q.dml = "yes"}}

(* module_batch_select_*: what the rows select is put in the response.     *)
BatchSelect(outs) == outs \cup Maybe("rows", NoEffect) \cup Maybe("rows", Failed)

(* create_file and module_export_txt: the file is truncated first; then a  *)
(* failing statement or write leaves it without its later rows.  A row     *)
(* that write() takes only in part is not an error of the row handler.     *)
StatementErrorIgnored(s, up) ==
  {[NoEffect EXCEPT !.file = IF n < 0 THEN "partial" ELSE "whole"] :
     n \in SqlExecute(up)}
ExportTxt(s, up) ==
  {IF n < 0 THEN [Failed EXCEPT !.file = "partial"]
            ELSE [NoEffect EXCEPT !.file = "whole"] : n \in SqlExecute(up)}
  \cup Maybe("io", Failed) \cup Maybe("io", [Failed EXCEPT !.file = "partial"])
  \cup Maybe("quiet", [NoEffect EXCEPT !.file = "cut"])

(* module_export_xls: truncated by create_file too, then filled from the   *)
(* template's copy by xlBookSave when every sheet's statement succeeded;   *)
(* the results of the calls that write the cells are ignored.              *)
ExportXls(s, up) == ExportTxt(s, up)

(* module_upload: only a negative result of upload() is an error.  upload()*)
(* returns 0 without a transfer when it cannot open the local file, be it  *)
(* missing or not, and 1 when a read error ended the transfer early.       *)
Unread == Maybe("quiet", [NoEffect EXCEPT !.sent = "unread"])
Upload(s, exists) ==
  IF exists THEN {[NoEffect EXCEPT !.sent = "yes"]} \cup Maybe("io", Failed)
                 \cup Unread
            ELSE {NoEffect}

(* module_download: appends to the local file; a file that cannot be       *)
(* opened is, again, not an error, and neither is a failing fclose.        *)
Download(s) ==
  {[NoEffect EXCEPT !.file = "whole"]} \cup Maybe("io", NoEffect) \cup
  Maybe("io", Failed) \cup Maybe("io", [Failed EXCEPT !.file = "partial"])
  \cup Maybe("quiet", [NoEffect EXCEPT !.file = "cut"])

-----------------------------------------------------------------------------
SelectRow(s, up) == IF s.module = "batch_select_one" THEN SelectOne(s, up)
                    ELSE SelectList(s, up)
DmlRow(s, up) ==
  CASE s.module \in {"insert", "batch_insert"} -> Insert(s, up)
    [] s.module \in {"update", "batch_update"} -> Update(s, up)
    [] s.module \in {"delete", "batch_delete"} -> Delete(s, up)
    [] OTHER -> CallProc(s, up)

(* The call through the dispatch table.  exists: the step's local file is  *)
(* there.  Only the modules that run SQL on rows look at test.             *)
RunModule(s, up, exists) ==
  CASE s.module = "select_one"   -> Tested(s, SelectOne(s, up))
    [] s.module = "select_list"  -> Tested(s, SelectList(s, up))
    [] s.module = "select_page"  -> Tested(s, SelectPage(s, up))
    [] s.module \in BatchSelects -> BatchSelect(Tested(s, SelectRow(s, up)))
    [] s.module \in BatchDmls    -> Batch(Tested(s, DmlRow(s, up)))
    [] s.module \in {"insert", "update", "delete", "callproc"}
                                 -> Tested(s, DmlRow(s, up))
    [] s.module = "copy"         -> Copy(s)
    [] s.module = "batch_copy"   -> BatchCopy(s)
    [] s.module = "add"          -> Add(s)
    [] s.module = "export_txt"   -> ExportTxt(s, up)
    [] s.module = "export_xls"   -> ExportXls(s, up)
    [] s.module = "upload"       -> Upload(s, exists)
    [] OTHER                     -> Download(s)

(* execute_config, process_util.c:1601: a name that is not in the table is *)
(* an error.  When test_input is false the function is not called and ret  *)
(* is returned without ever having been assigned: both results can happen. *)
ExecuteConfig(s, up, exists) ==
  IF s.module \notin ModuleNames THEN {Failed}
  ELSE RunModule(s, up, exists) \cup
       (IF s.guarded THEN {NoEffect, Failed} ELSE {})

-----------------------------------------------------------------------------
(* Steps whose success means their change was made: an unconditional       *)
(* update (zero rows is an error) or procedure call.                       *)
Certain(s) ==
  ~s.guarded /\ ~s.tested /\ s.module \in {"update", "callproc"}

(* Steps whose success means the members they write are this job's.        *)
AlwaysWrites(s) ==
  /\ ~s.guarded
  /\ \/ s.module \in {"add", "copy"}
     \/ ~s.tested /\ s.module \in {"select_list", "callproc"}

(* Steps whose success means they wrote their file, whole or unnoticed     *)
(* cut.                                                                    *)
Exports(s) == ~s.guarded /\ s.module \in {"export_txt", "export_xls"}
=============================================================================
