-------------------------- MODULE MCJobProcessing ---------------------------
(***************************************************************************)
(* Instances of JobProcessing for TLC.  The configurations are shaped like *)
(* the ones the modules are made for: collect, write, export, send, and    *)
(* set the row's status; with guards and row checks where a run asks what  *)
(* happens when they bite.                                                 *)
(***************************************************************************)
EXTENDS JobProcessing

S(module, exec) ==
  [module |-> module, exec |-> exec, guarded |-> FALSE, tested |-> FALSE,
   check |-> FALSE, keys |-> {}, needs |-> {}, file |-> "f", mark |-> FALSE]

MCKeys == {"rows"}
MCFiles == {"f"}

SetStatus == [S("update", "1") EXCEPT !.mark = TRUE]

(* Collect rows, call a procedure on them, export and send a file.         *)
Report == <<[S("select_list", "0") EXCEPT !.keys = {"rows"}],
            [S("callproc", "0") EXCEPT !.needs = {"rows"}],
            S("export_txt", "0"), S("upload", "0"),
            SetStatus, [S("insert", "1") EXCEPT !.guarded = TRUE]>>

(* Row changes with checks and conditions, and a step of an unused type.   *)
(* The update reads the member that the insert writes only when its key    *)
(* statement finds a row.                                                  *)
Changes == <<[S("insert", "0") EXCEPT !.keys = {"rows"}, !.check = TRUE,
                                      !.tested = TRUE],
             [S("update", "0") EXCEPT !.check = TRUE, !.needs = {"rows"}],
             [S("batch_delete", "0") EXCEPT !.check = TRUE],
             [S("callproc", "1") EXCEPT !.mark = TRUE],
             S("add", "2")>>

(* A kind whose main step names no module.                                 *)
Broken == <<S("callproc", "0"), S("unknown", "0"), SetStatus>>

(* Handler steps that do not depend on a condition.                        *)
Plain == <<S("export_txt", "0"), S("upload", "0"), SetStatus>>

MCConfig == [report |-> Report, changes |-> Changes, broken |-> Broken,
             plain |-> Plain, unknown |-> <<>>]
MCUrls == DOMAIN MCConfig

ReportChangesBroken == <<"report", "changes", "broken">>
TwoReports == <<"report", "report">>
WithUnknown == <<"unknown", "plain", "broken">>
=============================================================================
