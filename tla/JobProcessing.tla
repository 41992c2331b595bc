--------------------------- MODULE JobProcessing ----------------------------
(***************************************************************************)
(* process() of file_generate.c and the database transaction it works in.  *)
(*                                                                         *)
(* Another program inserts job rows with status '0'.  Once a minute the    *)
(* daemon tests its connection, loads the first MaxDownFile pending rows,  *)
(* and for each of them runs the steps configured for its url: the main    *)
(* steps (exec_type '0') up to the first that fails, then the handler      *)
(* steps (exec_type '1'), one of which sets the row's status from the      *)
(* request member "success".  One commit ends the job; a failed step rolls *)
(* back what the transaction holds.                                        *)
(*                                                                         *)
(* The connection can be lost and the process killed between any two       *)
(* calls; the server then drops the uncommitted changes.                   *)
(***************************************************************************)
EXTENDS FunModules

CONSTANTS
  Jobs,         \* job ids, numbered in the order of start_time
  Urls,         \* the job kinds
  Config,       \* [Urls -> Seq(Step)]: fun_config, <<>> for an unknown url
  UrlOf,        \* [Jobs -> Urls]
  MaxDownFile,  \* MAX_DOWN_FILE: the size of the job list
  ConnFaults    \* how the connection can fail: "lost" with an error code
                \* sql_error_handler knows, "wedged" with another one

NoJob == 0

ASSUME JobsAssumption == Jobs \subseteq Nat \ {NoJob}
ASSUME ConfigAssumption == /\ Config \in [Urls -> Seq(Step)]
                           /\ UrlOf \in [Jobs -> Urls]
ASSUME MaxAssumption == MaxDownFile \in Nat \ {0}
ASSUME ConnFaultsAssumption == ConnFaults \subseteq {"lost", "wedged"}

Steps(j) == Config[UrlOf[j]]

(* What the rows of fun_config are taken to be like.  Nothing in the code  *)
(* checks it, and each conjunct is needed by a property below: the order   *)
(* of load_fun_config's ORDER BY; a status set by handler steps only, and  *)
(* by one at least, with a module whose success implies the change.        *)
WellFormed(c) ==
  /\ \A m, n \in DOMAIN c : m < n /\ c[m].exec # "0" => c[n].exec # "0"
  /\ \A n \in DOMAIN c : c[n].mark => c[n].exec = "1" /\ Certain(c[n])
  /\ c # <<>> => \E n \in DOMAIN c : c[n].mark

ASSUME WellFormedAssumption == \A u \in Urls : WellFormed(Config[u])

VARIABLES
  genlist,    \* the job table's status column: none, 0, done, failed
  applied,    \* history: the committed changes, as <<job, step>>
  twice,      \* history: those of them committed more than once
  tx,         \* the uncommitted changes of the daemon's session
  conn,       \* g_db_con: open, lost, wedged, null
  stale,      \* ctx.con is a handle that reconnect() has freed
  pc,         \* where process() is
  todo,       \* generate_list from fetch on
  job, i,     \* the job being processed and the index of its next step
  reqId,      \* request member "id"
  reqSuccess, \* request member "success"
  reqData,    \* which job wrote each other request or response member
  file,       \* each file under download: its state and the job it is of
  delivered,  \* history: the uploads done, as <<job, step>>
  unseen      \* history: those that returned 0 after a failure no code saw

dbVars == <<genlist, applied, twice>>
reqVars == <<reqId, reqSuccess, reqData>>
outVars == <<file, delivered, unseen>>
vars == <<dbVars, tx, conn, stale, pc, todo, job, i, reqVars, outVars>>

Status == {"none", "0", "done", "failed"}
Write == [job : Jobs, step : Nat, row : Jobs \cup {NoJob},
          sets : {"nothing", "done", "failed"}]
FileState == [state : {"absent", "partial", "cut", "whole"},
              by : Jobs \cup {NoJob}]

TypeOK ==
  /\ genlist \in [Jobs -> Status]
  /\ applied \subseteq Jobs \X Nat
  /\ twice \subseteq applied
  /\ tx \subseteq Write
  /\ conn \in {"open", "lost", "wedged", "null"}
  /\ stale \in BOOLEAN
  /\ pc \in {"boot", "idle", "load", "next", "main", "handle", "commit"}
  /\ todo \subseteq Jobs
  /\ job \in Jobs \cup {NoJob}
  /\ i \in Nat
  /\ reqId \in Jobs \cup {NoJob}
  /\ reqSuccess \in {"0", "1"}
  /\ reqData \in [Keys -> Jobs \cup {NoJob}]
  /\ file \in [Files -> FileState]
  /\ delivered \subseteq Jobs \X Nat
  /\ unseen \subseteq Jobs \X Nat

Init ==
  /\ genlist = [j \in Jobs |-> "none"]
  /\ applied = {} /\ twice = {} /\ tx = {}
  /\ conn = "null" /\ stale = FALSE
  /\ pc = "boot" /\ todo = {} /\ job = NoJob /\ i = 1
  /\ reqId = NoJob /\ reqSuccess = "0"
  /\ reqData = [k \in Keys |-> NoJob]
  /\ file = [f \in Files |-> [state |-> "absent", by |-> NoJob]]
  /\ delivered = {} /\ unseen = {}

-----------------------------------------------------------------------------
(* The loop of this phase runs the step at i.                              *)
AtStep(phase, exec) ==
  /\ pc = phase /\ i \in DOMAIN Steps(job) /\ Steps(job)[i].exec = exec

(* The world around the daemon                                             *)

(* Another program inserts a job row with status '0'.                      *)
Submit(j) ==
  /\ genlist[j] = "none"
  /\ genlist' = [genlist EXCEPT ![j] = "0"]
  /\ UNCHANGED <<applied, twice, tx, conn, stale, pc, todo, job, i, reqVars,
                 outVars>>

(* The session dies; the server rolls its transaction back.                *)
LoseConnection ==
  /\ conn = "open"
  /\ conn' \in ConnFaults
  /\ tx' = {}
  /\ UNCHANGED <<dbVars, stale, pc, todo, job, i, reqVars, outVars>>

(* The process is gone: the session with it, and all it had in memory.     *)
Gone == /\ tx' = {} /\ conn' = "null" /\ stale' = FALSE
        /\ pc' = "boot" /\ todo' = {} /\ job' = NoJob /\ i' = 1
        /\ reqId' = NoJob /\ reqSuccess' = "0"
        /\ reqData' = [k \in Keys |-> NoJob]

(* stop.sh, a fault, a reboot.  A step cut short may leave the file it     *)
(* writes truncated.                                                       *)
Crash ==
  /\ pc # "boot"
  /\ Gone
  /\ \/ UNCHANGED file
     \/ /\ AtStep("main", "0") \/ AtStep("handle", "1")
        /\ Steps(job)[i].module \in {"export_txt", "export_xls", "download"}
        /\ file' = [file EXCEPT ![Steps(job)[i].file] =
                                   [state |-> "partial", by |-> job]]
  /\ UNCHANGED <<dbVars, delivered, unseen>>

-----------------------------------------------------------------------------
(* The daemon                                                              *)

(* connect_init and load_config, up to the main loop.                      *)
Boot ==
  /\ pc = "boot"
  /\ pc' = "idle" /\ conn' = "open"
  /\ UNCHANGED <<dbVars, tx, stale, todo, job, i, reqVars, outVars>>

(* process(), up to the load: the test statement fails on a dead session,  *)
(* and reconnect() replaces g_db_con when the error handler knew the error *)
(* code.  ctx.con was set before and keeps the freed handle.               *)
NeverReconnect(c) == FALSE
NeedsReconnect(c) == c = "lost"
TestConnection ==
  /\ pc = "idle"
  /\ pc' = "load"
  /\ IF NeedsReconnect(conn)
     THEN conn' = "open" /\ stale' = TRUE
     ELSE UNCHANGED conn /\ stale' = FALSE
  /\ reqId' = NoJob /\ reqSuccess' = "0"
  /\ reqData' = [k \in Keys |-> NoJob]
  /\ UNCHANGED <<dbVars, tx, todo, job, i, outVars>>

(* reconnect() failed: process() returns 0, and main waits and restarts.   *)
ReconnectFails ==
  /\ pc = "idle" /\ NeedsReconnect(conn)
  /\ Gone
  /\ UNCHANGED <<dbVars, outVars>>

(* load_generate_file and FILE_SQL: the pending rows by start_time, as     *)
(* many of them as the list holds.                                         *)
AnyStatus(g) == {j \in Jobs : g[j] # "none"}
Pending(g) == {j \in Jobs : g[j] = "0"}
FirstOf(S) == {j \in S : Cardinality({k \in S : k < j}) < MaxDownFile}
LoadGenerateFile ==
  /\ pc = "load" /\ conn = "open"
  /\ pc' = "next" /\ todo' = FirstOf(Pending(genlist))
  /\ UNCHANGED <<dbVars, tx, conn, stale, job, i, reqVars, outVars>>

(* The statement fails: process() returns -1 and is called again.          *)
LoadFails ==
  /\ pc = "load" /\ (conn # "open" \/ "sql" \in Faults)
  /\ pc' = "idle"
  /\ UNCHANGED <<dbVars, tx, conn, stale, todo, job, i, reqVars, outVars>>

(* file_prepare_foreach and the top of the loop: the next row's id goes    *)
(* into the request the previous jobs of this cycle have used too.         *)
PrepareJob ==
  /\ pc = "next"
  /\ \E j \in todo :
       /\ \A k \in todo : j <= k
       /\ todo' = todo \ {j}
       /\ job' = j /\ reqId' = j
       /\ delivered' = {d \in delivered : d[1] # j}
       /\ unseen' = {d \in unseen : d[1] # j}
  /\ i' = 1 /\ pc' = "main"
  /\ UNCHANGED <<dbVars, tx, conn, stale, reqSuccess, reqData, file>>

EndCycle ==
  /\ pc = "next" /\ todo = {}
  /\ pc' = "idle"
  /\ UNCHANGED <<dbVars, tx, conn, stale, todo, job, i, reqVars, outVars>>

-----------------------------------------------------------------------------
(* execute_config on step s of the current job.  A freed ctx.con may still *)
(* work, its memory having been taken by the new handle, or may not.       *)
Outcomes(s) ==
  UNION {ExecuteConfig(s, up, file[s.file].state # "absent") :
           up \in IF conn # "open" THEN {FALSE}
                  ELSE IF stale THEN BOOLEAN ELSE {TRUE}}

(* The change a step leaves in the transaction: a status step sets the row *)
(* named by "id" to what "success" says.                                   *)
WriteOf(s) == [job |-> job, step |-> i, row |-> reqId,
               sets |-> IF ~s.mark THEN "nothing"
                        ELSE IF reqSuccess = "1" THEN "done" ELSE "failed"]

(* What the outcome leaves in the request, in the local file, and of the   *)
(* local file on the remote server.                                        *)
Members(o) ==
  reqData' = [k \in Keys |-> IF k \in o.keys THEN job ELSE reqData[k]]
LocalFile(s, o) ==
  file' = IF o.file = "same" THEN file
          ELSE [file EXCEPT ![s.file] = [state |-> o.file, by |-> job]]
Own(s, state) == file[s.file] = [state |-> state, by |-> job]
Sent(s, o) ==
  /\ delivered' = IF o.sent = "yes" /\ Own(s, "whole")
                  THEN delivered \cup {<<job, i>>} ELSE delivered
  /\ unseen' = IF o.sent = "unread" \/ (o.sent = "yes" /\ Own(s, "cut"))
               THEN unseen \cup {<<job, i>>} ELSE unseen
Output(s, o) == Members(o) /\ LocalFile(s, o) /\ Sent(s, o)

Executed(s, o) == IF o.dml = "yes" THEN tx \cup {WriteOf(s)} ELSE tx
NoRollback(t) == t
Rollback(t) == {}

(* "success" as the main loop leaves it.                                   *)
AlwaysOne(failed) == "1"
Success(failed) == IF failed \/ Steps(job) = <<>> THEN "0" ELSE "1"

(* A main step that returns 0.                                             *)
MainStep ==
  /\ AtStep("main", "0")
  /\ LET s == Steps(job)[i] IN \E o \in Outcomes(s) :
       /\ o.ret = 0
       /\ tx' = Executed(s, o)
       /\ Output(s, o)
  /\ i' = i + 1
  /\ UNCHANGED <<dbVars, conn, stale, pc, todo, job, reqId, reqSuccess>>

(* A main step that does not: success = "0", rollback, break.              *)
MainStepFails ==
  /\ AtStep("main", "0")
  /\ LET s == Steps(job)[i] IN \E o \in Outcomes(s) :
       /\ o.ret # 0
       /\ tx' = Rollback(Executed(s, o))
       /\ Output(s, o)
  /\ reqSuccess' = Success(TRUE) /\ pc' = "handle"
  /\ UNCHANGED <<dbVars, conn, stale, todo, job, i, reqId>>

(* The main loop ends at the first step of another type or at the end.     *)
MainDone ==
  /\ pc = "main"
  /\ ~AtStep("main", "0")
  /\ reqSuccess' = Success(FALSE) /\ pc' = "handle"
  /\ UNCHANGED <<dbVars, tx, conn, stale, todo, job, i, reqId, reqData,
                 outVars>>

(* The handler loop passes over the steps of another type ...              *)
HandlerSkip ==
  /\ pc = "handle" /\ i \in DOMAIN Steps(job) /\ ~AtStep("handle", "1")
  /\ i' = i + 1
  /\ UNCHANGED <<dbVars, tx, conn, stale, pc, todo, job, reqVars, outVars>>

HandlerStep ==
  /\ AtStep("handle", "1")
  /\ LET s == Steps(job)[i] IN \E o \in Outcomes(s) :
       /\ o.ret = 0
       /\ tx' = Executed(s, o)
       /\ Output(s, o)
  /\ i' = i + 1
  /\ UNCHANGED <<dbVars, conn, stale, pc, todo, job, reqId, reqSuccess>>

(* ... and ends at one that fails: rollback, of the main steps' changes    *)
(* too, and break.                                                         *)
HandlerStepFails ==
  /\ AtStep("handle", "1")
  /\ LET s == Steps(job)[i] IN \E o \in Outcomes(s) :
       /\ o.ret # 0
       /\ tx' = Rollback(Executed(s, o))
       /\ Output(s, o)
  /\ pc' = "commit"
  /\ UNCHANGED <<dbVars, conn, stale, todo, job, i, reqId, reqSuccess>>

HandlerDone ==
  /\ pc = "handle" /\ i \notin DOMAIN Steps(job)
  /\ pc' = "commit"
  /\ UNCHANGED <<dbVars, tx, conn, stale, todo, job, i, reqVars, outVars>>

(* oci_commit, whose result is ignored: on a dead session tx is empty and  *)
(* nothing is committed.                                                   *)
AnyRowStatus(j) ==
  IF \E w \in tx : w.row = j THEN (CHOOSE w \in tx : w.row = j).sets
  ELSE genlist[j]
RowStatus(j) ==
  IF \E w \in tx : w.row = j /\ w.sets # "nothing"
  THEN (CHOOSE w \in tx : w.row = j /\ w.sets # "nothing").sets
  ELSE genlist[j]
Commit ==
  /\ pc = "commit"
  /\ LET now == {<<w.job, w.step>> : w \in tx}
     IN  /\ applied' = applied \cup now
         /\ twice' = twice \cup (applied \cap now)
  /\ genlist' = [j \in Jobs |-> RowStatus(j)]
  /\ tx' = {} /\ pc' = "next"
  /\ UNCHANGED <<conn, stale, todo, job, i, reqVars, outVars>>

-----------------------------------------------------------------------------
Cycle == TestConnection \/ LoadGenerateFile \/ LoadFails \/ PrepareJob
         \/ EndCycle \/ MainStep \/ MainStepFails \/ MainDone
         \/ HandlerSkip \/ HandlerStep \/ HandlerStepFails \/ HandlerDone
         \/ Commit
Daemon == Boot \/ ReconnectFails \/ Cycle
Environment == (\E j \in Jobs : Submit(j)) \/ LoseConnection \/ Crash

Next == Daemon \/ Environment

Spec == Init /\ [][Next]_vars

(* The loop of main() never ends by itself, and start.sh starts the        *)
(* process again; a reconnection is tried until one works.                 *)
Fairness == WF_vars(Boot) /\ WF_vars(Cycle)
FairSpec == Spec /\ Fairness

-----------------------------------------------------------------------------
(* Properties                                                              *)

MainSteps(j) == {<<j, n>> : n \in {m \in DOMAIN Steps(j) :
                                     Steps(j)[m].exec = "0"}}
MainWrites(j) == {d \in MainSteps(j) : Certain(Steps(j)[d[2]])}
(* Step n of c uploads what an earlier step of c exported last.            *)
UploadsExport(c, n) ==
  /\ c[n].module = "upload" /\ ~c[n].guarded
  /\ \E m \in 1..(n-1) : /\ Exports(c[m]) /\ c[m].file = c[n].file
                          /\ \A o \in (m+1)..(n-1) : c[o].file # c[n].file
MainUploads(j) == {d \in MainSteps(j) : UploadsExport(Steps(j), d[2])}

(* The database work of a job's main steps is committed exactly when its   *)
(* row says done: a failed or pending job has left none of it behind,      *)
(* whatever step failed and wherever the connection or the process was     *)
(* lost (rollback and the single commit of process()).                     *)
AllOrNothing == \A j \in Jobs :
  /\ genlist[j] = "done" => MainWrites(j) \subseteq applied
  /\ genlist[j] # "done" => MainSteps(j) \cap applied = {}

(* No step's change is committed twice, although a job that is still       *)
(* pending is run again after every loss: the status and the work go into  *)
(* one commit, and FILE_SQL lists pending rows only.                       *)
AtMostOnce == twice = {}

(* A row says done only if every upload, among its main steps, of a file   *)
(* that an earlier main step exports has sent, in the run that was         *)
(* committed, the whole file that run exported: no failed statement, write *)
(* or transfer, no lost connection and no earlier run's file comes between.*)
(* Excepted are the uploads of unseen, whose failure the code takes for a  *)
(* success: the row does say done when upload() could not open its file    *)
(* (updown.c:41) or a read error ended it (updown.c:31), and when the      *)
(* export had left a cut file: a row written in part (process_util.c:201), *)
(* a cell refused (221).                                                   *)
DoneMeansDelivered == \A j \in Jobs :
  genlist[j] = "done" => MainUploads(j) \subseteq delivered \cup unseen

(* The requests and responses of a cycle's jobs are one object each.  A    *)
(* main step that reads a member which an earlier main step of its job was *)
(* bound to write reads its own job's, not one that an earlier job of the  *)
(* cycle left.  Of a member that no such step wrote (a select_one that     *)
(* found no row, a step whose test was false) this says nothing: there the *)
(* earlier job's is what the step reads.                                   *)
OwnInputs == AtStep("main", "0") =>
  \A k \in Steps(job)[i].needs :
    (\E m \in 1..(i-1) : /\ k \in Steps(job)[m].keys
                         /\ AlwaysWrites(Steps(job)[m])) => reqData[k] = job

(* The job table behaves as the ledger: decided once, work and status in   *)
(* one step.  A job none of whose main steps must write counts as having   *)
(* its effect when it is done.                                             *)
Effect == {j \in Jobs : IF MainWrites(j) = {} THEN genlist[j] = "done"
                        ELSE MainWrites(j) \subseteq applied}
LedgerStatus == [j \in Jobs |-> IF genlist[j] = "0" THEN "pending"
                                ELSE genlist[j]]
Ledger == INSTANCE JobLedger WITH status <- LedgerStatus, effect <- Effect
ImplementsLedger == Ledger!Spec

(* Once connections stop failing and the process stops being killed, every *)
(* pending job of a configured kind is decided, provided fewer rows than   *)
(* the list holds are of kinds without configuration, no statement keeps   *)
(* failing, and the session that is left is not wedged: one that died with *)
(* an error code outside sql_error_handler's six is never replaced by      *)
(* process(), and then nothing is decided until the process is restarted.  *)
Calm == /\ <>[][~LoseConnection /\ ~Crash]_vars
        /\ []<>(conn # "wedged")
Decided == \A j \in Jobs : Steps(j) # <<>> =>
             (genlist[j] = "0" ~> genlist[j] \in {"done", "failed"})
DecidedWhenCalm == Calm => Decided

(* Why the above holds: what the open transaction contains at each point   *)
(* of process(), and what the committed changes say of the job table.      *)
InTx(n) == \E w \in tx : w.step = n
InHand == pc \in {"main", "handle", "commit"}

(* The job in hand is the one named in the request, and still pending.     *)
JobInHand ==
  /\ i > 0
  /\ \A j \in todo : genlist[j] = "0"
  /\ InHand => job \in Jobs /\ reqId = job /\ genlist[job] = "0" /\ job \notin todo

(* The transaction is the current job's, and of steps that it has passed.  *)
TxOwn ==
  /\ tx # {} => conn = "open" /\ InHand
  /\ \A w \in tx : /\ w.job = job /\ w.row = job
                   /\ w.step \in DOMAIN Steps(job) /\ w.step < i
                   /\ w.sets = IF ~Steps(job)[w.step].mark THEN "nothing"
                               ELSE IF reqSuccess = "1" THEN "done" ELSE "failed"

(* The main loop has passed main steps only and holds all their changes.   *)
MainPhase == pc = "main" =>
  /\ \A n \in DOMAIN Steps(job) : n < i => Steps(job)[n].exec = "0"
  /\ conn = "open" => \A n \in DOMAIN Steps(job) :
       n < i /\ Certain(Steps(job)[n]) => InTx(n)

(* "success" says whether the transaction holds the main steps' changes.   *)
SuccessIsTx == pc \in {"handle", "commit"} =>
  /\ reqSuccess = "0" => \A w \in tx : Steps(job)[w.step].exec # "0"
  /\ reqSuccess = "1" /\ conn = "open" /\ (pc = "handle" \/ tx # {}) =>
       \A n \in DOMAIN Steps(job) :
         Steps(job)[n].exec = "0" /\ Certain(Steps(job)[n]) => InTx(n)

(* A transaction that is committed sets the row's status.                  *)
CommitSetsStatus ==
  /\ pc = "handle" /\ conn = "open" => \A n \in DOMAIN Steps(job) :
       n < i /\ Steps(job)[n].mark => InTx(n)
  /\ pc = "commit" /\ tx # {} =>
       \E n \in DOMAIN Steps(job) : Steps(job)[n].mark /\ InTx(n)

(* What is committed belongs to jobs that are decided.                     *)
AppliedDecided == \A d \in applied : genlist[d[1]] \in {"done", "failed"}

SessionInv == JobInHand /\ TxOwn /\ MainPhase /\ SuccessIsTx
              /\ CommitSetsStatus /\ AppliedDecided

(* sql_execute's parameter con is a database connection (db_hander.c:46):  *)
(* the steps of a job never run on a handle that has been freed.           *)
LiveHandle == AtStep("main", "0") \/ AtStep("handle", "1") => ~stale
=============================================================================
