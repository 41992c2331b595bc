----------------------------- MODULE TwoSessions ----------------------------
(***************************************************************************)
(* Several daemons on one job table: a second one is started by hand while *)
(* the first sleeps before its restart, or start.sh is run twice.  Nothing *)
(* in the code keeps them apart, so both read the same pending rows.       *)
(*                                                                         *)
(* process() is seen here from the database: a job's main steps update     *)
(* rows, the handler's update sets the status of the job's row, and one    *)
(* commit ends the job.  The status statement is configuration, not code:  *)
(* it is taken to ask for the row that is still pending (where id = :id    *)
(* and status = '0'), so that module_update finds no row, and fails, when  *)
(* another session was first.                                              *)
(* Rows that a session has updated are locked until it commits or rolls    *)
(* back; Oracle, which is external, lets others wait for them and makes a  *)
(* statement of a circle of waiting sessions fail.                         *)
(***************************************************************************)
EXTENDS Naturals, Sequences

CONSTANTS
  Daemons, Jobs,
  StartTime, \* [Jobs -> Nat], the column the list is ordered by
  Rows,      \* the rows main steps update
  RowsOf,    \* [Jobs -> Seq(Rows)], the row each main step of a job updates
  Nobody     \* holds no lock

ASSUME StartTimeAssumption == StartTime \in [Jobs -> Nat]
ASSUME RowsAssumption == RowsOf \in [Jobs -> Seq(Rows)] /\ Jobs \cap Rows = {}
ASSUME NobodyAssumption == Nobody \notin Daemons

VARIABLES
  status,     \* [Jobs -> none, pending, done, failed], committed
  work,       \* [Jobs -> Nat], how often a job's main work was committed
  lock,       \* [Rows \cup Jobs -> Daemons \cup {Nobody}]
  pc,         \* [Daemons -> down, idle, next, main, handler, commit]
  todo,       \* the jobs of the list a daemon has read that are still to come
  job,        \* the job it is at, if any
  step,       \* the main step that comes next
  success,    \* success = "1"
  hasWork,    \* daemons whose transaction holds main work
  hasStatus,  \* daemons whose transaction holds the status
  calm        \* from here on nothing fails and nobody is killed

table == <<status, work>>
transaction == <<lock, hasWork, hasStatus>>
vars == <<table, transaction, pc, todo, job, step, success, calm>>

TypeOK ==
  /\ status \in [Jobs -> {"none", "pending", "done", "failed"}]
  /\ work \in [Jobs -> Nat]
  /\ lock \in [Rows \cup Jobs -> Daemons \cup {Nobody}]
  /\ pc \in [Daemons -> {"down", "idle", "next", "main", "handler", "commit"}]
  /\ todo \in [Daemons -> SUBSET Jobs]
  /\ job \in [Daemons -> Jobs \cup {Nobody}]
  /\ step \in [Daemons -> Nat]
  /\ success \in [Daemons -> BOOLEAN]
  /\ hasWork \subseteq Daemons /\ hasStatus \subseteq Daemons
  /\ calm \in BOOLEAN

Init ==
  /\ status = [j \in Jobs |-> "none"]
  /\ work = [j \in Jobs |-> 0]
  /\ lock = [r \in Rows \cup Jobs |-> Nobody]
  /\ pc = [d \in Daemons |-> "down"]
  /\ todo = [d \in Daemons |-> {}]
  /\ job = [d \in Daemons |-> Nobody]
  /\ step = [d \in Daemons |-> 1]
  /\ success = [d \in Daemons |-> TRUE]
  /\ hasWork = {} /\ hasStatus = {}
  /\ calm = FALSE

-----------------------------------------------------------------------------
(* The other program                                                       *)

Submit(j) ==
  /\ status[j] = "none"
  /\ status' = [status EXCEPT ![j] = "pending"]
  /\ UNCHANGED <<work, transaction, pc, todo, job, step, success, calm>>

(* The transaction                                                         *)

Free(r, d) == lock[r] \in {Nobody, d}
Released(d) == [r \in DOMAIN lock |-> IF lock[r] = d THEN Nobody ELSE lock[r]]
NoRollback(d) == UNCHANGED <<lock, hasWork, hasStatus>>
Rollback(d) ==
  /\ lock' = Released(d)
  /\ hasWork' = hasWork \ {d} /\ hasStatus' = hasStatus \ {d}

(* The session d waits for, and the circles Oracle looks for.              *)
Wanted(d) == IF pc[d] = "main" /\ step[d] <= Len(RowsOf[job[d]])
             THEN {RowsOf[job[d]][step[d]]}
             ELSE IF pc[d] = "handler" THEN {job[d]} ELSE {}
Blockers(d) == {lock[r] : r \in {q \in Wanted(d) : ~Free(q, d)}}
Deadlocked(d) ==
  \E S \in SUBSET Daemons : d \in S /\ UNION {Blockers(e) : e \in S} = S

-----------------------------------------------------------------------------
(* A daemon                                                                *)

Start(d) ==
  /\ pc[d] = "down"
  /\ pc' = [pc EXCEPT ![d] = "idle"]
  /\ UNCHANGED <<table, transaction, todo, job, step, success, calm>>

(* load_generate_file: the rows that are pending when it is executed.      *)
Pending(j) == status[j] = "pending"
LoadGenerateFile(d) ==
  /\ pc[d] = "idle"
  /\ todo' = [todo EXCEPT ![d] = {j \in Jobs : Pending(j)}]
  /\ pc' = [pc EXCEPT ![d] = "next"]
  /\ UNCHANGED <<table, transaction, job, step, success, calm>>

NextJob(d) ==
  /\ pc[d] = "next"
  /\ \E j \in todo[d] :
        /\ \A k \in todo[d] : StartTime[j] <= StartTime[k]
        /\ job' = [job EXCEPT ![d] = j]
        /\ todo' = [todo EXCEPT ![d] = @ \ {j}]
  /\ pc' = [pc EXCEPT ![d] = "main"]
  /\ step' = [step EXCEPT ![d] = 1]
  /\ success' = [success EXCEPT ![d] = TRUE]
  /\ UNCHANGED <<table, transaction, calm>>

EndCycle(d) ==
  /\ pc[d] = "next" /\ todo[d] = {}
  /\ pc' = [pc EXCEPT ![d] = "idle"]
  /\ UNCHANGED <<table, transaction, todo, job, step, success, calm>>

MainStep(d) ==
  /\ pc[d] = "main" /\ step[d] <= Len(RowsOf[job[d]])
  /\ LET row == RowsOf[job[d]][step[d]]
     IN  Free(row, d) /\ lock' = [lock EXCEPT ![row] = d]
  /\ hasWork' = hasWork \cup {d}
  /\ step' = [step EXCEPT ![d] = @ + 1]
  /\ UNCHANGED <<table, hasStatus, pc, todo, job, success, calm>>

MainStepFails(d) ==
  /\ pc[d] = "main" /\ step[d] <= Len(RowsOf[job[d]])
  /\ ~calm \/ Deadlocked(d)
  /\ Rollback(d)
  /\ success' = [success EXCEPT ![d] = FALSE]
  /\ pc' = [pc EXCEPT ![d] = "handler"]
  /\ UNCHANGED <<table, todo, job, step, calm>>

MainDone(d) ==
  /\ pc[d] = "main" /\ step[d] > Len(RowsOf[job[d]])
  /\ pc' = [pc EXCEPT ![d] = "handler"]
  /\ UNCHANGED <<table, transaction, todo, job, step, success, calm>>

(* module_update: no row with that id is pending any more, rowcount is 0   *)
(* and the result -1.                                                      *)
AnyRow(d) == TRUE
Updates(d) == status[job[d]] = "pending"
HandlerStep(d) ==
  /\ pc[d] = "handler"
  /\ Free(job[d], d) /\ Updates(d)
  /\ lock' = [lock EXCEPT ![job[d]] = d]
  /\ hasStatus' = hasStatus \cup {d}
  /\ pc' = [pc EXCEPT ![d] = "commit"]
  /\ UNCHANGED <<table, hasWork, todo, job, step, success, calm>>

HandlerStepFails(d) ==
  /\ pc[d] = "handler"
  /\ \/ Free(job[d], d) /\ ~Updates(d)
     \/ ~calm \/ Deadlocked(d)
  /\ Rollback(d)
  /\ pc' = [pc EXCEPT ![d] = "commit"]
  /\ UNCHANGED <<table, todo, job, step, success, calm>>

SuccessValue(d) == IF success[d] THEN "1" ELSE "0"
Decision(d) == IF success[d] THEN "done" ELSE "failed"
Commit(d) ==
  /\ pc[d] = "commit"
  /\ status' = IF d \in hasStatus
               THEN [status EXCEPT ![job[d]] = Decision(d)]
               ELSE status
  /\ work' = IF d \in hasWork THEN [work EXCEPT ![job[d]] = @ + 1] ELSE work
  /\ Rollback(d)  \* what the transaction held is over
  /\ pc' = [pc EXCEPT ![d] = "next"]
  /\ UNCHANGED <<todo, job, step, success, calm>>

(* stop.sh, or the loss of the session: Oracle rolls back.                 *)
Kill(d) ==
  /\ pc[d] # "down" /\ ~calm
  /\ Rollback(d)
  /\ todo' = [todo EXCEPT ![d] = {}]
  /\ pc' = [pc EXCEPT ![d] = "down"]
  /\ UNCHANGED <<table, job, step, success, calm>>

(* The faults end, with a daemon running.                                  *)
Settle ==
  /\ \E d \in Daemons : pc[d] # "down"
  /\ calm' = TRUE
  /\ UNCHANGED <<table, transaction, pc, todo, job, step, success>>

Runs(d) == \/ LoadGenerateFile(d) \/ NextJob(d) \/ EndCycle(d)
           \/ MainStep(d) \/ MainStepFails(d) \/ MainDone(d)
           \/ HandlerStep(d) \/ HandlerStepFails(d) \/ Commit(d)

Next == \/ \E j \in Jobs : Submit(j)
        \/ \E d \in Daemons : Start(d) \/ Runs(d) \/ Kill(d)
        \/ Settle

Spec == Init /\ [][Next]_vars

(* A running daemon goes on.                                               *)
FairSpec == Spec /\ \A d \in Daemons : WF_vars(Runs(d))

-----------------------------------------------------------------------------
(* Properties                                                              *)

(* However many daemons have a job in their lists, and wherever they are   *)
(* killed, its main work is committed once when the row says done, and     *)
(* never otherwise.                                                        *)
WorkedOnce ==
  \A j \in Jobs : work[j] = IF status[j] = "done" /\ RowsOf[j] # <<>> THEN 1 ELSE 0

(* What a daemon's transaction holds, by the point it has reached: the     *)
(* status only with the lock on a row that is still pending, and main work *)
(* only of a job that has some and has not failed.                         *)
Holds(d) ==
  /\ pc[d] \in {"main", "handler", "commit"} => job[d] \in Jobs
  /\ d \in hasStatus => /\ pc[d] = "commit"
                        /\ lock[job[d]] = d /\ status[job[d]] = "pending"
  /\ d \in hasWork => /\ pc[d] \in {"main", "handler", "commit"}
                      /\ success[d] /\ RowsOf[job[d]] # <<>>
  /\ pc[d] = "main" => success[d] /\ step[d] >= 1 /\ (step[d] > 1 => d \in hasWork)
  /\ pc[d] = "handler" /\ success[d] /\ RowsOf[job[d]] # <<>> => d \in hasWork
  /\ pc[d] = "commit" /\ d \in hasWork => d \in hasStatus
  /\ d \in hasStatus /\ success[d] /\ RowsOf[job[d]] # <<>> => d \in hasWork

(* Why: the lock on the row makes the one that found it pending the only   *)
(* one to decide it, and main work is committed with the status or not at  *)
(* all.                                                                    *)
SessionsInv == WorkedOnce /\ \A d \in Daemons : Holds(d)

(* The jobs whose main work is visible; without main steps there is none   *)
(* to wait for.                                                            *)
Visible == {j \in Jobs : IF RowsOf[j] = <<>> THEN status[j] = "done" ELSE work[j] > 0}

(* Several daemons on one table keep the promise of the ledger as one does.*)
Ledger == INSTANCE JobLedger WITH effect <- Visible
ImplementsLedger == Ledger!Spec

(* No wait for another daemon's rows is for ever: once the faults end,     *)
(* every pending job is decided, circles of waiting sessions included.     *)
DecidedInTheEnd ==
  \A j \in Jobs : calm /\ status[j] = "pending" ~> status[j] \in {"done", "failed"}
=============================================================================
