------------------------- MODULE TwoSessionsProofs --------------------------
(***************************************************************************)
(* Proofs about TwoSessions, for any number of daemons and jobs: the types *)
(* and the invariant of the transactions, that a job's work is committed   *)
(* once, and that the daemons together implement the ledger.               *)
(***************************************************************************)
EXTENDS TwoSessions, TLAPS

-----------------------------------------------------------------------------
(* The types                                                               *)

LEMMA InitTypeOK == Init => TypeOK
<1> SUFFICES ASSUME Init PROVE TypeOK
  OBVIOUS
<1>1. /\ status \in [Jobs -> {"none", "pending", "done", "failed"}]
      /\ work \in [Jobs -> Nat]
  BY DEF Init
<1>2. /\ lock \in [Rows \cup Jobs -> Daemons \cup {Nobody}]
      /\ job \in [Daemons -> Jobs \cup {Nobody}]
  BY DEF Init
<1>3. pc \in [Daemons -> {"down", "idle", "next", "main", "handler", "commit"}]
  BY DEF Init
<1>4. todo \in [Daemons -> SUBSET Jobs] /\ step \in [Daemons -> Nat]
  BY DEF Init
<1>5. /\ success \in [Daemons -> BOOLEAN] /\ calm \in BOOLEAN
      /\ hasWork \subseteq Daemons /\ hasStatus \subseteq Daemons
  BY DEF Init
<1> QED
  BY <1>1, <1>2, <1>3, <1>4, <1>5 DEF TypeOK

(* A row that a main step updates is one of Rows.                          *)
LEMMA RowOfStep ==
  ASSUME NEW j \in Jobs, NEW k \in Nat, 1 <= k, k <= Len(RowsOf[j])
  PROVE  RowsOf[j][k] \in Rows
<1>1. RowsOf[j] \in Seq(Rows)
  BY RowsAssumption
<1> QED
  BY <1>1

(* Ending a transaction keeps the types of its variables.                  *)
LEMMA RollbackType ==
  ASSUME TypeOK, NEW d \in Daemons, Rollback(d)
  PROVE  /\ lock' \in [Rows \cup Jobs -> Daemons \cup {Nobody}]
         /\ hasWork' \subseteq Daemons /\ hasStatus' \subseteq Daemons
  BY DEF TypeOK, Rollback, Released

LEMMA NextTypeOK == TypeOK /\ SessionsInv /\ [Next]_vars => TypeOK'
<1> SUFFICES ASSUME TypeOK, SessionsInv, [Next]_vars PROVE TypeOK'
  OBVIOUS
<1> USE DEF TypeOK, table, transaction, vars
<1>1. ASSUME NEW j \in Jobs, Submit(j) PROVE TypeOK'
  BY <1>1 DEF Submit
<1>2. ASSUME NEW d \in Daemons, Start(d) PROVE TypeOK'
  BY <1>2 DEF Start
<1>3. ASSUME NEW d \in Daemons, LoadGenerateFile(d) PROVE TypeOK'
  BY <1>3 DEF LoadGenerateFile
<1>4. ASSUME NEW d \in Daemons, NextJob(d) PROVE TypeOK'
  BY <1>4 DEF NextJob
<1>5. ASSUME NEW d \in Daemons, EndCycle(d) PROVE TypeOK'
  BY <1>5 DEF EndCycle
<1>6. ASSUME NEW d \in Daemons, MainStep(d) PROVE TypeOK'
  <2>1. job[d] \in Jobs /\ step[d] >= 1
    BY <1>6 DEF MainStep, SessionsInv, Holds
  <2>2. RowsOf[job[d]][step[d]] \in Rows
    BY <1>6, <2>1, RowOfStep DEF MainStep
  <2> QED
    BY <1>6, <2>2 DEF MainStep
<1>7. ASSUME NEW d \in Daemons, MainStepFails(d) PROVE TypeOK'
  BY <1>7, RollbackType DEF MainStepFails
<1>8. ASSUME NEW d \in Daemons, MainDone(d) PROVE TypeOK'
  BY <1>8 DEF MainDone
<1>9. ASSUME NEW d \in Daemons, HandlerStep(d) PROVE TypeOK'
  <2>1. job[d] \in Jobs
    BY <1>9 DEF HandlerStep, SessionsInv, Holds
  <2> QED
    BY <1>9, <2>1 DEF HandlerStep
<1>10. ASSUME NEW d \in Daemons, HandlerStepFails(d) PROVE TypeOK'
  BY <1>10, RollbackType DEF HandlerStepFails
<1>11. ASSUME NEW d \in Daemons, Commit(d) PROVE TypeOK'
  <2>1. job[d] \in Jobs
    BY <1>11 DEF Commit, SessionsInv, Holds
  <2>2. /\ status' \in [Jobs -> {"none", "pending", "done", "failed"}]
        /\ work' \in [Jobs -> Nat]
    BY <1>11, <2>1 DEF Commit, Decision
  <2> QED
    BY <1>11, <2>2, RollbackType DEF Commit
<1>12. ASSUME NEW d \in Daemons, Kill(d) PROVE TypeOK'
  BY <1>12, RollbackType DEF Kill
<1>13. CASE Settle
  BY <1>13 DEF Settle
<1>14. CASE UNCHANGED vars
  BY <1>14
<1> QED
  BY <1>1, <1>2, <1>3, <1>4, <1>5, <1>6, <1>7, <1>8, <1>9, <1>10, <1>11, <1>12,
     <1>13, <1>14 DEF Next, Runs

-----------------------------------------------------------------------------
(* The transactions                                                        *)

LEMMA InitSessions == Init => SessionsInv
  BY DEF Init, SessionsInv, WorkedOnce, Holds

(* A daemon whose own variables, and the rows it has locked, stay as they  *)
(* are keeps what it holds, when the job it is about to decide does too.   *)
LEMMA OthersKeep ==
  ASSUME NEW e \in Daemons, Holds(e),
         pc'[e] = pc[e], job'[e] = job[e], step'[e] = step[e], success'[e] = success[e],
         e \in hasWork' <=> e \in hasWork, e \in hasStatus' <=> e \in hasStatus,
         e \in hasStatus => lock'[job[e]] = e /\ status'[job[e]] = "pending"
  PROVE  Holds(e)'
  BY DEF Holds

(* Ending d's transaction takes nothing from another daemon.               *)
LEMMA RollbackOthers ==
  ASSUME TypeOK, NEW d \in Daemons, NEW e \in Daemons, e # d, Holds(e), Rollback(d)
  PROVE  /\ e \in hasWork' <=> e \in hasWork
         /\ e \in hasStatus' <=> e \in hasStatus
         /\ e \in hasStatus => lock'[job[e]] = e
  BY DEF TypeOK, Rollback, Released, Holds

(* A step of d that is about no other daemon: what is left is d's own part *)
(* of the invariant, and the work of the jobs.                             *)
LEMMA OwnStep ==
  ASSUME TypeOK, SessionsInv, NEW d \in Daemons, UNCHANGED table, Holds(d)',
         \A e \in Daemons \ {d} : Holds(e)'
  PROVE  SessionsInv'
  BY DEF SessionsInv, WorkedOnce, table

(* A step that only moves daemon d, and touches no transaction.            *)
LEMMA MoveOthers ==
  ASSUME TypeOK, SessionsInv, NEW d \in Daemons, UNCHANGED <<table, transaction>>,
         \A e \in Daemons \ {d} :
            pc'[e] = pc[e] /\ job'[e] = job[e] /\ step'[e] = step[e] /\ success'[e] = success[e]
  PROVE  \A e \in Daemons \ {d} : Holds(e)'
<1> TAKE e \in Daemons \ {d}
<1> Holds(e)
  BY DEF SessionsInv
<1> QED
  BY DEF Holds, table, transaction

LEMMA SubmitSessions ==
  ASSUME TypeOK, SessionsInv, NEW j \in Jobs, Submit(j)
  PROVE  SessionsInv'
<1>1. WorkedOnce'
  BY DEF TypeOK, SessionsInv, WorkedOnce, Submit
<1>2. ASSUME NEW e \in Daemons PROVE Holds(e)'
  <2>1. Holds(e)
    BY DEF SessionsInv
  <2>2. e \in hasStatus => status'[job[e]] = "pending"
    BY <2>1 DEF TypeOK, Holds, Submit
  <2> QED
    BY <2>1, <2>2, OthersKeep DEF Submit, transaction, Holds
<1> QED
  BY <1>1, <1>2 DEF SessionsInv

LEMMA StartSessions ==
  ASSUME TypeOK, SessionsInv, NEW d \in Daemons, Start(d)
  PROVE  SessionsInv'
<1>1. Holds(d)
  BY DEF SessionsInv
<1>2. Holds(d)'
  BY <1>1 DEF Start, Holds, TypeOK, table, transaction
<1>3. \A e \in Daemons \ {d} : Holds(e)'
  BY MoveOthers DEF Start, TypeOK
<1> QED
  BY <1>2, <1>3, OwnStep DEF Start

LEMMA LoadSessions ==
  ASSUME TypeOK, SessionsInv, NEW d \in Daemons, LoadGenerateFile(d) \/ EndCycle(d)
  PROVE  SessionsInv'
<1>1. Holds(d)
  BY DEF SessionsInv
<1>2. Holds(d)'
  BY <1>1 DEF LoadGenerateFile, EndCycle, Holds, TypeOK, table, transaction
<1>3. \A e \in Daemons \ {d} : Holds(e)'
  BY MoveOthers DEF LoadGenerateFile, EndCycle, TypeOK
<1> QED
  BY <1>2, <1>3, OwnStep DEF LoadGenerateFile, EndCycle

LEMMA NextJobSessions ==
  ASSUME TypeOK, SessionsInv, NEW d \in Daemons, NextJob(d)
  PROVE  SessionsInv'
<1>1. Holds(d)
  BY DEF SessionsInv
<1>2. job'[d] \in Jobs
  BY DEF NextJob, TypeOK
<1>3. Holds(d)'
  BY <1>1, <1>2 DEF NextJob, Holds, TypeOK, table, transaction
<1>4. \A e \in Daemons \ {d} : Holds(e)'
  BY MoveOthers DEF NextJob, TypeOK
<1> QED
  BY <1>3, <1>4, OwnStep DEF NextJob

LEMMA MainDoneSessions ==
  ASSUME TypeOK, SessionsInv, NEW d \in Daemons, MainDone(d)
  PROVE  SessionsInv'
<1>1. Holds(d) /\ job[d] \in Jobs
  BY DEF SessionsInv, Holds, MainDone
<1>2. RowsOf[job[d]] # <<>> => step[d] > 1
  <2>1. RowsOf[job[d]] \in Seq(Rows)
    BY <1>1, RowsAssumption
  <2>2. Len(RowsOf[job[d]]) \in Nat /\ (RowsOf[job[d]] # <<>> => Len(RowsOf[job[d]]) >= 1)
    BY <2>1
  <2> QED
    BY <2>2 DEF MainDone, TypeOK
<1>3. Holds(d)'
  BY <1>1, <1>2 DEF MainDone, Holds, TypeOK, table, transaction
<1>4. \A e \in Daemons \ {d} : Holds(e)'
  BY MoveOthers DEF MainDone, TypeOK
<1> QED
  BY <1>3, <1>4, OwnStep DEF MainDone

(* A lock that d takes was free, so no other daemon decides that row.      *)
LEMMA MainStepSessions ==
  ASSUME TypeOK, SessionsInv, NEW d \in Daemons, MainStep(d)
  PROVE  SessionsInv'
<1>1. Holds(d) /\ job[d] \in Jobs /\ step[d] >= 1
  BY DEF SessionsInv, Holds, MainStep
<1> DEFINE row == RowsOf[job[d]][step[d]]
<1>2. row \in Rows /\ RowsOf[job[d]] # <<>>
  <2>1. row \in Rows
    BY <1>1, RowOfStep DEF MainStep, TypeOK
  <2>2. Len(<<>>) = 0
    OBVIOUS
  <2>3. Len(RowsOf[job[d]]) >= 1
    <3>1. Len(RowsOf[job[d]]) \in Nat
      BY <1>1, RowsAssumption
    <3> QED
      BY <1>1, <3>1 DEF MainStep, TypeOK
  <2> QED
    BY <2>1, <2>2, <2>3
<1>3. /\ lock' = [lock EXCEPT ![row] = d] /\ hasWork' = hasWork \cup {d}
      /\ step' = [step EXCEPT ![d] = @ + 1] /\ pc[d] = "main"
      /\ UNCHANGED <<status, work, hasStatus, pc, job, success>>
  BY DEF MainStep, table
<1> HIDE DEF row
<1>4. Holds(d)'
  <2>1. d \notin hasStatus
    BY <1>1, <1>3 DEF Holds
  <2> QED
    BY <1>1, <1>2, <1>3, <2>1 DEF Holds, TypeOK
<1>5. ASSUME NEW e \in Daemons \ {d} PROVE Holds(e)'
  <2>1. Holds(e)
    BY DEF SessionsInv
  <2>2. e \in hasStatus => lock'[job[e]] = e
    <3> SUFFICES ASSUME e \in hasStatus PROVE lock'[job[e]] = e
      OBVIOUS
    <3>1. job[e] \in Jobs /\ lock[job[e]] = e
      BY <2>1 DEF Holds
    <3>2. job[e] # row
      BY <3>1, <1>2, RowsAssumption
    <3> QED
      BY <3>1, <3>2, <1>3 DEF TypeOK
  <2> QED
    BY <2>1, <2>2, <1>3, OthersKeep DEF Holds, TypeOK
<1> QED
  BY <1>4, <1>5, OwnStep DEF MainStep

LEMMA HandlerStepSessions ==
  ASSUME TypeOK, SessionsInv, NEW d \in Daemons, HandlerStep(d)
  PROVE  SessionsInv'
<1>1. Holds(d) /\ job[d] \in Jobs
  BY DEF SessionsInv, Holds, HandlerStep
<1>2. /\ lock' = [lock EXCEPT ![job[d]] = d] /\ hasStatus' = hasStatus \cup {d}
      /\ pc' = [pc EXCEPT ![d] = "commit"] /\ pc[d] = "handler"
      /\ status[job[d]] = "pending" /\ lock[job[d]] \in {Nobody, d}
      /\ UNCHANGED <<status, work, hasWork, step, job, success>>
  BY DEF HandlerStep, Free, Updates, table
<1>3. Holds(d)'
  BY <1>1, <1>2 DEF Holds, TypeOK
<1>4. ASSUME NEW e \in Daemons \ {d} PROVE Holds(e)'
  <2>1. Holds(e)
    BY DEF SessionsInv
  <2>2. e \in hasStatus => lock'[job[e]] = e
    <3> SUFFICES ASSUME e \in hasStatus PROVE lock'[job[e]] = e
      OBVIOUS
    <3>1. job[e] \in Jobs /\ lock[job[e]] = e
      BY <2>1 DEF Holds
    <3>2. job[e] # job[d]
      BY <3>1, <1>2, NobodyAssumption
    <3> QED
      BY <3>1, <3>2, <1>2 DEF TypeOK
  <2> QED
    BY <2>1, <2>2, <1>2, OthersKeep DEF Holds, TypeOK
<1> QED
  BY <1>3, <1>4, OwnStep DEF HandlerStep

LEMMA FailsSessions ==
  ASSUME TypeOK, SessionsInv, NEW d \in Daemons,
         MainStepFails(d) \/ HandlerStepFails(d) \/ Kill(d)
  PROVE  SessionsInv'
<1>1. Holds(d) /\ Rollback(d) /\ UNCHANGED table
  BY DEF SessionsInv, MainStepFails, HandlerStepFails, Kill
<1>2. d \notin hasWork' /\ d \notin hasStatus'
  BY <1>1 DEF Rollback
<1>3. Holds(d)'
  BY <1>1, <1>2 DEF Holds, TypeOK, MainStepFails, HandlerStepFails, Kill, table
<1>4. ASSUME NEW e \in Daemons \ {d} PROVE Holds(e)'
  <2>1. Holds(e)
    BY DEF SessionsInv
  <2>2. /\ e \in hasWork' <=> e \in hasWork
        /\ e \in hasStatus' <=> e \in hasStatus
        /\ e \in hasStatus => lock'[job[e]] = e
    BY <1>1, <2>1, RollbackOthers
  <2>3. pc'[e] = pc[e] /\ job'[e] = job[e] /\ step'[e] = step[e] /\ success'[e] = success[e]
    BY DEF TypeOK, MainStepFails, HandlerStepFails, Kill
  <2> QED
    BY <1>1, <2>1, <2>2, <2>3, OthersKeep DEF Holds, table
<1> QED
  BY <1>1, <1>3, <1>4, OwnStep

(* The commit: nobody else holds the row, and it was still pending, so its *)
(* work has not been committed before.                                     *)
LEMMA CommitSessions ==
  ASSUME TypeOK, SessionsInv, NEW d \in Daemons, Commit(d)
  PROVE  SessionsInv'
<1>1. Holds(d) /\ job[d] \in Jobs /\ pc[d] = "commit" /\ Rollback(d)
  BY DEF SessionsInv, Holds, Commit
<1>2. /\ status' = IF d \in hasStatus
                   THEN [status EXCEPT ![job[d]] = Decision(d)] ELSE status
      /\ work' = IF d \in hasWork THEN [work EXCEPT ![job[d]] = @ + 1] ELSE work
  BY DEF Commit
<1>3. WorkedOnce'
  <2>0. WorkedOnce
    BY DEF SessionsInv
  <2>1. CASE d \notin hasStatus
    <3>1. d \notin hasWork
      BY <1>1, <2>1 DEF Holds
    <3> QED
      BY <1>2, <2>0, <2>1, <3>1 DEF WorkedOnce
  <2>2. CASE d \in hasStatus
    <3>1. status[job[d]] = "pending" /\ work[job[d]] = 0
      BY <1>1, <2>0, <2>2 DEF Holds, WorkedOnce
    <3>2. d \in hasWork <=> success[d] /\ RowsOf[job[d]] # <<>>
      BY <1>1, <2>2 DEF Holds
    <3>3. /\ status'[job[d]] = Decision(d)
          /\ work'[job[d]] = IF d \in hasWork THEN 1 ELSE 0
      BY <1>1, <1>2, <2>2, <3>1 DEF TypeOK
    <3>4. work'[job[d]] =
            IF status'[job[d]] = "done" /\ RowsOf[job[d]] # <<>> THEN 1 ELSE 0
      BY <3>2, <3>3 DEF Decision
    <3>5. ASSUME NEW j \in Jobs, j # job[d]
          PROVE  status'[j] = status[j] /\ work'[j] = work[j]
      BY <1>2, <3>5 DEF TypeOK
    <3> QED
      BY <2>0, <3>4, <3>5 DEF WorkedOnce
  <2> QED
    BY <2>1, <2>2
<1>4. Holds(d)'
  <2>1. d \notin hasWork' /\ d \notin hasStatus' /\ pc'[d] = "next"
    BY <1>1 DEF Rollback, Commit, TypeOK
  <2> QED
    BY <2>1 DEF Holds
<1>5. ASSUME NEW e \in Daemons \ {d} PROVE Holds(e)'
  <2>1. Holds(e)
    BY DEF SessionsInv
  <2>2. /\ e \in hasWork' <=> e \in hasWork
        /\ e \in hasStatus' <=> e \in hasStatus
        /\ e \in hasStatus => lock'[job[e]] = e
    BY <1>1, <2>1, RollbackOthers
  <2>3. pc'[e] = pc[e] /\ job'[e] = job[e] /\ step'[e] = step[e] /\ success'[e] = success[e]
    BY DEF TypeOK, Commit
  <2>4. e \in hasStatus => status'[job[e]] = "pending"
    <3> SUFFICES ASSUME e \in hasStatus PROVE status'[job[e]] = "pending"
      OBVIOUS
    <3>1. job[e] \in Jobs /\ lock[job[e]] = e /\ status[job[e]] = "pending"
      BY <2>1 DEF Holds
    <3>2. d \in hasStatus => job[e] # job[d]
      BY <1>1, <3>1 DEF Holds
    <3> QED
      BY <1>2, <3>1, <3>2 DEF TypeOK
  <2> QED
    BY <2>1, <2>2, <2>3, <2>4, OthersKeep
<1> QED
  BY <1>3, <1>4, <1>5 DEF SessionsInv

LEMMA NextSessions == TypeOK /\ SessionsInv /\ [Next]_vars => SessionsInv'
<1> SUFFICES ASSUME TypeOK, SessionsInv, [Next]_vars PROVE SessionsInv'
  OBVIOUS
<1>1. ASSUME NEW d \in Daemons, Start(d) \/ Runs(d) \/ Kill(d)
      PROVE  SessionsInv'
  BY <1>1, StartSessions, LoadSessions, NextJobSessions, MainStepSessions, FailsSessions,
     MainDoneSessions, HandlerStepSessions, CommitSessions DEF Runs
<1>2. CASE Settle
  BY <1>2 DEF Settle, SessionsInv, WorkedOnce, Holds, table, transaction
<1>3. CASE UNCHANGED vars
  BY <1>3 DEF SessionsInv, WorkedOnce, Holds, vars, table, transaction
<1> QED
  BY <1>1, <1>2, <1>3, SubmitSessions DEF Next

-----------------------------------------------------------------------------
(* What holds in every reachable state                                     *)

(* The types and the invariant of the transactions, for any number of      *)
(* daemons, jobs and steps, and wherever daemons are killed.               *)
THEOREM SessionsTypeAndInv == Spec => [](TypeOK /\ SessionsInv)
<1>1. Init => TypeOK /\ SessionsInv
  BY InitTypeOK, InitSessions
<1>2. TypeOK /\ SessionsInv /\ [Next]_vars => (TypeOK /\ SessionsInv)'
  BY NextTypeOK, NextSessions
<1> QED
  BY <1>1, <1>2, PTL DEF Spec

(* The variables of the daemons keep their types.                          *)
THEOREM SessionsTypeOK == Spec => []TypeOK
  BY SessionsTypeAndInv, PTL

(* A job's main work is committed once when its row says done, and never   *)
(* otherwise, however many daemons have it in their lists.                 *)
THEOREM WorkedOnceHolds == Spec => []WorkedOnce
<1>1. SessionsInv => WorkedOnce
  BY DEF SessionsInv
<1> QED
  BY <1>1, SessionsTypeAndInv, PTL

-----------------------------------------------------------------------------
(* The ledger                                                              *)

LEMMA VisibleDone ==
  ASSUME TypeOK, SessionsInv
  PROVE  Visible = {j \in Jobs : status[j] = "done"}
<1>1. WorkedOnce
  BY DEF SessionsInv
<1> QED
  BY <1>1 DEF Visible, WorkedOnce

LEMMA InitLedger == Init => Ledger!Init
  BY DEF Init, Visible, Ledger!Init

LEMMA SubmitLedger ==
  ASSUME TypeOK, NEW j \in Jobs, Submit(j)
  PROVE  Ledger!Submit(j)
<1>1. Visible' = Visible
  BY DEF Submit, Visible, TypeOK
<1> QED
  BY <1>1 DEF Submit, Ledger!Submit

LEMMA CommitLedger ==
  ASSUME TypeOK, SessionsInv, TypeOK', SessionsInv', NEW d \in Daemons, Commit(d)
  PROVE  [Ledger!Next]_(Ledger!vars)
<1>1. Holds(d) /\ job[d] \in Jobs
  BY DEF SessionsInv, Holds, Commit
<1>2. Visible = {j \in Jobs : status[j] = "done"}
  BY VisibleDone
<1>3. Visible' = {j \in Jobs : status'[j] = "done"}
  <2>1. WorkedOnce'
    BY DEF SessionsInv
  <2> QED
    BY <2>1 DEF Visible, WorkedOnce
<1>4. CASE d \notin hasStatus
  <2>1. status' = status
    BY <1>4 DEF Commit
  <2> QED
    BY <2>1, <1>2, <1>3 DEF Ledger!vars
<1>5. CASE d \in hasStatus
  <2>1. /\ status[job[d]] = "pending"
        /\ status' = [status EXCEPT ![job[d]] = Decision(d)]
    BY <1>1, <1>5 DEF Holds, Commit
  <2>2. CASE success[d]
    <3>1. status' = [status EXCEPT ![job[d]] = "done"]
      BY <2>1, <2>2 DEF Decision
    <3>2. Visible' = Visible \cup {job[d]}
      BY <3>1, <1>1, <1>2, <1>3 DEF TypeOK
    <3> QED
      BY <2>1, <3>1, <3>2, <1>1 DEF Ledger!Next, Ledger!Complete
  <2>3. CASE ~success[d]
    <3>1. status' = [status EXCEPT ![job[d]] = "failed"]
      BY <2>1, <2>3 DEF Decision
    <3>2. Visible' = Visible
      BY <3>1, <2>1, <1>1, <1>2, <1>3 DEF TypeOK
    <3> QED
      BY <2>1, <3>1, <3>2, <1>1 DEF Ledger!Next, Ledger!Fail
  <2> QED
    BY <2>2, <2>3
<1> QED
  BY <1>4, <1>5

(* The other steps leave the table alone.                                  *)
LEMMA TableSteps ==
  ASSUME [Next]_vars
  PROVE  \/ UNCHANGED table
         \/ \E j \in Jobs : Submit(j)
         \/ \E d \in Daemons : Commit(d)
<1>1. ASSUME NEW d \in Daemons, Start(d) \/ Runs(d) \/ Kill(d)
      PROVE  UNCHANGED table \/ Commit(d)
  BY <1>1 DEF Runs, Start, LoadGenerateFile, NextJob, EndCycle, MainStep, MainStepFails,
     MainDone, HandlerStep, HandlerStepFails, Kill
<1> QED
  BY <1>1 DEF Next, Settle, vars

(* Any number of daemons on one table keep the promise that one makes: a   *)
(* row is decided once, and its work is visible exactly when it is done.   *)
THEOREM LedgerImplemented == Spec => ImplementsLedger
<1>1. /\ TypeOK /\ SessionsInv /\ (TypeOK /\ SessionsInv)' /\ [Next]_vars
      => [Ledger!Next]_(Ledger!vars)
  <2> SUFFICES ASSUME TypeOK, SessionsInv, TypeOK', SessionsInv', [Next]_vars
               PROVE  [Ledger!Next]_(Ledger!vars)
    OBVIOUS
  <2>1. CASE UNCHANGED table
    BY <2>1 DEF table, Visible, Ledger!vars
  <2>2. ASSUME NEW j \in Jobs, Submit(j) PROVE Ledger!Next
    BY <2>2, SubmitLedger DEF Ledger!Next
  <2>3. ASSUME NEW d \in Daemons, Commit(d) PROVE [Ledger!Next]_(Ledger!vars)
    BY <2>3, CommitLedger
  <2> QED
    BY <2>1, <2>2, <2>3, TableSteps
<1> QED
  BY <1>1, InitLedger, SessionsTypeAndInv, PTL DEF Spec, ImplementsLedger, Ledger!Spec
=============================================================================
