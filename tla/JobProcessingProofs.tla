------------------------ MODULE JobProcessingProofs -------------------------
(***************************************************************************)
(* Proofs about process(), for every job table, every configuration that   *)
(* is well formed, and every combination of faults.                        *)
(***************************************************************************)
EXTENDS JobProcessing, TLAPS

-----------------------------------------------------------------------------
(* The outcomes of a configured step, whatever the faults                  *)

(* sql_execute returns -1, 0 or 1, and nothing but -1 on a connection      *)
(* that does not work.                                                     *)
LEMMA SqlExecuteResult ==
  ASSUME NEW up \in BOOLEAN
  PROVE  /\ SqlExecute(up) \subseteq {-1, 0, 1}
         /\ ~up => SqlExecute(up) = {-1}
BY DEF SqlExecute, Maybe

(* The row check accepts or refuses.                                       *)
LEMMA CheckDataAclResult ==
  ASSUME NEW s, NEW up \in BOOLEAN
  PROVE  CheckDataAcl(s, up) \subseteq {-1, 0}
BY SqlExecuteResult DEF CheckDataAcl

(* A select leaves no change and a well-typed outcome.                     *)
LEMMA SelectOutcome ==
  ASSUME NEW s \in Step, NEW up \in BOOLEAN,
         NEW o \in SelectOne(s, up) \cup SelectList(s, up) \cup SelectPage(s, up)
  PROVE  o \in Outcome /\ o.dml = "no"
<1> USE SqlExecuteResult DEF Ret, Result, Outcome, Step
<1>1. CASE o \in SelectOne(s, up) BY <1>1 DEF SelectOne
<1>2. CASE o \in SelectList(s, up) BY <1>2 DEF SelectList
<1>3. CASE o \in SelectPage(s, up) BY <1>3 DEF SelectPage
<1>4. QED BY <1>1, <1>2, <1>3

(* Every statement module needs the connection for its changes.            *)
LEMMA DmlRowOutcome ==
  ASSUME NEW s \in Step, NEW up \in BOOLEAN, NEW o \in DmlRow(s, up)
  PROVE  o \in Outcome /\ o.file = "same" /\ (o.dml = "yes" => up)
<1> USE SqlExecuteResult, CheckDataAclResult
        DEF Result, YesIf, NoEffect, Failed, Outcome, Step
<1>1. CASE o \in Insert(s, up)
  <2>1. ASSUME NEW keys \in SUBSET Keys, o \in InsertRow(s, up, keys)
        PROVE  o \in Outcome /\ o.file = "same" /\ (o.dml = "yes" => up)
    BY <2>1 DEF InsertRow
  <2>2. o = Failed \/ \E keys \in SUBSET Keys : o \in InsertRow(s, up, keys)
    BY <1>1 DEF Insert
  <2>3. QED BY <2>1, <2>2
<1>2. CASE o \in Update(s, up)
  BY <1>2 DEF Update
<1>3. CASE o \in Delete(s, up)
  BY <1>3 DEF Delete, Ret
<1>4. CASE o \in CallProc(s, up)
  BY <1>4 DEF CallProc
<1>5. QED BY <1>1, <1>2, <1>3, <1>4 DEF DmlRow

(* An export, upload or download leaves no change and a well-typed         *)
(* outcome.                                                                *)
LEMMA FileOutcome ==
  ASSUME NEW s \in Step, NEW up \in BOOLEAN, NEW exists \in BOOLEAN,
         NEW o \in ExportTxt(s, up) \cup Upload(s, exists) \cup Download(s)
  PROVE  o \in Outcome /\ o.dml = "no"
<1> USE SqlExecuteResult DEF Maybe, Result, NoEffect, Failed, Outcome, Step
<1>1. CASE o \in ExportTxt(s, up) BY <1>1 DEF ExportTxt
<1>2. CASE o \in Upload(s, exists) BY <1>2 DEF Upload, Unread
<1>3. CASE o \in Download(s) BY <1>3 DEF Download
<1>4. QED BY <1>1, <1>2, <1>3

(* A batch of rows leaves a change only if one of its rows could.          *)
LEMMA BatchOutcome ==
  ASSUME NEW up \in BOOLEAN, NEW outs,
         \A o \in outs : o \in Outcome /\ o.file = "same" /\ (o.dml = "yes" => up),
         NEW o \in Batch(outs)
  PROVE  o \in Outcome /\ o.file = "same" /\ (o.dml = "yes" => up)
<1> DEFINE rows == {[r EXCEPT !.keys = {}] : r \in outs}
<1>1. \A r \in rows : r \in Outcome /\ r.file = "same" /\ (r.dml = "yes" => up)
  BY DEF Outcome
<1>2. CASE o \in rows
  BY <1>1, <1>2
<1>3. CASE o \in Maybe("rows", NoEffect) \cup Maybe("rows", Failed)
  BY <1>3 DEF Maybe, NoEffect, Failed, Result, Outcome
<1>4. CASE o \in {[r EXCEPT !.dml = "yes"] : r \in {r \in rows : \E q \in rows :
                                                  q.ret = 0 /\ q.dml = "yes"}}
  BY <1>1, <1>4 DEF Outcome
<1>5. QED BY <1>2, <1>3, <1>4 DEF Batch

(* A step's outcome is well typed, and a change needs a connection.        *)
THEOREM ExecuteConfigOutcome ==
  ASSUME NEW s \in Step, NEW up \in BOOLEAN, NEW exists \in BOOLEAN,
         NEW o \in ExecuteConfig(s, up, exists)
  PROVE  o \in Outcome /\ (o.dml = "yes" => up)
<1> DEFINE Ok(p) == p \in Outcome /\ (p.dml = "yes" => up)
<1>1. Ok(NoEffect) /\ Ok(Failed)
  BY DEF NoEffect, Failed, Result, Outcome
<1>2. ASSUME o \in RunModule(s, up, exists)
      PROVE  Ok(o)
  <2>1. \A outs : (\A p \in outs : Ok(p)) => \A p \in Tested(s, outs) : Ok(p)
    BY <1>1 DEF Tested
  <2>2. \A p \in SelectOne(s, up) \cup SelectList(s, up) \cup SelectPage(s, up) : Ok(p)
    BY SelectOutcome
  <2>3. \A p \in DmlRow(s, up) : Ok(p)
    BY DmlRowOutcome
  <2>4. \A p \in Batch(Tested(s, DmlRow(s, up))) : Ok(p)
    <3>1. \A p \in Tested(s, DmlRow(s, up)) :
            p \in Outcome /\ p.file = "same" /\ (p.dml = "yes" => up)
      BY DmlRowOutcome, <1>1 DEF Tested, NoEffect, Result
    <3>2. QED BY <3>1, BatchOutcome
  <2>5. \A p \in BatchSelect(Tested(s, SelectRow(s, up))) : Ok(p)
    BY <1>1, <2>1, <2>2 DEF BatchSelect, SelectRow, Maybe
  <2>6. \A p \in Copy(s) \cup BatchCopy(s) \cup Add(s) : Ok(p)
    BY <1>1 DEF Copy, BatchCopy, Add, Maybe, Result, Outcome, Step
  <2>7. \A p \in ExportTxt(s, up) \cup Upload(s, exists) \cup Download(s) : Ok(p)
    BY FileOutcome
  <2>8. QED
    BY <1>2, <2>1, <2>2, <2>3, <2>4, <2>5, <2>6, <2>7 DEF RunModule, ExportXls
<1>3. CASE s.module \notin ModuleNames
  BY <1>1, <1>3 DEF ExecuteConfig
<1>4. CASE s.module \in ModuleNames
  BY <1>1, <1>2, <1>4 DEF ExecuteConfig
<1>5. QED BY <1>3, <1>4

(* The steps that may set a row's status: success implies the change.      *)
THEOREM CertainWrites ==
  ASSUME NEW s \in Step, NEW up \in BOOLEAN, NEW exists \in BOOLEAN, Certain(s),
         NEW o \in ExecuteConfig(s, up, exists), o.ret = 0
  PROVE  o.dml = "yes"
<1>1. o \in Update(s, up) \cup CallProc(s, up)
  BY DEF Certain, ExecuteConfig, RunModule, DmlRow, Tested, ModuleNames,
         Selects, BatchSelects, BatchDmls
<1>2. CASE o \in Update(s, up)
  BY <1>2, SqlExecuteResult, CheckDataAclResult DEF Update, Result, YesIf
<1>3. CASE o \in CallProc(s, up)
  BY <1>3, SqlExecuteResult DEF CallProc, Result, Failed
<1>4. QED BY <1>1, <1>2, <1>3

(* The steps whose members are surely the job's own after a success.       *)
LEMMA AlwaysWritesKeys ==
  ASSUME NEW s \in Step, NEW up \in BOOLEAN, NEW exists \in BOOLEAN, AlwaysWrites(s),
         NEW o \in ExecuteConfig(s, up, exists), o.ret = 0
  PROVE  o.keys = s.keys
<1>1. o \in Add(s) \cup Copy(s) \cup SelectList(s, up) \cup CallProc(s, up)
  BY DEF AlwaysWrites, ExecuteConfig, RunModule, DmlRow, Tested, ModuleNames,
         Selects, BatchSelects, BatchDmls
<1>2. CASE o \in Add(s)
  BY <1>2 DEF Add, Result
<1>3. CASE o \in Copy(s)
  BY <1>3 DEF Copy, Maybe, Failed, Result
<1>4. CASE o \in SelectList(s, up)
  BY <1>4 DEF SelectList, Result
<1>5. CASE o \in CallProc(s, up)
  BY <1>5, SqlExecuteResult DEF CallProc, Failed, Result
<1>6. QED BY <1>1, <1>2, <1>3, <1>4, <1>5

(* An export that succeeds has written its file, whole or cut.             *)
LEMMA ExportsWrite ==
  ASSUME NEW s \in Step, NEW up \in BOOLEAN, NEW exists \in BOOLEAN, Exports(s),
         NEW o \in ExecuteConfig(s, up, exists), o.ret = 0
  PROVE  /\ o.file \in {"whole", "cut"}
         /\ "quiet" \notin Faults => o.file = "whole"
<1>1. o \in ExportTxt(s, up)
  BY DEF Exports, ExecuteConfig, RunModule, ExportXls, ModuleNames,
         Selects, BatchSelects, BatchDmls
<1>2. QED BY <1>1, SqlExecuteResult DEF ExportTxt, Maybe, Failed, NoEffect, Result

(* An upload of a file that is there succeeds only when it has sent it or  *)
(* could not read it.                                                      *)
LEMMA UploadSends ==
  ASSUME NEW s \in Step, NEW up \in BOOLEAN, s.module = "upload", ~s.guarded,
         NEW o \in ExecuteConfig(s, up, TRUE), o.ret = 0
  PROVE  o.sent \in {"yes", "unread"} /\ o.file = "same"
<1>1. o \in Upload(s, TRUE)
  BY DEF ExecuteConfig, RunModule, ModuleNames, Selects, BatchSelects, BatchDmls
<1>2. QED BY <1>1 DEF Upload, Unread, Maybe, Failed, NoEffect, Result

(* No call is taken for a success that it was not when no failure goes     *)
(* unnoticed.                                                              *)
LEMMA NothingQuiet ==
  ASSUME "quiet" \notin Faults,
         NEW s \in Step, NEW up \in BOOLEAN, NEW exists \in BOOLEAN,
         NEW o \in ExecuteConfig(s, up, exists)
  PROVE  o.sent # "unread" /\ o.file # "cut"
<1> DEFINE Loud(p) == p.sent # "unread" /\ p.file # "cut"
<1>0. SqlExecute(up) \subseteq {-1, 0, 1}
  BY SqlExecuteResult
<1>1. Loud(NoEffect) /\ Loud(Failed)
  BY DEF NoEffect, Failed, Result
<1>2. ASSUME o \in RunModule(s, up, exists)
      PROVE  Loud(o)
  <2>1. \A outs : (\A p \in outs : Loud(p)) => \A p \in Tested(s, outs) : Loud(p)
    BY <1>1 DEF Tested
  <2>2. \A p \in SelectOne(s, up) \cup SelectList(s, up) \cup SelectPage(s, up) : Loud(p)
    BY <1>0 DEF SelectOne, SelectList, SelectPage, Result
  <2>3. \A p \in DmlRow(s, up) : Loud(p)
    <3>1. \A p \in Insert(s, up) : Loud(p)
      BY <1>1 DEF Insert, InsertRow, Result
    <3>2. \A p \in Update(s, up) \cup Delete(s, up) \cup CallProc(s, up) : Loud(p)
      BY <1>1 DEF Update, Delete, CallProc, Result
    <3>3. QED BY <3>1, <3>2 DEF DmlRow
  <2>4. \A p \in Batch(Tested(s, DmlRow(s, up))) : Loud(p)
    <3>1. \A p \in Tested(s, DmlRow(s, up)) : p \in Outcome /\ Loud(p)
      BY <1>1, <2>3, DmlRowOutcome DEF Tested, NoEffect, Result, Outcome
    <3>2. \A p \in {[q EXCEPT !.keys = {}] : q \in Tested(s, DmlRow(s, up))} :
            p \in Outcome /\ Loud(p)
      BY <3>1 DEF Outcome
    <3>3. \A q \in Outcome : Loud(q) => Loud([q EXCEPT !.dml = "yes"])
      BY DEF Outcome
    <3> DEFINE outs == Tested(s, DmlRow(s, up))
               rows == {[q EXCEPT !.keys = {}] : q \in outs}
    <3>4. \A p \in rows : p \in Outcome /\ Loud(p)
      BY <3>2
    <3> HIDE DEF outs, rows, Loud
    <3>5. \A p \in rows \cup Maybe("rows", NoEffect) \cup Maybe("rows", Failed) : Loud(p)
      BY <1>1, <3>4 DEF Maybe
    <3>6. \A p \in {[q EXCEPT !.dml = "yes"] : q \in {r \in rows : \E q \in rows :
                                            q.ret = 0 /\ q.dml = "yes"}} : Loud(p)
      BY <3>3, <3>4
    <3>7. \A p \in Batch(outs) : Loud(p)
      BY <3>5, <3>6 DEF Batch, rows
    <3>8. QED BY <3>7 DEF outs
  <2>5. \A p \in BatchSelect(Tested(s, SelectRow(s, up))) : Loud(p)
    BY <1>1, <2>1, <2>2 DEF BatchSelect, SelectRow, Maybe
  <2>6. \A p \in Copy(s) \cup BatchCopy(s) \cup Add(s) : Loud(p)
    BY <1>1 DEF Copy, BatchCopy, Add, Maybe, Result
  <2>7. \A p \in ExportTxt(s, up) : Loud(p)
    BY <1>1 DEF ExportTxt, Maybe, NoEffect, Failed, Result
  <2>8. \A p \in Upload(s, exists) \cup Download(s) : Loud(p)
    BY DEF Upload, Unread, Download, Maybe, NoEffect, Failed, Result
  <2> HIDE DEF Loud
  <2>9. QED
    BY <1>2, <2>1, <2>2, <2>3, <2>4, <2>5, <2>6, <2>7, <2>8 DEF RunModule, ExportXls
<1> HIDE DEF Loud
<1>3. Loud(o)
  BY <1>1, <1>2 DEF ExecuteConfig
<1>4. QED BY <1>3 DEF Loud

-----------------------------------------------------------------------------
(* process()                                                               *)

USE JobsAssumption, ConfigAssumption DEF NoJob

(* A job's steps are a well-formed sequence of steps.                      *)
LEMMA StepsType ==
  ASSUME NEW j \in Jobs
  PROVE  Steps(j) \in Seq(Step) /\ WellFormed(Steps(j))
BY WellFormedAssumption DEF Steps

(* The step in hand is a step of a job's configuration.                    *)
LEMMA AtStepType ==
  ASSUME TypeOK, SessionInv, NEW phase \in {"main", "handle"}, NEW exec,
         AtStep(phase, exec)
  PROVE  /\ job \in Jobs /\ i \in DOMAIN Steps(job)
         /\ Steps(job)[i] \in Step /\ Steps(job)[i].exec = exec
<1>1. job \in Jobs /\ i \in DOMAIN Steps(job) /\ Steps(job)[i].exec = exec
  BY DEF AtStep, SessionInv, JobInHand, InHand
<1>2. QED BY <1>1, StepsType

(* What the current step can do: a well-typed outcome, a change only on a  *)
(* live connection, and for a Certain step that returns 0 there is one.    *)
LEMMA OutcomesFacts ==
  ASSUME NEW s \in Step, NEW o \in Outcomes(s)
  PROVE  /\ o \in Outcome
         /\ o.dml = "yes" => conn = "open"
         /\ Certain(s) /\ o.ret = 0 => o.dml = "yes"
<1>1. PICK up \in BOOLEAN :
        /\ o \in ExecuteConfig(s, up, file[s.file].state # "absent")
        /\ up => conn = "open"
  BY DEF Outcomes
<1>2. (file[s.file].state # "absent") \in BOOLEAN
  OBVIOUS
<1>3. QED BY <1>1, <1>2, ExecuteConfigOutcome, CertainWrites

-----------------------------------------------------------------------------

(* The initial state is well typed and satisfies the session's invariant.  *)
LEMMA InitInv == Init => TypeOK /\ SessionInv
<1>1. Init => TypeOK
  <2> SUFFICES ASSUME Init PROVE TypeOK
    OBVIOUS
  <2>1. genlist \in [Jobs -> Status]
    BY DEF Init, Status
  <2>2. file \in [Files -> FileState]
    BY DEF Init, FileState
  <2>3. reqData \in [Keys -> Jobs \cup {0}]
    BY DEF Init
  <2>4. QED BY <2>1, <2>2, <2>3 DEF Init, TypeOK
<1>2. Init => SessionInv
  BY DEF Init, SessionInv, JobInHand, TxOwn, MainPhase, SuccessIsTx,
         CommitSetsStatus, AppliedDecided, InHand
<1>3. QED BY <1>1, <1>2

(* No step of the specification leaves the types.                          *)
LEMMA TypeStep ==
  ASSUME TypeOK, SessionInv, [Next]_vars
  PROVE  TypeOK'
<1> USE DEF TypeOK, dbVars, reqVars, outVars, Status, FileState
<1>1. ASSUME NEW j \in Jobs, Submit(j) PROVE TypeOK'
  BY <1>1 DEF Submit
<1>2. CASE LoseConnection
  BY <1>2, ConnFaultsAssumption DEF LoseConnection
<1>3. CASE Crash
  <2>1. CASE UNCHANGED file
    BY <1>3, <2>1 DEF Crash, Gone
  <2>2. CASE /\ AtStep("main", "0") \/ AtStep("handle", "1")
             /\ file' = [file EXCEPT ![Steps(job)[i].file] =
                                        [state |-> "partial", by |-> job]]
    <3>1. job \in Jobs
      BY <2>2, AtStepType
    <3>2. file' \in [Files -> FileState]
      BY <2>2, <3>1
    <3>3. QED BY <1>3, <3>2 DEF Crash, Gone
  <2>3. QED BY <1>3, <2>1, <2>2 DEF Crash
<1>4. CASE Boot
  BY <1>4 DEF Boot
<1>5. CASE ReconnectFails
  BY <1>5 DEF ReconnectFails, Gone
<1>6. CASE TestConnection
  BY <1>6 DEF TestConnection
<1>7. CASE LoadGenerateFile \/ LoadFails
  BY <1>7 DEF LoadGenerateFile, LoadFails, FirstOf, Pending
<1>8. CASE PrepareJob
  BY <1>8 DEF PrepareJob
<1>9. CASE EndCycle \/ MainDone \/ HandlerSkip \/ HandlerDone
  <2>1. CASE EndCycle BY <2>1 DEF EndCycle
  <2>2. CASE MainDone BY <2>2 DEF MainDone, Success
  <2>3. CASE HandlerSkip BY <2>3 DEF HandlerSkip
  <2>4. CASE HandlerDone BY <2>4 DEF HandlerDone
  <2>5. QED BY <1>9, <2>1, <2>2, <2>3, <2>4
<1>10. ASSUME NEW s \in Step, NEW o \in Outcomes(s), Output(s, o), job \in Jobs
       PROVE  /\ reqData' \in [Keys -> Jobs \cup {0}]
              /\ file' \in [Files -> FileState]
              /\ delivered' \subseteq Jobs \X Nat
              /\ unseen' \subseteq Jobs \X Nat
  <2>1. o.file \in {"same", "partial", "cut", "whole"} /\ s.file \in Files
    BY <1>10, OutcomesFacts DEF Outcome, Step
  <2>2. reqData' \in [Keys -> Jobs \cup {0}]
    BY <1>10 DEF Output, Members
  <2>3. file' \in [Files -> FileState]
    BY <1>10, <2>1 DEF Output, LocalFile
  <2>4. delivered' \subseteq Jobs \X Nat /\ unseen' \subseteq Jobs \X Nat
    BY <1>10 DEF Output, Sent
  <2>5. QED BY <2>2, <2>3, <2>4
<1>11. ASSUME NEW s \in Step, NEW o, job \in Jobs
       PROVE  Executed(s, o) \subseteq Write
  BY <1>11 DEF Executed, WriteOf, Write
<1>12. CASE MainStep
  <2>1. Steps(job)[i] \in Step /\ job \in Jobs
    BY <1>12, AtStepType DEF MainStep
  <2>2. QED BY <1>12, <2>1, <1>10, <1>11 DEF MainStep
<1>13. CASE HandlerStep
  <2>1. Steps(job)[i] \in Step /\ job \in Jobs
    BY <1>13, AtStepType DEF HandlerStep
  <2>2. QED BY <1>13, <2>1, <1>10, <1>11 DEF HandlerStep
<1>14. CASE MainStepFails
  <2>1. Steps(job)[i] \in Step /\ job \in Jobs
    BY <1>14, AtStepType DEF MainStepFails
  <2>2. QED BY <1>14, <2>1, <1>10 DEF MainStepFails, Rollback, Success
<1>15. CASE HandlerStepFails
  <2>1. Steps(job)[i] \in Step /\ job \in Jobs
    BY <1>15, AtStepType DEF HandlerStepFails
  <2>2. QED BY <1>15, <2>1, <1>10 DEF HandlerStepFails, Rollback
<1>16. CASE Commit
  <2>1. \A j \in Jobs : RowStatus(j) \in Status
    BY DEF RowStatus, Write
  <2>2. {<<w.job, w.step>> : w \in tx} \subseteq Jobs \X Nat
    BY DEF Write
  <2>3. QED BY <1>16, <2>1, <2>2 DEF Commit
<1>17. CASE UNCHANGED vars
  BY <1>17 DEF vars
<1>18. QED
  BY <1>1, <1>2, <1>3, <1>4, <1>5, <1>6, <1>7, <1>8, <1>9, <1>12, <1>13,
     <1>14, <1>15, <1>16, <1>17 DEF Next, Daemon, Cycle, Environment

-----------------------------------------------------------------------------
(* The session's invariant, one action at a time.                          *)

(* After an outcome of 0 the transaction still holds its changes, and the  *)
(* step's own when it made one: of this job and at this index.             *)
LEMMA ExecutedFacts ==
  ASSUME TypeOK, SessionInv, NEW phase \in {"main", "handle"}, NEW exec,
         AtStep(phase, exec), NEW o \in Outcomes(Steps(job)[i]),
         tx' = Executed(Steps(job)[i], o), i' = i + 1, job' = job,
         reqSuccess' = reqSuccess, conn' = conn, pc' = pc
  PROVE  /\ TxOwn'
         /\ tx \subseteq tx'
         /\ \A w \in tx' : w \in tx \/ w.step = i
         /\ o.ret = 0 /\ Certain(Steps(job)[i]) => \E w \in tx' : w.step = i
<1>1. /\ Steps(job)[i] \in Step /\ i \in DOMAIN Steps(job) /\ job \in Jobs
      /\ pc = phase
  BY AtStepType DEF AtStep
<1>2. /\ o.dml = "yes" => conn = "open"
      /\ Certain(Steps(job)[i]) /\ o.ret = 0 => o.dml = "yes"
  BY <1>1, OutcomesFacts
<1>3. i \in Nat /\ DOMAIN Steps(job) \subseteq Nat
  BY <1>1, StepsType DEF TypeOK
<1>4. reqId = job
  BY <1>1 DEF SessionInv, JobInHand, InHand
<1>5. tx' = tx \/ (tx' = tx \cup {WriteOf(Steps(job)[i])} /\ conn = "open")
  BY <1>2 DEF Executed
<1>6. TxOwn'
  BY <1>1, <1>3, <1>4, <1>5
  DEF SessionInv, TxOwn, WriteOf, InHand, Steps
<1>7. o.dml = "yes" => \E w \in tx' : w.step = i
  <2>1. WriteOf(Steps(job)[i]).step = i
    BY DEF WriteOf
  <2>2. QED BY <2>1 DEF Executed
<1>8. \A w \in tx' : w \in tx \/ w.step = i
  BY <1>5 DEF WriteOf
<1>9. QED BY <1>2, <1>5, <1>6, <1>7, <1>8

(* A main step that returns 0 keeps the invariant.                         *)
LEMMA MainStepInv ==
  ASSUME TypeOK, SessionInv, MainStep
  PROVE  SessionInv'
<1> USE DEF MainStep, dbVars
<1>1. PICK o \in Outcomes(Steps(job)[i]) : o.ret = 0 /\ tx' = Executed(Steps(job)[i], o)
  OBVIOUS
<1>2. /\ TxOwn' /\ tx \subseteq tx'
      /\ Certain(Steps(job)[i]) => \E w \in tx' : w.step = i
  BY <1>1, ExecutedFacts
<1>3. JobInHand' /\ AppliedDecided'
  BY DEF SessionInv, JobInHand, AppliedDecided, InHand, AtStep, TypeOK
<1>4. /\ pc = "main" /\ Steps(job)[i].exec = "0" /\ i \in Nat
      /\ DOMAIN Steps(job) \subseteq Nat
  BY AtStepType, StepsType DEF AtStep, TypeOK
<1>5. MainPhase'
  BY <1>2, <1>4 DEF SessionInv, MainPhase, InTx, Steps
<1>6. SuccessIsTx' /\ CommitSetsStatus'
  BY <1>4 DEF SuccessIsTx, CommitSetsStatus
<1>7. QED BY <1>2, <1>3, <1>5, <1>6 DEF SessionInv

(* A handler step that returns 0 keeps the invariant: a change of status   *)
(* says what "success" says.                                               *)
LEMMA HandlerStepInv ==
  ASSUME TypeOK, SessionInv, HandlerStep
  PROVE  SessionInv'
<1> USE DEF HandlerStep, dbVars
<1>1. PICK o \in Outcomes(Steps(job)[i]) : o.ret = 0 /\ tx' = Executed(Steps(job)[i], o)
  OBVIOUS
<1>2. /\ TxOwn' /\ tx \subseteq tx'
      /\ \A w \in tx' : w \in tx \/ w.step = i
      /\ Certain(Steps(job)[i]) => \E w \in tx' : w.step = i
  BY <1>1, ExecutedFacts
<1>3. JobInHand' /\ AppliedDecided'
  BY DEF SessionInv, JobInHand, AppliedDecided, InHand, AtStep, TypeOK
<1>4. /\ pc = "handle" /\ Steps(job)[i].exec = "1" /\ i \in Nat /\ job \in Jobs
      /\ DOMAIN Steps(job) \subseteq Nat
  BY AtStepType, StepsType DEF AtStep, TypeOK
<1>5. MainPhase'
  BY <1>4 DEF MainPhase
<1>6. SuccessIsTx'
  BY <1>2, <1>4 DEF SessionInv, SuccessIsTx, InTx, Steps
<1>7. \A n \in DOMAIN Steps(job) : Steps(job)[n].mark => Certain(Steps(job)[n])
  BY <1>4, StepsType DEF WellFormed
<1>8. CommitSetsStatus'
  BY <1>2, <1>4, <1>7 DEF SessionInv, CommitSetsStatus, InTx, Steps
<1>9. QED BY <1>2, <1>3, <1>5, <1>6, <1>8 DEF SessionInv

(* A main step that fails empties the transaction and keeps the            *)
(* invariant.                                                              *)
LEMMA MainStepFailsInv ==
  ASSUME TypeOK, SessionInv, MainStepFails
  PROVE  SessionInv'
<1> USE DEF MainStepFails, Rollback, dbVars, Success
<1>1. tx' = {} /\ pc' = "handle" /\ reqSuccess' = "0" /\ pc = "main"
  BY DEF AtStep
<1>2. JobInHand' /\ AppliedDecided' /\ TxOwn' /\ MainPhase' /\ SuccessIsTx'
  BY <1>1 DEF SessionInv, JobInHand, AppliedDecided, InHand, TypeOK, TxOwn,
              MainPhase, SuccessIsTx, Steps
<1>3. \A n \in DOMAIN Steps(job) : Steps(job)[n].mark => Steps(job)[n].exec = "1"
  BY AtStepType, StepsType DEF WellFormed
<1>4. CommitSetsStatus'
  BY <1>1, <1>3 DEF SessionInv, MainPhase, CommitSetsStatus, Steps
<1>5. QED BY <1>2, <1>4 DEF SessionInv

(* A handler step that fails empties the transaction and keeps the         *)
(* invariant.                                                              *)
LEMMA HandlerStepFailsInv ==
  ASSUME TypeOK, SessionInv, HandlerStepFails
  PROVE  SessionInv'
<1> USE DEF HandlerStepFails, Rollback, dbVars
<1>1. tx' = {} /\ pc' = "commit" /\ pc = "handle"
  BY DEF AtStep
<1>2. QED
  BY <1>1 DEF SessionInv, JobInHand, AppliedDecided, InHand, TypeOK, TxOwn,
              MainPhase, SuccessIsTx, CommitSetsStatus, Steps

(* The main loop ends with every main step behind it.                      *)
LEMMA MainDoneInv ==
  ASSUME TypeOK, SessionInv, MainDone
  PROVE  SessionInv'
<1> USE DEF MainDone, dbVars
<1>1. /\ pc = "main" /\ pc' = "handle" /\ job \in Jobs /\ i \in Nat /\ i > 0
      /\ UNCHANGED <<job, i, tx, conn, todo, reqId, genlist, applied>>
  BY DEF SessionInv, JobInHand, InHand, TypeOK
<1>2. /\ Steps(job) \in Seq(Step) /\ WellFormed(Steps(job))
      /\ DOMAIN Steps(job) = 1..Len(Steps(job)) /\ Len(Steps(job)) \in Nat
  BY <1>1, StepsType
<1>3. \A n \in DOMAIN Steps(job) : n < i => Steps(job)[n].exec = "0"
  BY <1>1 DEF SessionInv, MainPhase
<1>4. \A n \in DOMAIN Steps(job) : Steps(job)[n].exec = "0" => n < i
  <2> SUFFICES ASSUME NEW n \in DOMAIN Steps(job), ~(n < i)
               PROVE  Steps(job)[n].exec # "0"
    OBVIOUS
  <2>1. i \in DOMAIN Steps(job) /\ Steps(job)[i].exec # "0"
    BY <1>1, <1>2 DEF AtStep
  <2>2. n = i \/ i < n
    BY <1>1, <1>2
  <2>3. i < n => Steps(job)[n].exec # "0"
    BY <1>2, <2>1 DEF WellFormed
  <2>4. QED BY <2>1, <2>2, <2>3
<1>5. \A n \in DOMAIN Steps(job) : Steps(job)[n].mark => Steps(job)[n].exec = "1"
  BY <1>2 DEF WellFormed
<1>6. \A w \in tx : /\ w.step \in DOMAIN Steps(job)
                     /\ Steps(job)[w.step].exec = "0" /\ ~Steps(job)[w.step].mark
  BY <1>3, <1>5 DEF SessionInv, TxOwn
<1>7. JobInHand' /\ AppliedDecided'
  BY <1>1 DEF SessionInv, JobInHand, AppliedDecided, InHand
<1>8. TxOwn'
  BY <1>1, <1>6 DEF SessionInv, TxOwn, InHand, Steps
<1>9. MainPhase'
  BY <1>1 DEF MainPhase
<1>10. SuccessIsTx'
  <2>1. CASE Steps(job) = <<>>
    <3>1. tx = {} /\ DOMAIN Steps(job) = {}
      BY <1>6, <2>1
    <3>2. QED BY <1>1, <3>1 DEF SuccessIsTx, Steps
  <2>2. CASE Steps(job) # <<>>
    <3>1. reqSuccess' = "1"
      BY <2>2 DEF Success
    <3>2. conn = "open" => \A n \in DOMAIN Steps(job) :
            Steps(job)[n].exec = "0" /\ Certain(Steps(job)[n]) => InTx(n)
      BY <1>1, <1>4 DEF SessionInv, MainPhase
    <3>3. QED BY <1>1, <3>1, <3>2 DEF SuccessIsTx, InTx, Steps
  <2>3. QED BY <2>1, <2>2
<1>11. CommitSetsStatus'
  BY <1>1, <1>3, <1>5 DEF CommitSetsStatus, Steps
<1>12. QED BY <1>7, <1>8, <1>9, <1>10, <1>11 DEF SessionInv

(* The handler loop ends with every handler step behind it, and one of     *)
(* them has set the status.                                                *)
LEMMA HandlerDoneInv ==
  ASSUME TypeOK, SessionInv, HandlerDone
  PROVE  SessionInv'
<1> USE DEF HandlerDone, dbVars, reqVars
<1>1. /\ pc = "handle" /\ pc' = "commit" /\ job \in Jobs /\ i \in Nat /\ i > 0
      /\ UNCHANGED <<job, i, tx, conn, todo, reqId, reqSuccess, genlist, applied>>
  BY DEF SessionInv, JobInHand, InHand, TypeOK
<1>2. /\ Steps(job) \in Seq(Step) /\ WellFormed(Steps(job))
      /\ DOMAIN Steps(job) = 1..Len(Steps(job)) /\ Len(Steps(job)) \in Nat
  BY <1>1, StepsType
<1>3. \A n \in DOMAIN Steps(job) : n < i
  BY <1>1, <1>2
<1>4. JobInHand' /\ AppliedDecided' /\ TxOwn' /\ MainPhase' /\ SuccessIsTx'
  BY <1>1 DEF SessionInv, JobInHand, AppliedDecided, InHand, TxOwn, MainPhase,
              SuccessIsTx, InTx, Steps
<1>5. tx # {} => \E n \in DOMAIN Steps(job) : Steps(job)[n].mark /\ InTx(n)
  <2> SUFFICES ASSUME tx # {}
               PROVE  \E n \in DOMAIN Steps(job) : Steps(job)[n].mark /\ InTx(n)
    OBVIOUS
  <2>1. conn = "open" /\ Steps(job) # <<>>
    BY <1>2 DEF SessionInv, TxOwn
  <2>2. PICK n \in DOMAIN Steps(job) : Steps(job)[n].mark
    BY <1>2, <2>1 DEF WellFormed
  <2>3. QED BY <1>1, <1>3, <2>1, <2>2 DEF SessionInv, CommitSetsStatus
<1>6. CommitSetsStatus'
  BY <1>1, <1>5 DEF CommitSetsStatus, InTx, Steps
<1>7. QED BY <1>4, <1>6 DEF SessionInv

(* What one commit does to the job in hand, and that it does nothing else. *)
LEMMA CommitFacts ==
  ASSUME TypeOK, SessionInv, Commit
  PROVE  /\ job \in Jobs /\ genlist[job] = "0" /\ job \notin todo
         /\ \A j \in Jobs \ {job} : genlist'[j] = genlist[j]
         /\ tx = {} => genlist' = genlist /\ applied' = applied
         /\ tx # {} => genlist'[job] = IF reqSuccess = "1" THEN "done" ELSE "failed"
         /\ \A d \in applied' : d \in applied \/ (d[1] = job /\ InTx(d[2]))
         /\ \A w \in tx : <<job, w.step>> \in applied'
         /\ twice' \subseteq twice
<1> USE DEF Commit
<1>1. job \in Jobs /\ genlist[job] = "0" /\ job \notin todo
  BY DEF SessionInv, JobInHand, InHand
<1>2. \A w \in tx : w.row = job /\ w.job = job
  BY DEF SessionInv, TxOwn
<1>3. \A j \in Jobs \ {job} : genlist'[j] = genlist[j]
  BY <1>2 DEF RowStatus
<1>4. tx = {} => genlist' = genlist /\ applied' = applied
  BY DEF RowStatus, TypeOK
<1>5. tx # {} => genlist'[job] = IF reqSuccess = "1" THEN "done" ELSE "failed"
  <2> SUFFICES ASSUME tx # {}
               PROVE  genlist'[job] = IF reqSuccess = "1" THEN "done" ELSE "failed"
    OBVIOUS
  <2>1. \A w \in tx : w.sets # "nothing" =>
                      w.sets = IF reqSuccess = "1" THEN "done" ELSE "failed"
    BY DEF SessionInv, TxOwn
  <2>2. PICK n \in DOMAIN Steps(job) : Steps(job)[n].mark /\ InTx(n)
    BY DEF SessionInv, CommitSetsStatus
  <2>3. PICK w \in tx : w.step = n
    BY <2>2 DEF InTx
  <2>4. w.row = job /\ w.sets # "nothing"
    BY <1>2, <2>2, <2>3 DEF SessionInv, TxOwn
  <2>5. \E v \in tx : v.row = job /\ v.sets # "nothing"
    BY <2>4
  <2>6. RowStatus(job) = IF reqSuccess = "1" THEN "done" ELSE "failed"
    BY <2>1, <2>5 DEF RowStatus
  <2>7. QED BY <1>1, <2>6
<1>6. applied' = applied \cup {<<w.job, w.step>> : w \in tx}
  OBVIOUS
<1>7. \A d \in applied' : d \in applied \/ (d[1] = job /\ InTx(d[2]))
  BY <1>2, <1>6 DEF InTx
<1>8. \A w \in tx : <<job, w.step>> \in applied'
  BY <1>2, <1>6
<1>9. \A d \in applied : d \notin {<<w.job, w.step>> : w \in tx}
  <2> SUFFICES ASSUME NEW w \in tx, <<w.job, w.step>> \in applied
               PROVE  FALSE
    OBVIOUS
  <2>1. genlist[<<w.job, w.step>>[1]] \in {"done", "failed"}
    BY DEF SessionInv, AppliedDecided
  <2>2. QED BY <1>1, <1>2, <2>1
<1>10. twice' \subseteq twice
  BY <1>9
<1>11. QED BY <1>1, <1>3, <1>4, <1>5, <1>7, <1>8, <1>10

(* The commit keeps the invariant: what it publishes belongs to a job      *)
(* that it decides.                                                        *)
LEMMA CommitInv ==
  ASSUME TypeOK, SessionInv, Commit
  PROVE  SessionInv'
<1>1. tx' = {} /\ pc' = "next" /\ i' = i /\ todo' = todo
  BY DEF Commit
<1>2. JobInHand'
  BY <1>1, CommitFacts DEF SessionInv, JobInHand, InHand, TypeOK
<1>3. AppliedDecided'
  <2> SUFFICES ASSUME NEW d \in applied'
               PROVE  genlist'[d[1]] \in {"done", "failed"}
    BY DEF AppliedDecided
  <2>1. CASE d \in applied
    BY <2>1, CommitFacts DEF SessionInv, AppliedDecided, TypeOK
  <2>2. CASE d[1] = job /\ InTx(d[2])
    BY <2>2, CommitFacts DEF InTx
  <2>3. QED BY <2>1, <2>2, CommitFacts
<1>4. TxOwn' /\ MainPhase' /\ SuccessIsTx' /\ CommitSetsStatus'
  BY <1>1 DEF TxOwn, MainPhase, SuccessIsTx, CommitSetsStatus
<1>5. QED BY <1>2, <1>3, <1>4 DEF SessionInv

(* The handler loop passes over steps that set no status.                  *)
LEMMA HandlerSkipInv ==
  ASSUME TypeOK, SessionInv, HandlerSkip
  PROVE  SessionInv'
<1>1. /\ pc = "handle" /\ i' = i + 1
      /\ UNCHANGED <<pc, job, tx, conn, todo, reqId, reqSuccess, genlist, applied>>
  BY DEF HandlerSkip, dbVars, reqVars
<1>2. /\ job \in Jobs /\ i \in DOMAIN Steps(job) /\ Steps(job)[i].exec # "1"
  BY DEF HandlerSkip, AtStep, SessionInv, JobInHand, InHand
<1>3. ~Steps(job)[i].mark /\ DOMAIN Steps(job) \subseteq Nat /\ i \in Nat
  BY <1>2, StepsType DEF WellFormed
<1>4. JobInHand' /\ AppliedDecided' /\ MainPhase'
  BY <1>1, <1>3 DEF SessionInv, JobInHand, AppliedDecided, MainPhase, InHand
<1>5. TxOwn'
  BY <1>1, <1>3 DEF SessionInv, TxOwn, InHand, Steps
<1>6. SuccessIsTx'
  BY <1>1 DEF SessionInv, SuccessIsTx, InTx, Steps
<1>7. CommitSetsStatus'
  <2>1. pc = "handle" /\ pc' = "handle" /\ Steps(job)' = Steps(job)
    BY <1>1 DEF Steps
  <2>2. ASSUME conn = "open", NEW n \in DOMAIN Steps(job), n < i + 1,
               Steps(job)[n].mark
        PROVE  InTx(n)
    <3>1. n # i
      BY <1>3, <2>2
    <3>2. n < i
      BY <1>3, <2>2, <3>1
    <3>3. CommitSetsStatus
      BY DEF SessionInv
    <3>4. QED BY <2>1, <2>2, <3>2, <3>3 DEF CommitSetsStatus
  <2>3. QED BY <1>1, <2>1, <2>2 DEF CommitSetsStatus, InTx
<1>8. QED BY <1>4, <1>5, <1>6, <1>7 DEF SessionInv

(* The actions outside the two loops.                                      *)
LEMMA OtherInv ==
  ASSUME TypeOK, SessionInv,
         \/ \E j \in Jobs : Submit(j)
         \/ LoseConnection \/ Crash \/ Boot \/ ReconnectFails
         \/ TestConnection \/ LoadGenerateFile \/ LoadFails \/ PrepareJob
         \/ EndCycle \/ UNCHANGED vars
  PROVE  SessionInv'
<1> USE DEF SessionInv, JobInHand, TxOwn, MainPhase, SuccessIsTx,
            CommitSetsStatus, AppliedDecided, InHand, InTx, Steps, TypeOK,
            dbVars, reqVars
<1>1. ASSUME NEW j \in Jobs, Submit(j) PROVE SessionInv'
  BY <1>1 DEF Submit
<1>2. CASE LoseConnection
  <2>1. /\ conn' # "open" /\ tx' = {}
        /\ UNCHANGED <<genlist, applied, pc, todo, job, i, reqId, reqSuccess>>
    BY <1>2, ConnFaultsAssumption DEF LoseConnection
  <2>2. JobInHand' /\ AppliedDecided'
    BY <2>1
  <2>3. TxOwn' /\ MainPhase' /\ SuccessIsTx' /\ CommitSetsStatus'
    BY <2>1
  <2>4. QED BY <2>2, <2>3
<1>3. ASSUME Gone, UNCHANGED dbVars
      PROVE  SessionInv'
  <2>1. /\ pc' = "boot" /\ tx' = {} /\ todo' = {} /\ i' = 1
        /\ UNCHANGED <<genlist, applied>>
    BY <1>3 DEF Gone
  <2>2. QED BY <2>1
<1>4. CASE Boot
  BY <1>4 DEF Boot
<1>5. CASE Crash \/ ReconnectFails
  BY <1>3, <1>5 DEF Crash, ReconnectFails
<1>6. CASE TestConnection
  BY <1>6 DEF TestConnection
<1>7. CASE LoadGenerateFile
  BY <1>7 DEF LoadGenerateFile, FirstOf, Pending
<1>8. CASE LoadFails
  BY <1>8 DEF LoadFails
<1>9. CASE PrepareJob
  BY <1>9 DEF PrepareJob
<1>10. CASE EndCycle
  BY <1>10 DEF EndCycle
<1>11. CASE UNCHANGED vars
  BY <1>11 DEF vars
<1>12. QED
  BY <1>1, <1>2, <1>3, <1>4, <1>5, <1>6, <1>7, <1>8, <1>9, <1>10, <1>11

(* No step of the specification breaks the session's invariant.            *)
LEMMA InvStep ==
  ASSUME TypeOK, SessionInv, [Next]_vars
  PROVE  SessionInv'
BY MainStepInv, MainStepFailsInv, MainDoneInv, HandlerSkipInv, HandlerStepInv,
   HandlerStepFailsInv, HandlerDoneInv, CommitInv, OtherInv
DEF Next, Daemon, Cycle, Environment

(* Every reachable state is well typed, and the open transaction is what   *)
(* the phases of process() make it: the step preserves both together.      *)
THEOREM TypeAndSession == Spec => [](TypeOK /\ SessionInv)
<1>1. TypeOK /\ SessionInv /\ [Next]_vars => (TypeOK /\ SessionInv)'
  BY TypeStep, InvStep
<1>2. QED BY InitInv, <1>1, PTL DEF Spec

-----------------------------------------------------------------------------
(* genlist and applied change in Submit and Commit only.                   *)
LEMMA TableSteps ==
  ASSUME [Next]_vars
  PROVE  (\E j \in Jobs : Submit(j)) \/ Commit \/ UNCHANGED dbVars
BY DEF Next, Daemon, Cycle, Environment, vars, LoseConnection, Crash, Boot,
       ReconnectFails, TestConnection, LoadGenerateFile, LoadFails, PrepareJob,
       EndCycle, MainStep, MainStepFails, MainDone, HandlerSkip, HandlerStep,
       HandlerStepFails, HandlerDone

(* No change of a job is committed twice: only a pending job has changes   *)
(* in the transaction, and only a decided one has committed changes.       *)
THEOREM AtMostOnceHolds == Spec => []AtMostOnce
<1>1. Init => AtMostOnce
  BY DEF Init, AtMostOnce
<1>2. TypeOK /\ SessionInv /\ AtMostOnce /\ [Next]_vars => AtMostOnce'
  <2> SUFFICES ASSUME TypeOK, SessionInv, AtMostOnce, [Next]_vars
               PROVE  AtMostOnce'
    OBVIOUS
  <2>1. CASE Commit
    BY <2>1, CommitFacts DEF AtMostOnce
  <2>2. CASE \E j \in Jobs : Submit(j)
    BY <2>2 DEF Submit, AtMostOnce
  <2>3. CASE UNCHANGED dbVars
    BY <2>3 DEF dbVars, AtMostOnce
  <2>4. QED BY <2>1, <2>2, <2>3, TableSteps
<1>3. QED BY <1>1, <1>2, TypeAndSession, PTL DEF Spec

(* A job's main work is visible exactly when its row says done: a commit   *)
(* that decides the job carries all of the main changes or none, as        *)
(* "success" says, and a rollback leaves none behind.                      *)
LEMMA CommitAllOrNothing ==
  ASSUME TypeOK, SessionInv, AllOrNothing, Commit
  PROVE  AllOrNothing'
<1> SUFFICES ASSUME NEW j \in Jobs
             PROVE  /\ genlist'[j] = "done" => MainWrites(j) \subseteq applied'
                    /\ genlist'[j] # "done" => MainSteps(j) \cap applied' = {}
  BY DEF AllOrNothing, MainWrites, MainSteps, Steps
<1>1. \A d \in MainSteps(j) : d[1] = j /\ d = <<j, d[2]>>
                              /\ d[2] \in DOMAIN Steps(j) /\ Steps(j)[d[2]].exec = "0"
  BY DEF MainSteps
<1>2. /\ genlist[j] = "done" => MainWrites(j) \subseteq applied
      /\ genlist[j] # "done" => MainSteps(j) \cap applied = {}
  BY DEF AllOrNothing
<1>3. applied \subseteq applied'
  BY DEF Commit
<1>4. CASE j # job
  <2>1. genlist'[j] = genlist[j]
    BY <1>4, CommitFacts
  <2>2. \A d \in MainSteps(j) : d \in applied' => d \in applied
    BY <1>1, <1>4, CommitFacts
  <2>3. QED BY <1>2, <1>3, <2>1, <2>2
<1>5. CASE j = job /\ tx = {}
  BY <1>2, <1>5, CommitFacts
<1>6. CASE j = job /\ tx # {}
  <2>1. pc = "commit" /\ conn = "open" /\ reqSuccess \in {"0", "1"}
    BY <1>6 DEF Commit, SessionInv, TxOwn, TypeOK
  <2>2. CASE reqSuccess = "1"
    <3>1. genlist'[j] = "done"
      BY <1>6, <2>2, CommitFacts
    <3>2. ASSUME NEW d \in MainWrites(j) PROVE d \in applied'
      <4>1. InTx(d[2]) /\ d = <<job, d[2]>>
        BY <1>1, <1>6, <2>1, <2>2 DEF MainWrites, SessionInv, SuccessIsTx
      <4>2. QED BY <4>1, CommitFacts DEF InTx
    <3>3. QED BY <3>1, <3>2
  <2>3. CASE reqSuccess = "0"
    <3>1. genlist'[j] = "failed"
      BY <1>6, <2>3, CommitFacts
    <3>2. ASSUME NEW d \in MainSteps(j), d \in applied' PROVE FALSE
      <4>1. d \notin applied
        BY <1>2, <1>6, CommitFacts
      <4>2. PICK w \in tx : w.step = d[2]
        BY <3>2, <4>1, CommitFacts DEF InTx
      <4>3. QED
        BY <1>1, <1>6, <2>1, <2>3, <4>2 DEF SessionInv, SuccessIsTx
    <3>3. QED BY <3>1, <3>2
  <2>4. QED BY <2>1, <2>2, <2>3
<1>7. QED BY <1>4, <1>5, <1>6

(* The committed main work and the status "done" go together in every      *)
(* reachable state (file_generate.c:159 and 177).                          *)
THEOREM AllOrNothingHolds == Spec => []AllOrNothing
<1>1. Init => AllOrNothing
  BY DEF Init, AllOrNothing
<1>2. TypeOK /\ SessionInv /\ AllOrNothing /\ [Next]_vars => AllOrNothing'
  <2> SUFFICES ASSUME TypeOK, SessionInv, AllOrNothing, [Next]_vars
               PROVE  AllOrNothing'
    OBVIOUS
  <2>1. CASE Commit
    BY <2>1, CommitAllOrNothing
  <2>2. ASSUME NEW j \in Jobs, Submit(j) PROVE AllOrNothing'
    BY <2>2 DEF Submit, AllOrNothing, MainWrites, MainSteps, Steps, TypeOK
  <2>3. CASE UNCHANGED dbVars
    BY <2>3 DEF dbVars, AllOrNothing, MainWrites, MainSteps, Steps
  <2>4. QED BY <2>1, <2>2, <2>3, TableSteps
<1>3. QED BY <1>1, <1>2, TypeAndSession, PTL DEF Spec

-----------------------------------------------------------------------------
(* The refinement: Submit is the ledger's Submit, a commit that sets a     *)
(* status is its Complete or Fail, every other step a stutter.             *)
LEMMA CommitRefines ==
  ASSUME TypeOK, SessionInv, AllOrNothing, Commit
  PROVE  [Ledger!Next]_(Ledger!vars)
<1>1. CASE tx = {}
  <2>1. genlist' = genlist /\ applied' = applied
    BY <1>1, CommitFacts
  <2>2. QED BY <2>1 DEF Ledger!vars, LedgerStatus, Effect, MainWrites, MainSteps, Steps
<1>2. CASE tx # {}
  <2>1. /\ job \in Jobs /\ genlist[job] = "0"
        /\ \A j \in Jobs \ {job} : genlist'[j] = genlist[j]
        /\ genlist'[job] = IF reqSuccess = "1" THEN "done" ELSE "failed"
    BY <1>2, CommitFacts
  <2>2. AllOrNothing'
    BY CommitAllOrNothing
  <2>3. \A j \in Jobs : j \in Effect <=> genlist[j] = "done"
    BY DEF AllOrNothing, Effect, MainWrites
  <2>4. \A j \in Jobs : j \in Effect' <=> genlist'[j] = "done"
    BY <2>2 DEF AllOrNothing, Effect, MainWrites, MainSteps, Steps
  <2>5. Effect \subseteq Jobs /\ Effect' \subseteq Jobs
    BY DEF Effect
  <2>6. LedgerStatus' = [LedgerStatus EXCEPT ![job] = genlist'[job]]
    BY <2>1 DEF LedgerStatus
  <2>7. LedgerStatus[job] = "pending"
    BY <2>1 DEF LedgerStatus
  <2>8. CASE reqSuccess = "1"
    <3>1. Effect' = Effect \cup {job}
      BY <2>1, <2>3, <2>4, <2>5, <2>8
    <3>2. Ledger!Complete(job)
      BY <2>1, <2>6, <2>7, <2>8, <3>1 DEF Ledger!Complete
    <3>3. QED BY <2>1, <3>2 DEF Ledger!Next
  <2>9. CASE reqSuccess # "1"
    <3>1. Effect' = Effect
      BY <2>1, <2>3, <2>4, <2>5, <2>9
    <3>2. Ledger!Fail(job)
      BY <2>1, <2>6, <2>7, <2>9, <3>1 DEF Ledger!Fail
    <3>3. QED BY <2>1, <3>2 DEF Ledger!Next
  <2>10. QED BY <2>8, <2>9
<1>3. QED BY <1>1, <1>2

(* The daemon's job table is a job ledger: whatever fails, a row is        *)
(* decided once, with its work when it is done and without it otherwise.   *)
THEOREM LedgerImplemented == Spec => ImplementsLedger
<1>1. Init => Ledger!Init
  BY DEF Init, Ledger!Init, LedgerStatus, Effect
<1>2. TypeOK /\ SessionInv /\ AllOrNothing /\ [Next]_vars => [Ledger!Next]_(Ledger!vars)
  <2> SUFFICES ASSUME TypeOK, SessionInv, AllOrNothing, [Next]_vars
               PROVE  [Ledger!Next]_(Ledger!vars)
    OBVIOUS
  <2>1. CASE Commit
    BY <2>1, CommitRefines
  <2>2. ASSUME NEW j \in Jobs, Submit(j) PROVE Ledger!Next
    <3>1. /\ genlist[j] = "none" /\ genlist' = [genlist EXCEPT ![j] = "0"]
          /\ applied' = applied /\ genlist \in [Jobs -> Status]
      BY <2>2 DEF Submit, TypeOK
    <3>2. LedgerStatus[j] = "none" /\ LedgerStatus' = [LedgerStatus EXCEPT ![j] = "pending"]
      BY <3>1 DEF LedgerStatus
    <3>3. Effect' = Effect
      BY <3>1 DEF Effect, MainWrites, MainSteps, Steps
    <3>4. QED BY <3>2, <3>3 DEF Ledger!Next, Ledger!Submit
  <2>3. CASE UNCHANGED dbVars
    BY <2>3 DEF dbVars, Ledger!vars, LedgerStatus, Effect, MainWrites, MainSteps, Steps
  <2>4. QED BY <2>1, <2>2, <2>3, TableSteps
<1>3. QED
  BY <1>1, <1>2, TypeAndSession, AllOrNothingHolds, PTL
  DEF Spec, ImplementsLedger, Ledger!Spec

-----------------------------------------------------------------------------
(* What a main step finds: the members and files of the job in hand.       *)

IsUpload(n) == UploadsExport(Steps(job), n)
Exported(f) == file[f].state \in {"whole", "cut"} /\ file[f].by = job

(* The members that the passed steps surely write are this job's.          *)
OwnKeys == pc = "main" =>
  \A n \in DOMAIN Steps(job) : n < i /\ AlwaysWrites(Steps(job)[n]) =>
    \A k \in Steps(job)[n].keys : reqData[k] = job

(* The files that they export, and none of them touched later, are as the  *)
(* exports left them.                                                      *)
OwnFiles == pc = "main" =>
  \A n \in DOMAIN Steps(job) :
    /\ n < i /\ Exports(Steps(job)[n])
    /\ \A m \in (n + 1)..(i - 1) : Steps(job)[m].file # Steps(job)[n].file
    => Exported(Steps(job)[n].file)

(* The uploads among them have been done, all of them at a success.        *)
OwnUploads ==
  /\ pc = "main" => \A n \in DOMAIN Steps(job) : n < i /\ IsUpload(n) =>
                      <<job, n>> \in delivered \cup unseen
  /\ pc \in {"handle", "commit"} /\ reqSuccess = "1" =>
       MainUploads(job) \subseteq delivered \cup unseen

DeliveryInv == OwnKeys /\ OwnFiles /\ OwnUploads /\ DoneMeansDelivered

(* A main step's outcome of 0, in terms of what it leaves behind.          *)
LEMMA MainOutput ==
  ASSUME TypeOK, SessionInv, NEW o \in Outcomes(Steps(job)[i]), AtStep("main", "0"),
         Output(Steps(job)[i], o), o.ret = 0
  PROVE  /\ \A k \in Keys : reqData[k] = job => reqData'[k] = job
         /\ AlwaysWrites(Steps(job)[i]) =>
              \A k \in Steps(job)[i].keys : reqData'[k] = job
         /\ \A f \in Files : f # Steps(job)[i].file => file'[f] = file[f]
         /\ Exports(Steps(job)[i]) =>
              /\ file'[Steps(job)[i].file].state \in {"whole", "cut"}
              /\ file'[Steps(job)[i].file].by = job
         /\ delivered \subseteq delivered' /\ unseen \subseteq unseen'
         /\ IsUpload(i) /\ Exported(Steps(job)[i].file) =>
              <<job, i>> \in delivered' \cup unseen'
<1> DEFINE s == Steps(job)[i]
<1>1. s \in Step /\ s.keys \subseteq Keys /\ s.file \in Files
  BY AtStepType DEF Step
<1>2. PICK up \in BOOLEAN : o \in ExecuteConfig(s, up, file[s.file].state # "absent")
  BY DEF Outcomes
<1>3. (file[s.file].state # "absent") \in BOOLEAN
  OBVIOUS
<1> HIDE DEF s
<1>4. Output(s, o)
  BY DEF s
<1>5. AlwaysWrites(s) => o.keys = s.keys
  BY <1>1, <1>2, <1>3, AlwaysWritesKeys
<1>6. Exports(s) => o.file \in {"whole", "cut"}
  BY <1>1, <1>2, <1>3, ExportsWrite
<1>7. \A k \in Keys : /\ reqData[k] = job => reqData'[k] = job
                      /\ k \in o.keys => reqData'[k] = job
  BY <1>4 DEF Output, Members
<1>8. \A f \in Files : f # s.file => file'[f] = file[f]
  BY <1>4 DEF Output, LocalFile, TypeOK
<1>9. Exports(s) => file'[s.file].state \in {"whole", "cut"} /\ file'[s.file].by = job
  <2> SUFFICES ASSUME Exports(s)
               PROVE  file'[s.file].state \in {"whole", "cut"} /\ file'[s.file].by = job
    OBVIOUS
  <2>1. file'[s.file] = [state |-> o.file, by |-> job]
    BY <1>1, <1>4, <1>6 DEF Output, LocalFile, TypeOK
  <2>2. QED BY <1>6, <2>1
<1>10. delivered \subseteq delivered' /\ unseen \subseteq unseen'
  BY <1>4 DEF Output, Sent
<1>11. ASSUME s.module = "upload", ~s.guarded, Exported(s.file)
       PROVE  <<job, i>> \in delivered' \cup unseen'
  <2>1. file[s.file].state # "absent"
    BY <1>11 DEF Exported
  <2>2. o \in ExecuteConfig(s, up, TRUE)
    BY <1>2, <2>1
  <2>3. o.sent \in {"yes", "unread"}
    BY <1>1, <1>11, <2>2, UploadSends
  <2>4. file[s.file] \in FileState
    BY <1>1 DEF TypeOK
  <2>5. Own(s, "whole") \/ Own(s, "cut")
    BY <1>11, <2>4 DEF Own, Exported, FileState
  <2>6. QED BY <1>4, <2>3, <2>5 DEF Output, Sent
<1>12. QED
  BY <1>1, <1>5, <1>7, <1>8, <1>9, <1>10, <1>11 DEF s, IsUpload, UploadsExport

(* A main step that returns 0 keeps what is known of the passed steps and  *)
(* adds what it did itself; an upload finds the file of an earlier step.   *)
LEMMA MainStepDelivery ==
  ASSUME TypeOK, SessionInv, DeliveryInv, MainStep
  PROVE  DeliveryInv'
<1>1. PICK o \in Outcomes(Steps(job)[i]) : o.ret = 0 /\ Output(Steps(job)[i], o)
  BY DEF MainStep
<1>2. /\ pc = "main" /\ job \in Jobs /\ i \in DOMAIN Steps(job) /\ i' = i + 1
      /\ Steps(job)[i].exec = "0"
      /\ UNCHANGED <<pc, job, genlist, reqSuccess>>
  BY AtStepType DEF MainStep, AtStep, dbVars
<1>3. /\ Steps(job) \in Seq(Step) /\ WellFormed(Steps(job)) /\ i \in Nat
      /\ DOMAIN Steps(job) = 1..Len(Steps(job)) /\ Len(Steps(job)) \in Nat
  BY <1>2, StepsType DEF TypeOK
<1>4. \A n \in DOMAIN Steps(job) :
        Steps(job)[n].keys \subseteq Keys /\ Steps(job)[n].file \in Files
  <2> TAKE n \in DOMAIN Steps(job)
  <2>1. Steps(job)[n] \in Step
    BY <1>3
  <2>2. QED BY <2>1 DEF Step
<1>5. /\ \A k \in Keys : reqData[k] = job => reqData'[k] = job
      /\ AlwaysWrites(Steps(job)[i]) =>
           \A k \in Steps(job)[i].keys : reqData'[k] = job
      /\ \A f \in Files : f # Steps(job)[i].file => file'[f] = file[f]
      /\ Exports(Steps(job)[i]) =>
           /\ file'[Steps(job)[i].file].state \in {"whole", "cut"}
           /\ file'[Steps(job)[i].file].by = job
      /\ delivered \subseteq delivered' /\ unseen \subseteq unseen'
      /\ IsUpload(i) /\ Exported(Steps(job)[i].file) =>
           <<job, i>> \in delivered' \cup unseen'
  BY <1>1, MainOutput DEF MainStep
<1>6. Steps(job)' = Steps(job)
  BY <1>2 DEF Steps
<1>7. OwnKeys'
  <2> SUFFICES ASSUME NEW n \in DOMAIN Steps(job), n < i + 1, AlwaysWrites(Steps(job)[n]),
                      NEW k \in Steps(job)[n].keys
               PROVE  reqData'[k] = job
    BY <1>2, <1>6 DEF OwnKeys
  <2>1. CASE n = i
    BY <1>5, <2>1
  <2>2. CASE n < i
    BY <1>2, <1>4, <1>5, <2>2 DEF DeliveryInv, OwnKeys
  <2>3. QED BY <1>3, <2>1, <2>2
<1>8. OwnFiles'
  <2> SUFFICES ASSUME NEW n \in DOMAIN Steps(job), n < i + 1, Exports(Steps(job)[n]),
                      \A m \in (n + 1)..i : Steps(job)[m].file # Steps(job)[n].file
               PROVE  /\ file'[Steps(job)[n].file].state \in {"whole", "cut"}
                      /\ file'[Steps(job)[n].file].by = job
    <3>1. i' = i + 1 /\ i' - 1 = i /\ job' = job
      BY <1>2, <1>3
    <3>2. QED BY ONLY <1>6, <3>1, DeliveryInv,
              \A n \in DOMAIN Steps(job) :
                /\ n < i + 1 /\ Exports(Steps(job)[n])
                /\ \A m \in (n + 1)..i : Steps(job)[m].file # Steps(job)[n].file
                => /\ file'[Steps(job)[n].file].state \in {"whole", "cut"}
                   /\ file'[Steps(job)[n].file].by = job
              DEF OwnFiles, Exported
  <2>1. CASE n = i
    BY <1>5, <2>1
  <2>2. CASE n < i
    <3>1. i \in (n + 1)..i /\ (n + 1)..(i - 1) \subseteq (n + 1)..i
      BY <1>3, <2>2
    <3>2. Steps(job)[n].file # Steps(job)[i].file
      BY <3>1
    <3>3. Exported(Steps(job)[n].file)
      BY <1>2, <2>2, <3>1 DEF DeliveryInv, OwnFiles
    <3>4. QED BY <1>4, <1>5, <3>2, <3>3 DEF Exported
  <2>3. QED BY <1>3, <2>1, <2>2
<1>9. OwnUploads'
  <2> SUFFICES ASSUME NEW n \in DOMAIN Steps(job), n < i + 1, IsUpload(n)
               PROVE  <<job, n>> \in delivered' \cup unseen'
    BY <1>2, <1>6 DEF OwnUploads, IsUpload
  <2>1. CASE n = i
    <3>1. PICK m \in 1..(i - 1) : /\ Exports(Steps(job)[m])
                                  /\ Steps(job)[m].file = Steps(job)[i].file
                                  /\ \A p \in (m + 1)..(i - 1) :
                                       Steps(job)[p].file # Steps(job)[i].file
      BY <2>1 DEF UploadsExport, IsUpload
    <3>2. m \in DOMAIN Steps(job) /\ m < i
      BY <1>2, <1>3
    <3>3. Exported(Steps(job)[m].file)
      BY <1>2, <3>1, <3>2 DEF DeliveryInv, OwnFiles
    <3>4. QED BY <1>5, <2>1, <3>1, <3>3
  <2>2. CASE n < i
    BY <1>2, <1>5, <2>2 DEF DeliveryInv, OwnUploads
  <2>3. QED BY <1>3, <2>1, <2>2
<1>10. DoneMeansDelivered'
  BY <1>2, <1>5 DEF DeliveryInv, DoneMeansDelivered, MainUploads, MainSteps, Steps
<1>11. QED BY <1>7, <1>8, <1>9, <1>10 DEF DeliveryInv

(* The main loop is over: all main steps are passed, and their uploads     *)
(* done.                                                                   *)
LEMMA MainDoneDelivery ==
  ASSUME TypeOK, SessionInv, DeliveryInv, MainDone
  PROVE  DeliveryInv'
<1>1. /\ pc = "main" /\ pc' = "handle" /\ job \in Jobs /\ i \in Nat /\ i > 0
      /\ UNCHANGED <<job, delivered, unseen, genlist>>
  BY DEF MainDone, SessionInv, JobInHand, InHand, TypeOK, outVars, dbVars
<1>2. /\ WellFormed(Steps(job))
      /\ DOMAIN Steps(job) = 1..Len(Steps(job)) /\ Len(Steps(job)) \in Nat
  BY <1>1, StepsType
<1>3. \A n \in DOMAIN Steps(job) : Steps(job)[n].exec = "0" => n < i
  <2> SUFFICES ASSUME NEW n \in DOMAIN Steps(job), ~(n < i)
               PROVE  Steps(job)[n].exec # "0"
    OBVIOUS
  <2>1. i \in DOMAIN Steps(job) /\ Steps(job)[i].exec # "0"
    BY <1>1, <1>2 DEF MainDone, AtStep
  <2>2. n = i \/ i < n
    BY <1>1, <1>2
  <2>3. i < n => Steps(job)[n].exec # "0"
    BY <1>2, <2>1 DEF WellFormed
  <2>4. QED BY <2>1, <2>2, <2>3
<1>4. MainUploads(job) \subseteq delivered \cup unseen
  BY <1>1, <1>3 DEF DeliveryInv, OwnUploads, MainUploads, MainSteps, IsUpload
<1>5. (MainUploads(job) \subseteq delivered \cup unseen)'
  BY <1>1, <1>4 DEF MainUploads, MainSteps, Steps
<1>6. DoneMeansDelivered'
  BY <1>1 DEF DeliveryInv, DoneMeansDelivered, MainUploads, MainSteps, Steps
<1>7. QED
  BY <1>1, <1>5, <1>6 DEF DeliveryInv, OwnKeys, OwnFiles, OwnUploads

(* Outside the main loop the uploads stay done: a handler step adds to     *)
(* them at most.                                                           *)
LEMMA HandlerDelivery ==
  ASSUME TypeOK, SessionInv, DeliveryInv,
         MainStepFails \/ HandlerSkip \/ HandlerStep \/ HandlerStepFails \/ HandlerDone
  PROVE  DeliveryInv'
<1>1. delivered \subseteq delivered' /\ unseen \subseteq unseen'
  BY DEF MainStepFails, HandlerSkip, HandlerStep, HandlerStepFails, HandlerDone,
         Output, Sent, outVars
<1>2. pc' \in {"handle", "commit"} /\ UNCHANGED <<job, genlist>>
  BY DEF MainStepFails, HandlerSkip, HandlerStep, HandlerStepFails, HandlerDone,
         AtStep, dbVars
<1>3. reqSuccess' = "0" \/ (reqSuccess' = reqSuccess /\ pc = "handle")
  BY DEF MainStepFails, HandlerSkip, HandlerStep, HandlerStepFails, HandlerDone,
         AtStep, Success, reqVars
<1>4. OwnUploads'
  BY <1>1, <1>2, <1>3 DEF DeliveryInv, OwnUploads, MainUploads, MainSteps, Steps
<1>5. DoneMeansDelivered'
  BY <1>1, <1>2 DEF DeliveryInv, DoneMeansDelivered, MainUploads, MainSteps, Steps
<1>6. QED BY <1>2, <1>4, <1>5 DEF DeliveryInv, OwnKeys, OwnFiles

(* A commit makes the row of the job in hand say done only when "success"  *)
(* says that its uploads were done.                                        *)
LEMMA CommitDelivery ==
  ASSUME TypeOK, SessionInv, DeliveryInv, Commit
  PROVE  DeliveryInv'
<1>1. pc = "commit" /\ pc' = "next" /\ UNCHANGED <<delivered, unseen>>
  BY DEF Commit, outVars
<1>2. ASSUME NEW j \in Jobs, genlist'[j] = "done"
      PROVE  MainUploads(j) \subseteq delivered \cup unseen
  <2>1. CASE j # job \/ tx = {}
    BY <1>2, <2>1, CommitFacts DEF DeliveryInv, DoneMeansDelivered
  <2>2. CASE j = job /\ tx # {}
    BY <1>1, <1>2, <2>2, CommitFacts DEF DeliveryInv, OwnUploads
  <2>3. QED BY <2>1, <2>2
<1>3. DoneMeansDelivered'
  BY <1>1, <1>2 DEF DoneMeansDelivered, MainUploads, MainSteps, Steps
<1>4. QED BY <1>1, <1>3 DEF DeliveryInv, OwnKeys, OwnFiles, OwnUploads

(* The next job starts with no step passed, and its row is still pending,  *)
(* so that forgetting what an earlier run of it delivered takes nothing    *)
(* from a row that says done.                                              *)
LEMMA PrepareDelivery ==
  ASSUME TypeOK, SessionInv, DeliveryInv, PrepareJob
  PROVE  DeliveryInv'
<1>1. PICK j \in todo : /\ job' = j
                        /\ delivered' = {d \in delivered : d[1] # j}
                        /\ unseen' = {d \in unseen : d[1] # j}
  BY DEF PrepareJob
<1>2. genlist[j] = "0" /\ j \in Jobs
  BY <1>1 DEF SessionInv, JobInHand, TypeOK
<1>3. pc' = "main" /\ i' = 1 /\ UNCHANGED genlist
  BY DEF PrepareJob, dbVars
<1>4. \A n \in DOMAIN Steps(j) : ~(n < 1)
  BY <1>2, StepsType
<1>5. Steps(job)' = Steps(j)
  BY <1>1 DEF Steps
<1>6. OwnKeys' /\ OwnFiles' /\ OwnUploads'
  BY <1>3, <1>4, <1>5 DEF OwnKeys, OwnFiles, OwnUploads
<1>7. ASSUME NEW k \in Jobs, genlist[k] = "done"
      PROVE  MainUploads(k) \subseteq delivered' \cup unseen'
  <2>1. k # j /\ MainUploads(k) \subseteq delivered \cup unseen
    BY <1>2, <1>7 DEF DeliveryInv, DoneMeansDelivered
  <2>2. \A d \in MainUploads(k) : d[1] = k
    BY DEF MainUploads, MainSteps
  <2>3. QED BY <1>1, <2>1, <2>2
<1>8. DoneMeansDelivered'
  BY <1>3, <1>7 DEF DoneMeansDelivered, MainUploads, MainSteps, Steps
<1>9. QED BY <1>6, <1>8 DEF DeliveryInv

(* No other step touches what the jobs have delivered, or is in a job.     *)
LEMMA OtherDelivery ==
  ASSUME TypeOK, SessionInv, DeliveryInv,
         \/ \E j \in Jobs : Submit(j)
         \/ LoseConnection \/ Crash \/ Boot \/ ReconnectFails \/ TestConnection
         \/ LoadGenerateFile \/ LoadFails \/ EndCycle \/ UNCHANGED vars
  PROVE  DeliveryInv'
<1>1. /\ UNCHANGED <<delivered, unseen>>
      /\ \A j \in Jobs : genlist'[j] = "done" => genlist[j] = "done"
  BY DEF Submit, LoseConnection, Crash, Boot, ReconnectFails, TestConnection,
         LoadGenerateFile, LoadFails, EndCycle, vars, outVars, dbVars, TypeOK
<1>2. DoneMeansDelivered'
  BY <1>1 DEF DeliveryInv, DoneMeansDelivered, MainUploads, MainSteps, Steps
<1>3. \/ pc' \notin {"main", "handle", "commit"}
      \/ UNCHANGED <<pc, job, i, reqSuccess, reqData, file>>
  BY DEF Submit, LoseConnection, Crash, Gone, Boot, ReconnectFails, TestConnection,
         LoadGenerateFile, LoadFails, EndCycle, vars, outVars, reqVars
<1>4. OwnKeys' /\ OwnFiles' /\ OwnUploads'
  <2>1. CASE pc' \notin {"main", "handle", "commit"}
    BY <2>1 DEF OwnKeys, OwnFiles, OwnUploads
  <2>2. CASE UNCHANGED <<pc, job, i, reqSuccess, reqData, file>>
    BY <1>1, <2>2 DEF DeliveryInv, OwnKeys, OwnFiles, OwnUploads, IsUpload,
       Exported, MainUploads, MainSteps, Steps
  <2>3. QED BY <1>3, <2>1, <2>2
<1>5. QED BY <1>2, <1>4 DEF DeliveryInv

LEMMA DeliveryAlways == Spec => []DeliveryInv
<1>1. Init => DeliveryInv
  BY DEF Init, DeliveryInv, OwnKeys, OwnFiles, OwnUploads, DoneMeansDelivered
<1>2. TypeOK /\ SessionInv /\ DeliveryInv /\ [Next]_vars => DeliveryInv'
  BY MainStepDelivery, MainDoneDelivery, HandlerDelivery, CommitDelivery,
     PrepareDelivery, OtherDelivery DEF Next, Daemon, Cycle, Environment
<1>3. QED BY <1>1, <1>2, TypeAndSession, PTL DEF Spec

(* A row that says done means that every unguarded upload of a file which  *)
(* the job exports sent what this very run had exported, or met one of the *)
(* failures that the code takes for a success (process_util.c:1313).       *)
THEOREM DoneMeansDeliveredHolds == Spec => []DoneMeansDelivered
<1>1. DeliveryInv => DoneMeansDelivered
  BY DEF DeliveryInv
<1>2. QED BY <1>1, DeliveryAlways, PTL

(* DoneMeansDelivered without its exception, and why that holds where no   *)
(* failure goes unnoticed: unseen stays empty.                             *)
NoneUnseen == unseen = {} /\ \A f \in Files : file[f].state # "cut"
Delivered == \A j \in Jobs : genlist[j] = "done" => MainUploads(j) \subseteq delivered

(* Where every failure of writing, reading and opening a file is noticed   *)
(* (process_util.c:201, updown.c:31, 41), the row that says done means     *)
(* that the whole exported files of this run were sent.                    *)
THEOREM DeliveredWhenNoticed ==
  ASSUME "quiet" \notin Faults
  PROVE  Spec => []Delivered
<1>1. Init => NoneUnseen
  BY DEF Init, NoneUnseen
<1>2. TypeOK /\ SessionInv /\ NoneUnseen /\ [Next]_vars => NoneUnseen'
  <2> SUFFICES ASSUME TypeOK, SessionInv, NoneUnseen, [Next]_vars
               PROVE  NoneUnseen'
    OBVIOUS
  <2>1. ASSUME NEW s \in Step, NEW o \in Outcomes(s), Output(s, o)
        PROVE  NoneUnseen'
    <3>1. o.sent # "unread" /\ o.file # "cut"
      BY <2>1, NothingQuiet DEF Outcomes
    <3>2. s.file \in Files
      BY DEF Step
    <3>3. unseen' = {}
      BY <2>1, <3>1, <3>2 DEF Output, Sent, Own, NoneUnseen
    <3>4. \A f \in Files : file'[f].state # "cut"
      BY <2>1, <3>1, <3>2 DEF Output, LocalFile, NoneUnseen, TypeOK
    <3>5. QED BY <3>3, <3>4 DEF NoneUnseen
  <2>2. CASE MainStep \/ MainStepFails
    BY <2>1, <2>2, AtStepType DEF MainStep, MainStepFails
  <2>3. CASE HandlerStep \/ HandlerStepFails
    BY <2>1, <2>3, AtStepType DEF HandlerStep, HandlerStepFails
  <2>4. CASE Crash
    <3>1. UNCHANGED unseen
      BY <2>4 DEF Crash
    <3>2. \/ UNCHANGED file
          \/ file' = [file EXCEPT ![Steps(job)[i].file] =
                                     [state |-> "partial", by |-> job]]
      BY <2>4 DEF Crash
    <3>3. \A f \in Files : file'[f].state # "cut"
      <4>1. CASE UNCHANGED file
        BY <4>1 DEF NoneUnseen
      <4>2. CASE file' = [file EXCEPT ![Steps(job)[i].file] =
                                         [state |-> "partial", by |-> job]]
        <5>1. \A f \in Files : \/ file'[f] = file[f]
                               \/ file'[f] = [state |-> "partial", by |-> job]
          BY <4>2 DEF TypeOK
        <5>2. QED BY <5>1 DEF NoneUnseen
      <4>3. QED BY <3>2, <4>1, <4>2
    <3>4. QED BY <3>1, <3>3 DEF NoneUnseen
  <2>5. CASE PrepareJob
    BY <2>5 DEF PrepareJob, NoneUnseen
  <2>6. CASE \/ \E j \in Jobs : Submit(j)
             \/ LoseConnection \/ Boot \/ ReconnectFails \/ TestConnection
             \/ LoadGenerateFile \/ LoadFails \/ EndCycle \/ MainDone
             \/ HandlerSkip \/ HandlerDone \/ Commit \/ UNCHANGED vars
    <3>1. UNCHANGED outVars
      BY <2>6 DEF Submit, LoseConnection, Boot, ReconnectFails, TestConnection,
         LoadGenerateFile, LoadFails, EndCycle, MainDone, HandlerSkip,
         HandlerDone, Commit, vars
    <3>2. QED BY <3>1 DEF outVars, NoneUnseen
  <2>7. QED BY <2>2, <2>3, <2>4, <2>5, <2>6 DEF Next, Daemon, Cycle, Environment
<1>3. DoneMeansDelivered /\ NoneUnseen => Delivered
  BY DEF DoneMeansDelivered, NoneUnseen, Delivered
<1>4. QED BY <1>1, <1>2, <1>3, TypeAndSession, DoneMeansDeliveredHolds, PTL DEF Spec

(* A main step that reads a member which an earlier step of its job was    *)
(* bound to write does not read what another job left in the request or    *)
(* the response of the cycle (file_generate.c:132).                        *)
THEOREM OwnInputsHolds == Spec => []OwnInputs
<1>1. TypeOK /\ SessionInv /\ DeliveryInv => OwnInputs
  <2> SUFFICES ASSUME TypeOK, SessionInv, DeliveryInv, AtStep("main", "0"),
                      NEW k \in Steps(job)[i].needs,
                      NEW m \in 1..(i - 1),
                      k \in Steps(job)[m].keys, AlwaysWrites(Steps(job)[m])
               PROVE  reqData[k] = job
    BY DEF OwnInputs
  <2>1. /\ pc = "main" /\ job \in Jobs /\ i \in DOMAIN Steps(job)
        /\ Steps(job)[i].exec = "0"
    BY AtStepType DEF AtStep
  <2>2. /\ i \in Nat
        /\ DOMAIN Steps(job) = 1..Len(Steps(job)) /\ Len(Steps(job)) \in Nat
    BY <2>1, StepsType DEF TypeOK
  <2>3. m \in DOMAIN Steps(job) /\ m < i
    BY <2>1, <2>2
  <2>4. QED BY <2>1, <2>3 DEF DeliveryInv, OwnKeys
<1>2. QED BY <1>1, TypeAndSession, DeliveryAlways, PTL

(* The variables of process() keep their types.                            *)
THEOREM JobTypeOK == Spec => []TypeOK
  BY TypeAndSession, PTL
=============================================================================
