---------------------------- MODULE DaemonProofs ----------------------------
(***************************************************************************)
(* Proofs about Daemon: the handle and the tables are usable wherever      *)
(* main() uses them, for every set of faults and wherever signals arrive.  *)
(***************************************************************************)
EXTENDS Daemon, TLAPS

(* The initial state has the types and satisfies the invariant.            *)
LEMMA DaemonInit == Init => TypeOK /\ DaemonInv
  BY DEF Init, TypeOK, DaemonInv, UnusableTablesRetried, HandleUsable, Running,
         Places, Prepared

(* No step leaves the types: each action assigns constants, and the loss   *)
(* of the connection a member of ConnFaults.                               *)
LEMMA TypeStep == TypeOK /\ [Next]_vars => TypeOK'
<1> SUFFICES ASSUME TypeOK, [Next]_vars PROVE TypeOK'
  OBVIOUS
<1> USE ConnFaultsAssumption DEF TypeOK, Places, Running, tables
<1>1. CASE ServerDown  BY <1>1 DEF ServerDown
<1>2. CASE ServerUp    BY <1>2 DEF ServerUp
<1>3. CASE LoseConnection  BY <1>3 DEF LoseConnection
<1>4. CASE Sigusr1     BY <1>4 DEF Sigusr1
<1>5. CASE Stop        BY <1>5 DEF Stop
<1>6. CASE Start       BY <1>6 DEF Start, FreshProcess
<1>7. CASE InitSignals BY <1>7 DEF InitSignals
<1>8. CASE ConnectInit BY <1>8 DEF ConnectInit
<1>9. CASE LoadConfig  BY <1>9 DEF LoadConfig, HandleError
<1>10. CASE LoadConfigFreed  BY <1>10 DEF LoadConfigFreed
<1>11. CASE Check      BY <1>11 DEF Check
<1>12. CASE TestConnection  BY <1>12 DEF TestConnection, AfterReconnect
<1>13. CASE Jobs       BY <1>13 DEF Jobs, HandleError
<1>14. CASE Reload     BY <1>14 DEF Reload, HandleError, Served
<1>15. CASE NoReload   BY <1>15 DEF NoReload
<1>16. CASE ReloadFun  BY <1>16 DEF ReloadFun, HandleError, Served
<1>17. CASE ClearSysExit  BY <1>17 DEF ClearSysExit
<1>18. CASE Sleep      BY <1>18 DEF Sleep
<1>19. CASE SetRestart BY <1>19 DEF SetRestart
<1>20. CASE Restart    BY <1>20 DEF Restart, FreshProcess
<1>21. CASE UNCHANGED vars  BY <1>21 DEF vars
<1> QED
  BY <1>1, <1>2, <1>3, <1>4, <1>5, <1>6, <1>7, <1>8, <1>9, <1>10, <1>11, <1>12,
     <1>13, <1>14, <1>15, <1>16, <1>17, <1>18, <1>19, <1>20, <1>21
     DEF Next, Main, Environment

(* No step breaks the invariant.  The tables and the handle are known to   *)
(* be good when the loop is entered; a reload that fails keeps sys_exit at *)
(* 1, and a reconnection that fails leaves the loop.                       *)
LEMMA InvStep == TypeOK /\ DaemonInv /\ [Next]_vars => DaemonInv'
<1> SUFFICES ASSUME TypeOK, DaemonInv, [Next]_vars PROVE DaemonInv'
  OBVIOUS
<1> USE ConnFaultsAssumption
    DEF TypeOK, Places, Running, tables, DaemonInv, UnusableTablesRetried,
        HandleUsable, Prepared
<1>1. CASE ServerDown  BY <1>1 DEF ServerDown
<1>2. CASE ServerUp    BY <1>2 DEF ServerUp
<1>3. CASE LoseConnection  BY <1>3 DEF LoseConnection
<1>4. CASE Sigusr1     BY <1>4 DEF Sigusr1
<1>5. CASE Stop        BY <1>5 DEF Stop
<1>6. CASE Start       BY <1>6 DEF Start, FreshProcess
<1>7. CASE InitSignals BY <1>7 DEF InitSignals
<1>8. CASE ConnectInit BY <1>8 DEF ConnectInit
<1>9. CASE LoadConfig  BY <1>9 DEF LoadConfig, Executes
<1>10. CASE LoadConfigFreed  BY <1>10 DEF LoadConfigFreed
<1>11. CASE Check      BY <1>11 DEF Check
<1>12. CASE TestConnection  BY <1>12 DEF TestConnection, AfterReconnect
<1>13. CASE Jobs       BY <1>13 DEF Jobs
<1>14. CASE Reload     BY <1>14 DEF Reload
<1>15. CASE NoReload   BY <1>15 DEF NoReload
<1>16. CASE ReloadFun  BY <1>16 DEF ReloadFun, ReloadValue, Executes
<1>17. CASE ClearSysExit  BY <1>17 DEF ClearSysExit
<1>18. CASE Sleep      BY <1>18 DEF Sleep
<1>19. CASE SetRestart BY <1>19 DEF SetRestart
<1>20. CASE Restart    BY <1>20 DEF Restart, FreshProcess
<1>21. CASE UNCHANGED vars  BY <1>21 DEF vars
<1> QED
  BY <1>1, <1>2, <1>3, <1>4, <1>5, <1>6, <1>7, <1>8, <1>9, <1>10, <1>11, <1>12,
     <1>13, <1>14, <1>15, <1>16, <1>17, <1>18, <1>19, <1>20, <1>21
     DEF Next, Main, Environment

(* In every reachable state of the daemon the variables have their types   *)
(* and DaemonInv holds.                                                    *)
THEOREM DaemonTypeAndInv == Spec => [](TypeOK /\ DaemonInv)
  BY DaemonInit, TypeStep, InvStep, PTL DEF Spec

(* A reload that failed half way is tried again: unusable tables in the    *)
(* loop imply sys_exit = 1 (main.c:121, db_hander.c:273).                  *)
THEOREM UnusableTablesRetriedHolds == Spec => []UnusableTablesRetried
<1>1. TypeOK /\ DaemonInv => UnusableTablesRetried
  BY DEF DaemonInv
<1> QED
  BY <1>1, DaemonTypeAndInv, PTL

(* In the loop g_db_con is neither null nor freed (db_hander.c:155, 267);  *)
(* nothing is said of the copy of it that a cycle has in ctx.con.          *)
THEOREM HandleUsableHolds == Spec => []HandleUsable
<1>1. TypeOK /\ DaemonInv => HandleUsable
  BY DEF DaemonInv
<1> QED
  BY <1>1, DaemonTypeAndInv, PTL

(* The variables of the daemon keep their types.                           *)
THEOREM DaemonTypeOK == Spec => []TypeOK
  BY DaemonTypeAndInv, PTL
=============================================================================
