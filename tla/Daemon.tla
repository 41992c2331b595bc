------------------------------- MODULE Daemon -------------------------------
(***************************************************************************)
(* main() of main.c and the connection and table handling of db_hander.c:  *)
(* start-up, the minute loop, reload on SIGUSR1, and the restart by execv  *)
(* after a reconnection that failed.                                       *)
(*                                                                         *)
(* The signal handler runs between any two steps and writes sys_exit,      *)
(* which main() also writes: 0 run, 1 reload asked for, 2 restart.  What   *)
(* process() does with a job is the subject of JobProcessing; here it is   *)
(* one step that either comes back or dies on unusable tables.             *)
(***************************************************************************)
EXTENDS Integers

CONSTANTS
  Faults,      \* "sql": a statement fails on a live connection; "connect": a
               \* connection is refused although the server is up
  ConnFaults,  \* "lost" with a code sql_error_handler knows, "wedged" with another
  InCwd,       \* the program is in the working directory, where execv(argv[0])
               \* looks for it (start.sh finds it through PATH)
  SignalAt,    \* where main() may be when a SIGUSR1 arrives
  Stops        \* somebody runs stop.sh, and start.sh again

ASSUME FaultsAssumption == Faults \subseteq {"sql", "connect"}
ASSUME ConnFaultsAssumption == ConnFaults \subseteq {"lost", "wedged"}
ASSUME SwitchAssumption == InCwd \in BOOLEAN /\ Stops \in BOOLEAN

(* boot: before init_signals; check: the test of the outer loop; ending:   *)
(* process() has returned 0; restart: sleep(1800).                         *)
Running == {"process", "jobs", "reload", "reload_fun", "reloaded", "sleep"}
Places == Running \cup
          {"boot", "connect", "load", "check", "ending", "restart", "exited"}

ASSUME SignalAtAssumption == SignalAt \subseteq Places

VARIABLES
  pc,              \* where main() is
  sys_exit,
  g_db_con,        \* null, open, lost, wedged, or a freed handle
  reconnect_flag,  \* an error code of a lost connection has been seen
  sqlLib,          \* the SQL library of sql_init: "empty" or "loaded"
  funConfig,       \* fun_config: "none" at start, "loaded", or "bad" when the
                   \* length holds the -1 of the statement that failed
  asked,           \* history: a SIGUSR1 is "waiting" for, or "served" by, a
                   \* reading of the tables that began after it
  db               \* the database server: up or down

tables == <<sqlLib, funConfig>>
vars == <<pc, sys_exit, g_db_con, reconnect_flag, tables, asked, db>>

TypeOK ==
  /\ pc \in Places
  /\ sys_exit \in {0, 1, 2}
  /\ g_db_con \in {"null", "open", "lost", "wedged", "freed"}
  /\ reconnect_flag \in {0, 1}
  /\ sqlLib \in {"empty", "loaded"}
  /\ funConfig \in {"none", "loaded", "bad"}
  /\ asked \in {"no", "waiting", "served"}
  /\ db \in {"up", "down"}

Init ==
  /\ pc = "boot" /\ sys_exit = 0 /\ g_db_con = "null" /\ reconnect_flag = 0
  /\ sqlLib = "empty" /\ funConfig = "none"
  /\ asked = "no" /\ db = "up"

-----------------------------------------------------------------------------
(* The world around the daemon                                             *)

ServerDown ==
  /\ db = "up" /\ db' = "down"
  /\ g_db_con' \in IF g_db_con = "open" /\ ConnFaults # {}
                   THEN ConnFaults ELSE {g_db_con}
  /\ UNCHANGED <<pc, sys_exit, reconnect_flag, tables, asked>>

ServerUp ==
  /\ db = "down" /\ db' = "up"
  /\ UNCHANGED <<pc, sys_exit, g_db_con, reconnect_flag, tables, asked>>

LoseConnection ==
  /\ g_db_con = "open"
  /\ g_db_con' \in ConnFaults
  /\ UNCHANGED <<pc, sys_exit, reconnect_flag, tables, asked, db>>

(* reload.sh.  Before init_signals the signal has its default effect; the  *)
(* handler sets sys_exit whatever it was; a sleep ends early.              *)
Sigusr1 ==
  /\ pc # "exited" /\ pc \in SignalAt
  /\ asked' = "waiting"
  /\ IF pc = "boot" THEN pc' = "exited" /\ UNCHANGED sys_exit
                    ELSE UNCHANGED pc /\ sys_exit' = 1
  /\ UNCHANGED <<g_db_con, reconnect_flag, tables, db>>

(* stop.sh, then start.sh, by hand; SIGTERM is ignored by the handler.     *)
FreshProcess ==
  /\ pc' = "boot" /\ sys_exit' = 0 /\ g_db_con' = "null" /\ reconnect_flag' = 0
  /\ sqlLib' = "empty" /\ funConfig' = "none"
Stop ==
  /\ Stops
  /\ pc # "exited" /\ pc' = "exited"
  /\ UNCHANGED <<sys_exit, g_db_con, reconnect_flag, tables, asked, db>>
Start ==
  /\ Stops
  /\ pc = "exited"
  /\ FreshProcess
  /\ asked' = "no"
  /\ UNCHANGED db

-----------------------------------------------------------------------------
(* What the calls below depend on.                                         *)

(* oci_connection_new                                                      *)
Connects == {ok \in BOOLEAN : /\ ok => db = "up"
                              /\ ~ok => db = "down" \/ "connect" \in Faults}

(* sql_execute on g_db_con, and what sql_error_handler makes of an error.  *)
Executes == {ok \in BOOLEAN : /\ ok => g_db_con = "open"
                              /\ ~ok => g_db_con # "open" \/ "sql" \in Faults}
HandleError(ok) == reconnect_flag' = IF ~ok /\ g_db_con = "lost" THEN 1
                                     ELSE reconnect_flag

-----------------------------------------------------------------------------
(* Start-up                                                                *)

InitSignals ==
  /\ pc = "boot" /\ pc' = "connect"
  /\ UNCHANGED <<sys_exit, g_db_con, reconnect_flag, tables, asked, db>>

(* while(connect_init() < 0) sleep(100)                                    *)
ConnectInit ==
  /\ pc = "connect"
  /\ \E ok \in Connects :
       IF ok THEN pc' = "load" /\ g_db_con' = "open"
             ELSE UNCHANGED pc /\ g_db_con' = "null"
  /\ UNCHANGED <<sys_exit, reconnect_flag, tables, asked, db>>

(* while(load_config() < 0) sleep(10).  sql_init, then load_fun_config;    *)
(* the first to fail makes load_config free the connection and the library *)
(* that the next attempt uses.                                             *)
LoadConfig ==
  /\ pc = "load" /\ g_db_con # "freed"
  /\ \E sqlOk \in Executes, funOk \in Executes :
       /\ HandleError(sqlOk /\ funOk)
       /\ IF sqlOk /\ funOk
          THEN /\ pc' = "check"
               /\ sqlLib' = "loaded" /\ funConfig' = "loaded"
               /\ asked' = "no"
               /\ UNCHANGED g_db_con
          ELSE /\ sqlLib' = "empty"
               /\ funConfig' = IF sqlOk THEN "bad" ELSE funConfig
               /\ g_db_con' = "freed"
               /\ UNCHANGED <<pc, asked>>
  /\ UNCHANGED <<sys_exit, db>>

(* On a freed connection and a library shut down: fails again, or faults,  *)
(* and the SIGSEGV handler exits.                                          *)
LoadConfigFreed ==
  /\ pc = "load" /\ g_db_con = "freed"
  /\ pc' = "exited"
  /\ UNCHANGED <<sys_exit, g_db_con, reconnect_flag, tables, asked, db>>

-----------------------------------------------------------------------------
(* The loop                                                                *)

(* while(sys_exit == 0), and after it if(sys_exit == 2)                    *)
Check ==
  /\ pc = "check"
  /\ pc' = CASE sys_exit = 0 -> "process"
             [] sys_exit = 2 -> "restart"
             [] OTHER -> "exited"
  /\ UNCHANGED <<sys_exit, g_db_con, reconnect_flag, tables, asked, db>>

(* test_databse_connection: the test statement, and reconnect() when an    *)
(* error with one of the known codes has been seen.  reconnect() frees the *)
(* handle first; when no new one can be made, process() returns 0.         *)
ResultDropped(ok) == "jobs"
AfterReconnect(ok) == IF ok THEN "jobs" ELSE "ending"
TestConnection ==
  /\ pc = "process"
  /\ \E tested \in Executes :
       IF reconnect_flag = 1 \/ (~tested /\ g_db_con = "lost")
       THEN /\ reconnect_flag' = 0
            /\ \E ok \in Connects :
                 /\ g_db_con' = IF ok THEN "open" ELSE "null"
                 /\ pc' = AfterReconnect(ok)
       ELSE /\ pc' = "jobs"
            /\ UNCHANGED <<g_db_con, reconnect_flag>>
  /\ UNCHANGED <<sys_exit, tables, asked, db>>

(* load_generate_file and the jobs: 1 or -1, both true for main().  With a *)
(* length of -1 the search of the first job's url leaves the table.        *)
Jobs ==
  /\ pc = "jobs"
  /\ \E ok \in Executes :
       /\ HandleError(ok)
       /\ \/ pc' = "reload"
          \/ ok /\ funConfig = "bad" /\ pc' = "exited"
  /\ UNCHANGED <<sys_exit, g_db_con, tables, asked, db>>

(* if(sys_exit == 1 && db_reload(sys_exit) > 0): sql_destroy and sql_init  *)
Served(done) == IF asked = "no" THEN "no" ELSE IF done THEN "served" ELSE "waiting"
Reload ==
  /\ pc = "reload" /\ sys_exit = 1
  /\ \E ok \in Executes :
       /\ HandleError(ok)
       /\ sqlLib' = IF ok THEN "loaded" ELSE "empty"
       /\ pc' = IF ok THEN "reload_fun" ELSE "sleep"
       /\ asked' = Served(ok)
  /\ UNCHANGED <<sys_exit, g_db_con, funConfig, db>>

NoReload ==
  /\ pc = "reload" /\ sys_exit # 1
  /\ pc' = "sleep"
  /\ UNCHANGED <<sys_exit, g_db_con, reconnect_flag, tables, asked, db>>

(* load_fun_config; db_reload ends without a return after it succeeded, so *)
(* that the value main() compares is whatever dcs_log left: any.           *)
AlwaysPositive(ok) == {1}
ReloadValue(ok) == IF ok THEN {1, -1} ELSE {-1}
ReloadFun ==
  /\ pc = "reload_fun"
  /\ \E ok \in Executes :
       /\ HandleError(ok)
       /\ funConfig' = IF ok THEN "loaded" ELSE "bad"
       /\ \E value \in ReloadValue(ok) :
            pc' = IF value > 0 THEN "reloaded" ELSE "sleep"
       /\ asked' = IF ok /\ asked = "served" THEN "no" ELSE Served(FALSE)
  /\ UNCHANGED <<sys_exit, g_db_con, sqlLib, db>>

ClearSysExit ==
  /\ pc = "reloaded" /\ pc' = "sleep"
  /\ sys_exit' = 0
  /\ UNCHANGED <<g_db_con, reconnect_flag, tables, asked, db>>

Sleep ==
  /\ pc = "sleep" /\ pc' = "process"
  /\ UNCHANGED <<sys_exit, g_db_con, reconnect_flag, tables, asked, db>>

(* sys_exit = 2 after the inner loop                                       *)
KeepsSysExit ==
  /\ pc = "ending" /\ pc' = "check"
  /\ UNCHANGED <<sys_exit, g_db_con, reconnect_flag, tables, asked, db>>
OrsSysExit ==
  /\ pc = "ending" /\ pc' = "check"
  /\ sys_exit' = sys_exit + 2
  /\ UNCHANGED <<g_db_con, reconnect_flag, tables, asked, db>>
SetRestart ==
  /\ pc = "ending" /\ pc' = "check"
  /\ sys_exit' = 2
  /\ UNCHANGED <<g_db_con, reconnect_flag, tables, asked, db>>

(* sleep(1800), execv(argv[0], argv)                                       *)
Restart ==
  /\ pc = "restart"
  /\ IF InCwd THEN FreshProcess
     ELSE /\ pc' = "exited"
          /\ UNCHANGED <<sys_exit, g_db_con, reconnect_flag, tables>>
  /\ UNCHANGED <<asked, db>>

-----------------------------------------------------------------------------
Main == InitSignals \/ ConnectInit \/ LoadConfig \/ Check
        \/ TestConnection \/ Jobs \/ Reload \/ NoReload \/ ReloadFun
        \/ ClearSysExit \/ Sleep \/ SetRestart \/ Restart
Environment == ServerDown \/ ServerUp \/ LoseConnection \/ Sigusr1 \/ Stop
               \/ Start
Next == Main \/ LoadConfigFreed \/ Environment
Spec == Init /\ [][Next]_vars

(* main() is scheduled and no call in it blocks for ever.  A load on the   *)
(* freed handle may fail for ever, so LoadConfigFreed need not happen.     *)
FairSpec == Spec /\ WF_vars(Main)

-----------------------------------------------------------------------------
(* Properties                                                              *)

(* Whenever the tables are unusable while the daemon runs, because a       *)
(* reload failed half way, sys_exit is still 1: the next minute reloads    *)
(* again, whatever value the missing return of db_reload leaves.           *)
UnusableTablesRetried ==
  pc \in Running /\ (sqlLib = "empty" \/ funConfig # "loaded") => sys_exit = 1

(* In the loop the global g_db_con is never the null that a failed         *)
(* reconnect() leaves nor the handle that a failed load_config() freed,    *)
(* although four functions replace and free it.  The copy of it in ctx.con *)
(* is not meant: that one is used after it was freed, see LiveHandle in    *)
(* JobProcessing.                                                          *)
HandleUsable == pc \in Running => g_db_con \notin {"null", "freed"}

(* When no signal comes during start-up or in the restart's check, and the *)
(* program is where execv looks for it, a daemon whose reconnection failed *)
(* gets back to loading its configuration once the server stays up.        *)
RestartsWhenUp == <>[](db = "up") => (pc = "ending" ~> pc = "load")

(* When no signal comes during start-up or while db_reload is at work, and *)
(* connections stop failing, and none stays wedged with an error that no   *)
(* reconnection answers, every SIGUSR1 is followed by a reading of both    *)
(* tables that began after it, however many reloads fail before, unless    *)
(* the daemon dies of unusable tables or loads on a freed handle.          *)
Calm == /\ <>[](db = "up") /\ <>[][~LoseConnection]_vars
        /\ []<>(g_db_con # "wedged")
ReloadServed == Calm =>
  (asked = "waiting" ~> asked = "no" \/ pc = "exited" \/ g_db_con = "freed")

(* Why the first two hold: what is known where main() is.                  *)
Prepared == g_db_con \notin {"null", "freed"} /\ sqlLib = "loaded"
            /\ funConfig = "loaded"
DaemonInv ==
  /\ UnusableTablesRetried /\ HandleUsable
  /\ pc = "load" => g_db_con # "null"
  /\ pc = "check" /\ sys_exit = 0 => Prepared
  /\ pc = "reload_fun" => sys_exit = 1 /\ sqlLib = "loaded"
  /\ pc = "reloaded" => Prepared

(* main.c:132: a daemon whose process() returned 0 restarts by itself      *)
(* after half an hour.                                                     *)
RestartPromised == pc = "ending" ~> pc = "boot"
=============================================================================
