---------------------------- MODULE ConfigSearch ----------------------------
(***************************************************************************)
(* search_fun_config_min of process_util.c and the count that process()    *)
(* makes of its result: which rows of fun_config are the steps of a url.   *)
(*                                                                         *)
(* The C library's bsearch halves [l, u) with a comparison that never      *)
(* says "equal" for a row whose predecessor has the same url, so that it   *)
(* stops at the first row of the url only.  Rows are numbered from 0 as in *)
(* the code; urls are numbers in the order of strcmp.                      *)
(***************************************************************************)
EXTENDS Integers, Sequences

CONSTANTS Urls, Tables

ASSUME UrlsAssumption == Urls \subseteq Nat

(* load_fun_config fills the table "order by url, exec_type, order_no".    *)
Sorted(t) == \A m, n \in 1..Len(t) : m <= n => t[m] <= t[n]
ASSUME TablesAssumption == \A t \in Tables : t \in Seq(Urls) /\ Sorted(t)

VARIABLES
  g_fun_config,  \* the urls of the rows
  url,           \* the job's url
  pc,            \* search, count, done
  l, u,          \* bsearch's interval
  config,        \* the row found, or -1 for NULL
  config_len     \* the rows counted from there on

vars == <<g_fun_config, url, pc, l, u, config, config_len>>

g_fun_config_len == Len(g_fun_config)
Row(k) == g_fun_config[k + 1]

OneRowMore(t) == Len(t) + 1
TableLen(t) == Len(t)

TypeOK ==
  /\ g_fun_config \in Tables
  /\ url \in Urls
  /\ pc \in {"search", "count", "done"}
  /\ l \in 0..g_fun_config_len /\ u \in 0..g_fun_config_len
  /\ config \in -1..(g_fun_config_len - 1)
  /\ config_len \in 0..g_fun_config_len

Init ==
  /\ g_fun_config \in Tables /\ url \in Urls
  /\ pc = "search"
  /\ l = 0 /\ u = TableLen(g_fun_config)
  /\ config = -1 /\ config_len = 0

-----------------------------------------------------------------------------
(* search_compare_fun_config_min, key against row k: where the key lies.   *)
AnyRow(k) ==
  IF url < Row(k) THEN "before" ELSE IF url > Row(k) THEN "after" ELSE "here"
Compare(k) ==
  IF url < Row(k) \/ (url = Row(k) /\ k > 0 /\ Row(k - 1) = Row(k))
  THEN "before"
  ELSE IF url > Row(k) THEN "after" ELSE "here"

(* One turn of bsearch's loop.                                             *)
AfterMid(mid) == mid + 1
Probe ==
  /\ pc = "search" /\ l < u
  /\ LET mid == (l + u) \div 2 IN
       \/ Compare(mid) = "before" /\ u' = mid /\ UNCHANGED <<l, pc, config>>
       \/ Compare(mid) = "after" /\ l' = AfterMid(mid) /\ UNCHANGED <<u, pc, config>>
       \/ Compare(mid) = "here" /\ config' = mid /\ pc' = "count" /\ UNCHANGED <<l, u>>
  /\ UNCHANGED <<g_fun_config, url, config_len>>

(* NULL: process() runs no step.                                           *)
NotFound ==
  /\ pc = "search" /\ l >= u
  /\ pc' = "done"
  /\ UNCHANGED <<g_fun_config, url, l, u, config, config_len>>

(* while(config && config+config_len < g_fun_config+g_fun_config_len && ...) *)
InTable(k) == k < g_fun_config_len
CountForgets ==
  /\ pc = "count"
  /\ ~(InTable(config + config_len) /\ Row(config + config_len) = Row(config))
  /\ pc' = "done"
  /\ UNCHANGED <<g_fun_config, url, l, u, config, config_len>>
Count ==
  /\ pc = "count"
  /\ LET k == config + config_len IN
       IF InTable(k) /\ Row(k) = Row(config)
       THEN config_len' = config_len + 1 /\ UNCHANGED pc
       ELSE pc' = "done" /\ UNCHANGED config_len
  /\ UNCHANGED <<g_fun_config, url, l, u, config>>

Next == Probe \/ NotFound \/ Count

Spec == Init /\ [][Next]_vars
FairSpec == Spec /\ WF_vars(Next)

-----------------------------------------------------------------------------
(* Properties                                                              *)

(* What process() runs for a job are all the rows of its url and no other, *)
(* wherever in the table and however many they are: the first of them has  *)
(* been found, and none when the url is not configured.                    *)
Found == {k \in 0..(g_fun_config_len - 1) :
            config # -1 /\ config <= k /\ k < config + config_len}
RowsOf == {k \in 0..(g_fun_config_len - 1) : Row(k) = url}
StepsOfUrl == pc = "done" => Found = RowsOf

(* Why: a row before the interval is of a smaller url, and the row behind  *)
(* it of a greater one or not the first of this url; what is found is the  *)
(* first row, and what is counted is of the url.                           *)
Halved ==
  /\ l <= u
  /\ l > 0 => Row(l - 1) < url
  /\ u < g_fun_config_len =>
       Row(u) > url \/ (Row(u) = url /\ u > 0 /\ Row(u - 1) = Row(u))
First(k) == Row(k) = url /\ (k > 0 => Row(k - 1) # Row(k))
SearchInv ==
  /\ pc = "search" => config = -1 /\ config_len = 0 /\ Halved
  /\ pc = "count" => config # -1
  /\ config # -1 =>
       /\ First(config) /\ config + config_len <= g_fun_config_len
       /\ \A k \in config..(config + config_len - 1) : Row(k) = url
  /\ StepsOfUrl

(* The search and the count end for every table and url.                   *)
Ends == <>(pc = "done")
=============================================================================
