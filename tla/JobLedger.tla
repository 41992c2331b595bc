----------------------------- MODULE JobLedger ------------------------------
(***************************************************************************)
(* What the generator promises to whoever inserts a row in the job table:  *)
(* every row is decided at most once, and the database work of its main    *)
(* steps becomes visible together with the status "done", never without    *)
(* it.  How long a decision takes, and what is written to files on the     *)
(* way, is left open.                                                      *)
(***************************************************************************)
CONSTANT Jobs

VARIABLES
  status,   \* [Jobs -> none, pending, done, failed]
  effect    \* the jobs whose main steps' database work is visible

vars == <<status, effect>>

Init == /\ status = [j \in Jobs |-> "none"]
        /\ effect = {}

(* Another program inserts the row with status '0'.                        *)
Submit(j) == /\ status[j] = "none"
             /\ status' = [status EXCEPT ![j] = "pending"]
             /\ UNCHANGED effect

(* One commit publishes the work and the status.                           *)
Complete(j) == /\ status[j] = "pending"
               /\ status' = [status EXCEPT ![j] = "done"]
               /\ effect' = effect \cup {j}

Fail(j) == /\ status[j] = "pending"
           /\ status' = [status EXCEPT ![j] = "failed"]
           /\ UNCHANGED effect

Next == \E j \in Jobs : Submit(j) \/ Complete(j) \/ Fail(j)

Spec == Init /\ [][Next]_vars
=============================================================================
