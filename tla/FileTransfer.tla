---------------------------- MODULE FileTransfer ----------------------------
(***************************************************************************)
(* What the two FTP modules of the job processing promise to the steps     *)
(* after them: a copy that only ever grows, is a beginning of the file at  *)
(* all times, and is whole when success is reported.  How often an attempt *)
(* fails, and how much of the file one attempt brings, is left open.       *)
(***************************************************************************)
EXTENDS Naturals, Sequences

CONSTANT File

VARIABLES
  copy,      \* what the other side has of the file
  reported   \* the last call has said that it has all of it

vars == <<copy, reported>>

Init == copy = <<>> /\ reported = FALSE

(* Some more of the file arrives.                                          *)
Receive ==
  /\ ~reported
  /\ \E n \in Len(copy)..Len(File) : copy' = SubSeq(File, 1, n)
  /\ UNCHANGED reported

Report ==
  /\ copy = File
  /\ reported' = TRUE
  /\ UNCHANGED copy

(* The same file is asked for again.                                       *)
Repeat ==
  /\ reported' = FALSE
  /\ UNCHANGED copy

Next == Receive \/ Report \/ Repeat

Spec == Init /\ [][Next]_vars
=============================================================================
