---------------------------- MODULE FtpDownload -----------------------------
(***************************************************************************)
(* download() of updown.c, called by module_download in a step of a job.   *)
(*                                                                         *)
(* A call does not retry, and process() does not either: a job whose step  *)
(* failed gets a failed status and is not listed again.  Run again is a    *)
(* job whose status was not committed, the process having been killed or   *)
(* the session lost before, and a later job may ask for the same file.     *)
(* Each call opens the local file for appending and asks the server for    *)
(* what comes behind the size that file has, so that it goes on where an   *)
(* earlier one ended.  What writefunc hands to fwrite is in the stdio      *)
(* buffer first: a kill loses that part, and so does a disk that is full   *)
(* when fclose writes it, whose result nobody looks at.  The server,       *)
(* libcurl and stdio are external; the server is taken to know the size of *)
(* its file and to keep that file as it is.                                *)
(***************************************************************************)
EXTENDS Integers, Sequences

CONSTANTS
  Bytes,    \* what files are made of
  Remote,   \* the contents of the file on the server
  Before    \* what may be under the local name at first

ASSUME FilesAssumption == Remote \in Seq(Bytes) /\ Before \subseteq Seq(Bytes)

VARIABLES
  pc,        \* idle, open, perform, data, close, return, decide
  exists,    \* there is a file under the local name
  local,     \* its contents as the process sees them
  saved,     \* how many bytes of them are on the disk
  offset,    \* where in the remote file the transfer stands
  r,         \* the CURLcode, "ok" or "error"
  result,    \* of the last call: 1, -1, or 0
  pending,   \* the job's row says '0': FILE_SQL lists it
  calm,      \* from here on nothing fails any more
  own,       \* history: nothing of an older file is in local
  lost       \* history: the last fclose could not write everything

file == <<exists, local, saved>>
vars == <<pc, file, offset, r, result, pending, calm, own, lost>>

TypeOK ==
  /\ pc \in {"idle", "open", "perform", "data", "close", "return", "decide"}
  /\ local \in Seq(Bytes)
  /\ saved \in 0..Len(local)
  /\ offset \in Nat
  /\ r \in {"ok", "error"}
  /\ result \in {0, 1, -1}
  /\ {exists, pending, calm, own, lost} \subseteq BOOLEAN

Init ==
  /\ pc = "idle"
  /\ \/ exists = FALSE /\ local = <<>> /\ own = TRUE
     \/ exists = TRUE /\ local \in Before /\ own = FALSE
  /\ saved = Len(local)
  /\ offset = 0 /\ r = "error" /\ result = 0
  /\ pending = TRUE /\ calm = FALSE /\ lost = FALSE

-----------------------------------------------------------------------------
(* A cycle runs the step: that of the pending job, or, when it is decided, *)
(* one of another job for the same file.                                   *)
Call ==
  /\ pc = "idle"
  /\ pc' = "open" /\ pending' = TRUE /\ result' = 0
  /\ r' = "error" /\ lost' = FALSE
  /\ UNCHANGED <<file, offset, calm, own>>

(* stat, then fopen(localpath, "ab+"), which makes the file when there is  *)
(* none.  When it cannot be opened the result is 0, and module_download    *)
(* takes only a negative one for an error.                                 *)
FromTheStart == 0
EvenWithoutFile == IF exists THEN Len(local) ELSE -1
ResumeFrom == IF exists THEN Len(local) ELSE 0
Open ==
  /\ pc = "open"
  /\ \/ pc' = "perform" /\ exists' = TRUE /\ offset' = ResumeFrom
     \/ ~calm /\ pc' = "decide" /\ UNCHANGED <<exists, offset>>
  /\ UNCHANGED <<local, saved, r, result, pending, calm, own, lost>>

(* CURLOPT_RESUME_FROM_LARGE: a size larger than the remote file's is      *)
(* refused, one equal to it leaves nothing to do.                          *)
Begin ==
  /\ pc = "perform"
  /\ pc' = IF offset <= Len(Remote) THEN "data" ELSE "close"
  /\ UNCHANGED <<file, offset, r, result, pending, calm, own, lost>>

(* The attempt fails: no connection, no login, a timeout, a short fwrite.  *)
Fail ==
  /\ pc \in {"perform", "data"} /\ ~calm
  /\ pc' = "close"
  /\ UNCHANGED <<file, offset, r, result, pending, calm, own, lost>>

(* writefunc: fwrite takes a piece.  The file is open for appending.       *)
Write ==
  /\ pc = "data"
  /\ \E n \in offset + 1..Len(Remote) :
        /\ local' = local \o SubSeq(Remote, offset + 1, n)
        /\ offset' = n
  /\ UNCHANGED <<pc, exists, saved, r, result, pending, calm, own, lost>>

(* The transfer is complete, with CURLE_OK when the server's reply to it   *)
(* arrives.                                                                *)
AtAnyTime == TRUE
Complete == offset >= Len(Remote)
Finish ==
  /\ pc = "data" /\ Complete
  /\ pc' = "close" /\ r' = "ok"
  /\ UNCHANGED <<file, offset, result, pending, calm, own, lost>>

(* stdio writes a part of its buffer to the disk.                          *)
Flush ==
  /\ pc = "data"
  /\ saved' \in saved + 1..Len(local)
  /\ UNCHANGED <<pc, exists, local, offset, r, result, pending, calm, own, lost>>

(* fclose writes the rest, or as much of it as the disk takes.             *)
Close ==
  /\ pc = "close"
  /\ \E n \in saved..Len(local) :
        /\ calm => n = Len(local)
        /\ local' = SubSeq(local, 1, n) /\ saved' = n
        /\ lost' = (n < Len(local))
  /\ pc' = "return"
  /\ UNCHANGED <<exists, offset, r, result, pending, calm, own>>

(* The result is that of curl_easy_perform.                                *)
Return ==
  /\ pc = "return"
  /\ result' = IF r = "ok" THEN 1 ELSE -1
  /\ pc' = "decide"
  /\ UNCHANGED <<file, offset, r, pending, calm, own, lost>>

(* process() goes on with the handler steps, after a failed step too, and  *)
(* commits the status that they set, done or failed: the job is decided.   *)
Decide ==
  /\ pc = "decide"
  /\ pc' = "idle" /\ pending' = FALSE
  /\ UNCHANGED <<file, offset, r, result, calm, own, lost>>

(* The commit has nothing to commit: the session was lost, or a handler    *)
(* step failed and was rolled back.  The row stays as it was.              *)
Undecided ==
  /\ pc = "decide" /\ ~calm
  /\ pc' = "idle"
  /\ UNCHANGED <<file, offset, r, result, pending, calm, own, lost>>

(* stop.sh: the buffer is gone, and the job's row still says pending.      *)
Kill ==
  /\ pc # "idle" /\ ~calm
  /\ local' = SubSeq(local, 1, saved)
  /\ pc' = "idle"
  /\ UNCHANGED <<exists, saved, offset, r, result, pending, calm, own, lost>>

(* The faults end.                                                         *)
Settle ==
  /\ calm' = TRUE
  /\ UNCHANGED <<pc, file, offset, r, result, pending, own, lost>>

Step == Open \/ Begin \/ Write \/ Finish \/ Close \/ Return \/ Decide

Next == Call \/ Step \/ Fail \/ Flush \/ Undecided \/ Kill \/ Settle

Spec == Init /\ [][Next]_vars

(* The process goes on with a call, and the cycles run a job whose row     *)
(* says '0'.                                                               *)
FairSpec == Spec /\ WF_vars(Step) /\ WF_vars(pending /\ Call)

-----------------------------------------------------------------------------
(* Properties                                                              *)

IsBeginning(s) == Len(s) <= Len(Remote) /\ s = SubSeq(Remote, 1, Len(s))

(* A local file that this program made is, whatever failed and whenever it *)
(* was killed, a beginning of the remote file: nothing is missing in it    *)
(* and nothing is there twice, although every call appends.                *)
CopyIsBeginning == own => IsBeginning(local)

(* A call that says 1 leaves the whole file under the local name, unless   *)
(* the disk was full when the file was closed.                             *)
ReceivedWhole == result = 1 /\ own /\ ~lost => local = Remote

(* Why: the transfer stands in the remote file where the local one ends.   *)
DownloadInv ==
  /\ CopyIsBeginning
  /\ ~exists => local = <<>> /\ own
  /\ pc \notin {"data", "close"} => saved = Len(local)
  /\ pc \in {"open", "perform", "data"} => r = "error"
  /\ pc \in {"open", "perform", "data", "close"} => ~lost
  /\ pc \notin {"idle", "open", "decide"} => exists
  /\ pc \in {"perform", "data"} /\ own => offset = Len(local)
  /\ pc \in {"close", "return"} /\ r = "ok" /\ own /\ ~lost => local = Remote
  /\ pc \notin {"idle", "decide"} => result = 0
  /\ result = 1 /\ own /\ ~lost => local = Remote

(* Each call adds to what the ones before it brought, and none repeats it: *)
(* seen from the disk the calls are one transfer of the file.              *)
Transfer == INSTANCE FileTransfer WITH
  File <- Remote,
  copy <- IF own THEN SubSeq(local, 1, saved) ELSE <<>>,
  reported <- (result = 1 /\ own /\ ~lost)
ImplementsTransfer == Transfer!Spec

(* A job that is pending when the faults end gets the whole file, whatever *)
(* the killed and uncommitted runs of it have left under the local name,   *)
(* unless the run it is in has failed already: that one fails the job.     *)
MayHaveFailed == pc \in {"close", "return", "decide"}
WholeInTheEnd ==
  (calm /\ pending /\ own /\ ~MayHaveFailed) ~>
    (local = Remote /\ saved = Len(Remote))

(* updown.c:115: the file is opened for appending to continue after an     *)
(* interruption: what is appended to is a beginning of the remote file.    *)
ContinuesOwnFile == pc = "data" => IsBeginning(local)
=============================================================================
