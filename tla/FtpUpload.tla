----------------------------- MODULE FtpUpload ------------------------------
(***************************************************************************)
(* upload() of updown.c: one call, with the retries that resume.           *)
(*                                                                         *)
(* The first attempt stores the file; each later one asks the server for   *)
(* the size of the remote file, moves the local file there and appends.    *)
(* An attempt can fail before the server has touched the remote file,      *)
(* after any part of the data, or after all of it, when only the reply is  *)
(* lost.  Reading the local file can fail too.  The server, libcurl and    *)
(* the network are external; the server is taken to answer SIZE for every  *)
(* file it has.                                                            *)
(***************************************************************************)
EXTENDS Integers, Sequences

CONSTANTS
  Bytes,    \* what files are made of
  Local,    \* the contents of the local file
  Before,   \* what may be under the remote name when the call begins
  tries     \* module_upload passes 3

ASSUME FilesAssumption == Local \in Seq(Bytes) /\ Before \subseteq Seq(Bytes)
ASSUME TriesAssumption == tries \in Nat \ {0}

VARIABLES
  pc,            \* open, loop, append, done
  c, r,          \* the loop's counter and the last CURLcode, "ok" or "error"
  uploaded_len,  \* the Content-Length header last received
  exists,        \* there is a file under the remote name
  remote,        \* its contents, empty when there is none
  own,           \* history: nothing of an older file is in it
  bad,           \* ferror(f): a read of the local file has failed
  result         \* what is returned once pc is done

file == <<exists, remote, own>>
vars == <<pc, c, r, uploaded_len, file, bad, result>>

TypeOK ==
  /\ pc \in {"open", "loop", "append", "done"}
  /\ c \in 0..tries
  /\ r \in {"ok", "error"}
  /\ uploaded_len \in Nat
  /\ exists \in BOOLEAN /\ own \in BOOLEAN /\ bad \in BOOLEAN
  /\ remote \in Seq(Bytes)
  /\ result \in {0, 1, -1}

Init ==
  /\ pc = "open" /\ c = 0 /\ r = "error" /\ uploaded_len = 0
  /\ \/ exists = FALSE /\ remote = <<>> /\ own = TRUE
     \/ exists = TRUE /\ remote \in Before /\ own = FALSE
  /\ bad = FALSE /\ result = 0

-----------------------------------------------------------------------------
(* fopen fails, because the local file is missing or for another reason:   *)
(* 0, which is no error to module_upload.                                  *)
Open ==
  /\ pc = "open"
  /\ pc' \in {"loop", "done"}
  /\ UNCHANGED <<c, r, uploaded_len, file, bad, result>>

(* for(c = 0; r != CURLE_OK && c < tries; c++)                             *)
OneTooMany == r # "ok" /\ c <= tries
Again == r # "ok" /\ c < tries

(* readfunc until libcurl has what it asks for.  It looks for an earlier   *)
(* read error and then reads: an error of that read shows at its next call *)
(* only, and one that brings no bytes is, to libcurl, the end of the file. *)
(* fseek does not clear it, so a later attempt is aborted at its start.    *)
ReadFails == ~bad /\ bad' = TRUE /\ r' \in {"ok", "error"}
ReadsOn(n, position) ==
  /\ UNCHANGED bad
  /\ \/ r' = "error" /\ (bad => n = position)
     \/ r' = "ok" /\ ~bad /\ n = Len(Local)

(* curl_easy_perform of an upload: what follows start, sent from the local *)
(* file's position on.                                                     *)
Transfer(start, position) ==
  \E n \in position..Len(Local) :
    /\ remote' = start \o SubSeq(Local, position + 1, n)
    /\ exists' = TRUE
    /\ ReadsOn(n, position) \/ ReadFails

(* The attempt fails before the server opens the file.                     *)
NotReached == r' = "error" /\ UNCHANGED <<file, bad>>

(* c = 0: CURLOPT_APPEND 0, the server starts an empty file.               *)
Store ==
  /\ pc = "loop" /\ Again /\ c = 0
  /\ \/ NotReached
     \/ Transfer(<<>>, 0) /\ own' = TRUE
  /\ c' = c + 1
  /\ UNCHANGED <<pc, uploaded_len, result>>

(* c > 0: NOBODY, so that libcurl sends SIZE only.  A failure continues    *)
(* with the next attempt.  For a file that is not there some versions give *)
(* an error and others no header, which leaves uploaded_len as it was.     *)
Size ==
  /\ pc = "loop" /\ Again /\ c > 0
  /\ \/ r' = "error" /\ c' = c + 1 /\ UNCHANGED <<pc, uploaded_len>>
     \/ /\ r' = "ok" /\ pc' = "append" /\ UNCHANGED c
        /\ uploaded_len' = IF exists THEN Len(remote) ELSE uploaded_len
  /\ UNCHANGED <<file, bad, result>>

(* fseek and CURLOPT_APPEND 1.  Behind the end of the local file there is  *)
(* nothing to send, and that succeeds.                                     *)
FromTheStart(n) == 0
Position(n) == IF n <= Len(Local) THEN n ELSE Len(Local)
AppendRest ==
  /\ pc = "append"
  /\ \/ NotReached
     \/ Transfer(remote, Position(uploaded_len)) /\ UNCHANGED own
  /\ c' = c + 1 /\ pc' = "loop"
  /\ UNCHANGED <<uploaded_len, result>>

Return ==
  /\ pc = "loop" /\ ~Again
  /\ pc' = "done" /\ result' = IF r = "ok" THEN 1 ELSE -1
  /\ UNCHANGED <<c, r, uploaded_len, file, bad>>

Next == Open \/ Store \/ Size \/ AppendRest \/ Return

Spec == Init /\ [][Next]_vars

-----------------------------------------------------------------------------
(* Properties                                                              *)

(* A return value of 1 means that the remote file is the local one, byte   *)
(* for byte, however the attempts before the last one failed.  Excepted is *)
(* what upload() reports as a success itself: a file cut by an error of    *)
(* reading the local one (bad; updown.c:29-31), and one appended to an     *)
(* older file, left under the name by a first attempt that failed before   *)
(* the server had opened it (not own).                                     *)
SentWhole == result = 1 /\ own /\ ~bad => remote = Local

(* What is on the server grows only, and is always the beginning of the    *)
(* local file: a reader never sees a repeated or a missing part.           *)
IsPrefix(s) == Len(s) <= Len(Local) /\ s = SubSeq(Local, 1, Len(s))
Prefix == own => IsPrefix(remote)

(* Why: the size just received is where the local file goes on, and an     *)
(* attempt is "ok" only with everything sent or after a read error.        *)
UploadInv ==
  /\ Prefix
  /\ ~exists => remote = <<>> /\ own /\ uploaded_len = 0
  /\ pc = "open" => c = 0
  /\ c = 0 => uploaded_len = 0 /\ r = "error" /\ (own => remote = <<>>)
  /\ pc = "append" => c < tries /\ c > 0
  /\ pc = "append" /\ own => uploaded_len = Len(remote)
  /\ pc \in {"loop", "done"} /\ r = "ok" /\ own /\ ~bad => remote = Local
  /\ pc # "done" => result = 0
  /\ result = 1 => r = "ok" /\ pc = "done"

(* Seen from the server the attempts are one transfer of the file: each    *)
(* adds to what the ones before it brought.  A file that is not this       *)
(* call's is no part of it, and a success after a read error is no report  *)
(* that the file is there.                                                 *)
Sending == INSTANCE FileTransfer WITH
  File <- Local,
  copy <- IF own THEN remote ELSE <<>>,
  reported <- (result = 1 /\ own /\ ~bad)
ImplementsTransfer == Sending!Spec
=============================================================================
