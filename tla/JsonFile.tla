------------------------------ MODULE JsonFile ------------------------------
(***************************************************************************)
(* Saving an object to a file and loading it: json_util_object_to_file and *)
(* json_util_object_from_file.                                             *)
(*                                                                         *)
(* A process saves and loads one file, in any order, and may be killed in  *)
(* the middle.  A file is a sequence of units, unit k of a version's text  *)
(* being <<v, k>>.  The parser finds no object in a text that breaks off;  *)
(* what it makes of parts of two texts, or of a text that lacks some of    *)
(* its middle, nobody knows.  Neither function has a caller in this        *)
(* program.                                                                *)
(***************************************************************************)
EXTENDS Naturals, Integers, Sequences, SequencesExt

CONSTANTS
  Versions,   \* the objects that are saved
  Length,     \* [Versions -> Nat \ {0}], the length of an object's text
  BlockSize,  \* JSON_EXT_FILE_BUF_SIZE
  MaxFile     \* JSON_EXT_MAX_FILE_SIZE, the most a buffer takes

NULL == "NULL"
NoResult == 1
Text(v) == [k \in 1..Length[v] |-> <<v, k>>]
Units == UNION {{<<v, k>> : k \in 1..Length[v]} : v \in Versions}

VARIABLES
  file,   \* its units
  pc,     \* idle, saving: convert, write, close; loading: read, parse
  obj,    \* the object being saved
  fd,     \* a file descriptor is open
  mem,    \* buffers held
  pos,    \* wpos, or how far the file has been read
  got,    \* the read buffer
  rc,     \* to_file's result, or NoResult
  loaded  \* from_file's result: a version, NULL, "mixed", or "none"

vars == <<file, pc, obj, fd, mem, pos, got, rc, loaded>>

TypeOK ==
  /\ file \in Seq(Units) /\ got \in Seq(Units) /\ Len(got) <= MaxFile
  /\ pc \in {"idle", "convert", "write", "close", "read", "parse"}
  /\ obj \in Versions \cup {NULL}
  /\ fd \in BOOLEAN /\ mem \in 0..2
  /\ pos \in Nat
  /\ rc \in {NoResult, 0, -1}
  /\ loaded \in Versions \cup {NULL, "mixed", "none"}

Init ==
  /\ file = <<>> /\ pc = "idle" /\ obj = NULL
  /\ fd = FALSE /\ mem = 0 /\ pos = 0 /\ got = <<>>
  /\ rc = NoResult /\ loaded = "none"

-----------------------------------------------------------------------------
(* json_util_object_to_file                                                *)

(* No object, or a file that cannot be opened.                             *)
SaveRefused ==
  /\ pc = "idle"
  /\ rc' = -1
  /\ UNCHANGED <<file, pc, obj, fd, mem, pos, got, loaded>>

(* Opening cuts the file to nothing.                                       *)
NotTruncated(old) == old
Truncated(old) == <<>>
SaveOpen ==
  /\ pc = "idle"
  /\ \E v \in Versions : obj' = v /\ file' = Truncated(file)
  /\ fd' = TRUE /\ pos' = 0 /\ pc' = "convert"
  /\ UNCHANGED <<mem, got, rc, loaded>>

(* The object has no text.                                                 *)
NoText ==
  /\ pc = "convert"
  /\ fd' = FALSE /\ rc' = -1 /\ pc' = "idle"
  /\ UNCHANGED <<file, obj, mem, pos, got, loaded>>

(* The text in the other code, or no memory for it, or no such code.       *)
Convert ==
  /\ pc = "convert"
  /\ \E r \in {0, -1}, m \in {0, 1} :
        /\ r = 0 => m = 1
        /\ rc' = r /\ mem' = m /\ pc' = IF r = 0 THEN "write" ELSE "close"
  /\ UNCHANGED <<file, obj, fd, pos, got, loaded>>

(* One write takes any part of what is left, none of it too.               *)
NotAdvanced(n) == pos
WholeAtOnce(n) == Length[obj]
Advance(n) == pos + n
Write ==
  /\ pc = "write" /\ pos < Length[obj]
  /\ \E n \in 0..Length[obj] - pos :
        /\ file' = SubSeq(file, 1, pos) \o SubSeq(Text(obj), pos + 1, pos + n)
                    \o SubSeq(file, pos + n + 1, Len(file))
        /\ pos' = Advance(n)
  /\ UNCHANGED <<pc, obj, fd, mem, got, rc, loaded>>

ErrorIgnored == rc
WriteError == -1
WriteFails ==
  /\ pc = "write" /\ pos < Length[obj]
  /\ rc' = WriteError /\ pc' = "close"
  /\ UNCHANGED <<file, obj, fd, mem, pos, got, loaded>>

Written ==
  /\ pc = "write" /\ pos >= Length[obj]
  /\ pc' = "close"
  /\ UNCHANGED <<file, obj, fd, mem, pos, got, rc, loaded>>

Close ==
  /\ pc = "close"
  /\ mem' = 0 /\ fd' = FALSE /\ pc' = "idle"
  /\ UNCHANGED <<file, obj, pos, got, rc, loaded>>

-----------------------------------------------------------------------------
(* json_util_object_from_file                                              *)

(* A file that cannot be opened, or no buffer: the file is closed again.   *)
LoadRefused ==
  /\ pc = "idle"
  /\ loaded' = NULL
  /\ UNCHANGED <<file, pc, obj, fd, mem, pos, got, rc>>

LoadOpen ==
  /\ pc = "idle"
  /\ fd' = TRUE /\ mem' = 1 /\ pos' = 0 /\ got' = <<>> /\ pc' = "read"
  /\ UNCHANGED <<file, obj, rc, loaded>>

(* A block the buffer cannot take is left out, and nobody looks.           *)
Full(n) == Len(got) + n > MaxFile
Read ==
  /\ pc = "read" /\ pos < Len(file)
  /\ \E n \in 1..BlockSize :
        /\ pos + n <= Len(file)
        /\ pos' = pos + n
        /\ got' = IF Full(n) THEN got ELSE got \o SubSeq(file, pos + 1, pos + n)
  /\ UNCHANGED <<file, pc, obj, fd, mem, rc, loaded>>

BufferKept == mem
BufferFreed == 0
ReadFails ==
  /\ pc = "read"
  /\ fd' = FALSE /\ mem' = BufferFreed /\ loaded' = NULL /\ pc' = "idle"
  /\ UNCHANGED <<file, obj, pos, got, rc>>

ReadAll ==
  /\ pc = "read" /\ pos = Len(file)
  /\ fd' = FALSE /\ mem' = 2 /\ pc' = "parse"
  /\ UNCHANGED <<file, obj, pos, got, rc, loaded>>

(* No memory, no conversion, or the parser's result: it stops behind the   *)
(* first object it finds.                                                  *)
Parsed ==
  {v \in Versions : IsPrefix(Text(v), got)} \cup {NULL} \cup
  IF \E v \in Versions : IsPrefix(Text(v), got) \/ IsPrefix(got, Text(v)) THEN {} ELSE {"mixed"}
Parse ==
  /\ pc = "parse"
  /\ loaded' \in Parsed
  /\ mem' = 0 /\ pc' = "idle"
  /\ UNCHANGED <<file, obj, fd, pos, got, rc>>

(* The process is killed, and started again.                               *)
Crash ==
  /\ pc # "idle"
  /\ pc' = "idle" /\ obj' = NULL /\ fd' = FALSE /\ mem' = 0 /\ pos' = 0 /\ got' = <<>>
  /\ rc' = NoResult /\ loaded' = "none"
  /\ UNCHANGED file

Next == \/ SaveRefused \/ SaveOpen \/ NoText \/ Convert \/ Write \/ WriteFails \/ Written
        \/ Close \/ LoadRefused \/ LoadOpen \/ Read \/ ReadFails \/ ReadAll \/ Parse \/ Crash

Spec == Init /\ [][Next]_vars

(* A write that takes nothing is possible, one after the other without end *)
(* is not: the file system takes some of a regular file's text or fails.   *)
Fairness ==
  /\ WF_vars(Convert) /\ WF_vars(Written) /\ WF_vars(Close)
  /\ WF_vars(ReadAll) /\ WF_vars(Parse)
  /\ WF_vars(Write /\ pos' > pos) /\ WF_vars(Read)
FairSpec == Spec /\ Fairness

-----------------------------------------------------------------------------
(* Properties                                                              *)

(* to_file returns 0 only when the file is the whole text of the object it *)
(* was called for, in however many pieces it was written.                  *)
SavedIsWhole == pc = "idle" /\ rc = 0 => file = Text(obj)

(* What is loaded from a file that fits the buffer is one of the objects   *)
(* saved, whole and in the file as it stands, although a saving may have   *)
(* failed or been killed after any unit: never parts of two.               *)
LoadedIsWhole ==
  [][loaded' # loaded /\ loaded' \in Versions \cup {"mixed"} /\ Len(file) <= MaxFile =>
       loaded' \in Versions /\ file = Text(loaded')]_vars

(* Each way out of the two functions closes the file and frees the buffers.*)
NothingHeld == pc = "idle" => ~fd /\ mem = 0

(* Both functions return.                                                  *)
Returns == []<>(pc = "idle")

-----------------------------------------------------------------------------
(* Why                                                                     *)

(* Whatever was cut off or killed, the file is a beginning of one text.    *)
Beginning(v, n) == SubSeq(Text(v), 1, n)
OneText == \E v \in Versions : \E n \in 0..Length[v] : file = Beginning(v, n)

(* A saving has written its text so far, and a 0 stands for the whole.     *)
Saving ==
  /\ pc \in {"convert", "write", "close"} => obj \in Versions
  /\ pc = "convert" => file = <<>> /\ pos = 0
  /\ pc = "write" => rc = 0 /\ pos <= Length[obj] /\ file = Beginning(obj, pos)
  /\ pc \notin {"convert", "write"} /\ rc = 0 => obj \in Versions /\ file = Text(obj)

(* A loading has read the file so far, when the file fits the buffer.      *)
Loading ==
  Len(file) <= MaxFile =>
    /\ pc = "read" => pos <= Len(file) /\ got = SubSeq(file, 1, pos)
    /\ pc = "parse" => got = file

(* What each step holds.                                                   *)
Held ==
  /\ pc \in {"idle", "parse"} => ~fd
  /\ pc \in {"idle", "convert"} => mem = 0

FileInv == TypeOK /\ OneText /\ Saving /\ Loading /\ Held
=============================================================================
