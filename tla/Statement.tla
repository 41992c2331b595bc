----------------------------- MODULE Statement -----------------------------
(***************************************************************************)
(* One call of sql_execute with its fetch handler.                         *)
(*                                                                         *)
(* The statement is made, prepared, bound, executed, fetched row by row    *)
(* and freed; each of these may fail.  The handler decides what is kept of *)
(* a row and whether the fetching goes on: 1 for the next row, 0 to stop,  *)
(* -1 to fail.  A row that is exported to a text file is one write of      *)
(* RowSize units, of which the file system takes what it has room for.     *)
(***************************************************************************)
EXTENDS Naturals, Integers, Sequences, FiniteSetsExt

CONSTANTS
  MaxRows,    \* bound: rows of a result, or rows a change touches
  MaxPlaces,  \* bound: placeholders in the text
  RowLimit,   \* the number of rows a list or page asks for
  AclLimit,   \* MAX_DATA_ACL_SIZE
  RowSize,    \* units of an exported row
  MaxSpace    \* bound: units left on the file system

VARIABLES
  pc,      \* new, prepare, bind, execute, fetch, end, free, done
  kind,    \* the handler; "change" is a statement that is no select
  given,   \* the values of the bind array, a value or NULL
  places,  \* oci_get_bind_count
  total,   \* the rows the statement has or touches
  stmt,    \* none, open, freed
  bound,   \* the values bound so far
  rownum,  \* rows fetched so far
  kept,    \* what the handler kept of each row: units
  space,   \* units left
  res, count, err,
  failed   \* history: the step that failed, or "no"

query == <<kind, given, places, total>>
vars == <<pc, kind, given, places, total, stmt, bound, rownum, kept, space, res, count, err, failed>>

Kinds == {"rows", "row", "acl", "export", "none", "change"}
Values == {"value", "NULL"}
SeqsUpTo(n) == UNION {[1..k -> Values] : k \in 0..n}

TypeOK ==
  /\ pc \in {"new", "prepare", "bind", "execute", "fetch", "end", "free", "done"}
  /\ kind \in Kinds
  /\ given \in SeqsUpTo(MaxPlaces) /\ places \in 0..MaxPlaces /\ total \in 0..MaxRows
  /\ stmt \in {"none", "open", "freed"}
  /\ bound \in Seq({"value", "empty"}) /\ Len(bound) <= places
  /\ rownum \in 0..total
  /\ kept \in Seq(1..RowSize) /\ Len(kept) <= rownum
  /\ space \in 0..MaxSpace
  /\ res \in BOOLEAN /\ count \in -1..MaxRows /\ err \in BOOLEAN
  /\ failed \in {"no", "new", "prepare", "execute", "handler", "fetch"}

Init ==
  /\ kind \in Kinds
  /\ given \in SeqsUpTo(MaxPlaces) /\ places \in 0..MaxPlaces /\ total \in 0..MaxRows
  /\ space \in 0..MaxSpace
  /\ pc = "new" /\ stmt = "none"
  /\ bound = <<>> /\ rownum = 0 /\ kept = <<>>
  /\ res = FALSE /\ count = -1 /\ err = FALSE /\ failed = "no"

-----------------------------------------------------------------------------
(* Without a statement there is nothing to free.                           *)
New ==
  /\ pc = "new"
  /\ stmt' = "open" /\ pc' = "prepare"
  /\ UNCHANGED <<query, bound, rownum, kept, space, res, count, err, failed>>

NewFails ==
  /\ pc = "new"
  /\ pc' = "done" /\ err' = TRUE /\ failed' = "new"
  /\ UNCHANGED <<query, stmt, bound, rownum, kept, space, res, count>>

Prepare ==
  /\ pc = "prepare"
  /\ pc' = "bind"
  /\ UNCHANGED <<query, stmt, bound, rownum, kept, space, res, count, err, failed>>

(* oci_prepare, or oci_execute after the values are bound.                 *)
StepFails(step) ==
  /\ pc = step
  /\ pc' = "free" /\ err' = TRUE /\ failed' = step
  /\ UNCHANGED <<query, stmt, bound, rownum, kept, space, res, count>>

(* A placeholder without a value, or with NULL, gets the empty string.     *)
FirstTwice(i) == IF i > Len(given) \/ given[Max({1, i - 1})] = "NULL" THEN "empty" ELSE "value"
ValueAt(i) == IF i > Len(given) \/ given[i] = "NULL" THEN "empty" ELSE "value"
OneTooMany == Len(bound) <= places
MorePlaces == Len(bound) < places
BindOne ==
  /\ pc = "bind" /\ MorePlaces
  /\ bound' = Append(bound, ValueAt(Len(bound) + 1))
  /\ UNCHANGED <<pc, query, stmt, rownum, kept, space, res, count, err, failed>>

Bound ==
  /\ pc = "bind" /\ ~MorePlaces
  /\ pc' = "execute"
  /\ UNCHANGED <<query, stmt, bound, rownum, kept, space, res, count, err, failed>>

Execute ==
  /\ pc = "execute"
  /\ res' = TRUE
  /\ pc' = IF kind = "change" THEN "free" ELSE "fetch"
  /\ UNCHANGED <<query, stmt, bound, rownum, kept, space, count, err, failed>>

-----------------------------------------------------------------------------
(* A list ends behind its limit, and so does the table of access rows.     *)
OneBehindLimit(n) == \/ kind = "rows" /\ n > RowLimit + 1
                     \/ kind = "acl" /\ n > AclLimit + 1
BehindLimit(n) == \/ kind = "rows" /\ n > RowLimit
                  \/ kind = "acl" /\ n > AclLimit

(* What the handler returns for row n, and how much of the row it keeps.   *)
WriteIgnored(n) == CASE kind = "row" \/ (kind = "rows" /\ BehindLimit(n)) -> 0
                     [] kind = "acl" /\ BehindLimit(n) -> -1
                     [] OTHER -> 1
Handler(n) ==
  CASE kind = "row" \/ (kind = "rows" /\ BehindLimit(n)) -> 0
    [] \/ kind = "acl" /\ BehindLimit(n)
       \/ kind = "export" /\ space = 0 -> -1
    [] OTHER -> 1

Keeps(n) ==
  CASE kind = "export" -> Min({space, RowSize})
    [] kind = "none" \/ BehindLimit(n) -> 0
    [] OTHER -> RowSize

Stops(n) == Handler(n) # 1
Fetch ==
  LET n == rownum + 1
  IN  /\ pc = "fetch" /\ rownum < total
      /\ rownum' = n
      /\ kept' = IF Keeps(n) > 0 THEN Append(kept, Keeps(n)) ELSE kept
      /\ space' = IF kind = "export" THEN space - Keeps(n) ELSE space
      /\ res' = (Handler(n) >= 0)
      /\ failed' = IF Handler(n) < 0 THEN "handler" ELSE failed
      /\ pc' = IF Stops(n) THEN "free" ELSE pc
      /\ UNCHANGED <<query, stmt, bound, count, err>>

(* oci_fetch_next is false at the end of the rows and on an error alike:   *)
(* the error code after the loop tells them apart.                         *)
FetchEnds ==
  /\ pc = "fetch" /\ rownum = total
  /\ pc' = "end"
  /\ UNCHANGED <<query, stmt, bound, rownum, kept, space, res, count, err, failed>>

FetchBreaks ==
  /\ pc = "fetch"
  /\ failed' = "fetch" /\ pc' = "end"
  /\ UNCHANGED <<query, stmt, bound, rownum, kept, space, res, count, err>>

EndTrusted(bad) == TRUE
AfterError(bad) == ~bad
LastError ==
  LET bad == failed = "fetch"
  IN  /\ pc = "end"
      /\ res' = AfterError(bad) /\ err' = bad
      /\ pc' = "free"
      /\ UNCHANGED <<query, stmt, bound, rownum, kept, space, count, failed>>

RowCount == IF kind = "change" THEN total ELSE rownum
Counts == RowCount
Result == IF res THEN RowCount ELSE -1
FreeStatement ==
  /\ pc = "free"
  /\ count' = Result
  /\ stmt' = "freed" /\ pc' = "done"
  /\ UNCHANGED <<query, bound, rownum, kept, space, res, err, failed>>

(* sql_execute has returned.                                               *)
Done == pc = "done" /\ UNCHANGED vars

Next == \/ New \/ NewFails \/ Prepare \/ StepFails("prepare") \/ BindOne \/ Bound
        \/ Execute \/ StepFails("execute") \/ Fetch \/ FetchEnds \/ FetchBreaks
        \/ LastError \/ FreeStatement \/ Done

Spec == Init /\ [][Next]_vars

-----------------------------------------------------------------------------
(* Properties                                                              *)

(* The result tells the truth: -1 with the statement freed exactly when a  *)
(* step, the handler or the fetching failed; an error text is left for the *)
(* database's errors and for no other outcome.                             *)
ResultTells ==
  pc = "done" => /\ count = -1 <=> failed # "no"
                 /\ err <=> failed \notin {"no", "handler"}
                 /\ stmt = IF failed = "new" THEN "none" ELSE "freed"

(* A result that is not -1 stands for every row: rows that an error cut    *)
(* off are never taken for the end of the result, and only a handler with  *)
(* a limit leaves rows out, those behind its limit.  A file system that is *)
(* full cuts at most the last row of an export that counts as successful.  *)
Wanted(n) ==
  CASE kind = "rows" -> Min({n, RowLimit})
    [] kind = "row"  -> Min({n, 1})
    [] kind \in {"acl", "export"} -> n
    [] OTHER -> 0
NothingMissing ==
  pc = "done" /\ count >= 0 => /\ Len(kept) = Wanted(total)
                               /\ \A i \in 1..Len(kept) - 1 : kept[i] = RowSize

(* No handler keeps a row behind its limit, in the middle of a call        *)
(* either: the access rows have an array of that size.                     *)
WithinLimit ==
  /\ kind = "acl" => Len(kept) <= AclLimit
  /\ kind = "rows" => Len(kept) <= RowLimit

(* Every placeholder has a value when the statement is executed, its own   *)
(* one where the bind array has one.                                       *)
AllBound ==
  rownum > 0 \/ res =>
    /\ Len(bound) = places
    /\ \A i \in 1..places : bound[i] = "value" <=> i \in DOMAIN given /\ given[i] = "value"

-----------------------------------------------------------------------------
(* Why                                                                     *)

(* The places bound so far have their values, all of them from the         *)
(* execution on.                                                           *)
BoundSoFar ==
  /\ \A i \in 1..Len(bound) : bound[i] = ValueAt(i)
  /\ pc \in {"execute", "fetch", "end"} \/ res \/ rownum > 0 => Len(bound) = places

(* Until the handler fails, what is kept is what is wanted of the rows     *)
(* fetched so far; when the fetching is over, of all of them.  A row that  *)
(* is kept in part has used up the file system.                            *)
KeptSoFar ==
  /\ failed # "handler" => Len(kept) = Wanted(rownum)
  /\ pc \in {"free", "done"} /\ failed = "no" => Wanted(rownum) = Wanted(total)
  /\ pc = "end" /\ failed = "no" => rownum = total
  /\ pc = "fetch" => ~BehindLimit(rownum) /\ (kind = "row" => rownum = 0)
  /\ \A i \in 1..Len(kept) :
        kept[i] = RowSize \/ (kind = "export" /\ i = Len(kept) /\ space = 0)
  /\ WithinLimit

(* What each step finds.                                                   *)
Progress ==
  /\ stmt = IF pc = "new" \/ failed = "new" THEN "none"
            ELSE IF pc = "done" THEN "freed" ELSE "open"
  /\ pc \in {"new", "prepare", "bind", "execute"} => ~res /\ failed = "no" /\ rownum = 0
  /\ pc \in {"new", "prepare", "bind", "execute", "fetch", "end"} => ~err
  /\ failed \in {"new", "prepare", "execute"} \/ kind = "change" => rownum = 0
  /\ pc \in {"fetch", "end"} => kind # "change" /\ res
  /\ pc = "fetch" => failed = "no"
  /\ pc = "end" => failed \in {"no", "fetch"}
  /\ failed = "new" => pc = "done"
  /\ pc \in {"free", "done"} => (res <=> failed = "no")
  /\ pc \in {"free", "done"} => (err <=> failed \notin {"no", "handler"})
  /\ count = IF pc = "done" THEN Result ELSE -1

StatementInv == TypeOK /\ Progress /\ BoundSoFar /\ KeptSoFar
=============================================================================
