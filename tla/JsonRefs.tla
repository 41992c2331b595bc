------------------------------ MODULE JsonRefs ------------------------------
(***************************************************************************)
(* Who owns the json objects of a cycle.                                   *)
(*                                                                         *)
(* process() makes one request and one response for all jobs of a cycle;   *)
(* the modules add members to them, share members between them and wrap    *)
(* rows, and at the end of the cycle both are put.  An object is freed by  *)
(* the put that takes its count to zero, and what it holds is put then.    *)
(* The heap maps the objects there are, and NULL, to what they are.        *)
(* json-c is prebuilt, so its part is what its headers promise.  Adding to *)
(* something that is no object, or no array, spoils the null object: the   *)
(* library looks for a table there that does not exist.                    *)
(***************************************************************************)
EXTENDS Integers, Sequences, FiniteSets

CONSTANTS
  MaxFetched,  \* bound: rows a select returns
  MaxWork,     \* bound: jobs and steps of a cycle
  Steps,       \* the rows of fun_config, with their parameters
  Schema       \* what the steps agree on: request, response, and each kind of
               \* object in them, with its type, depth and the kinds of its parts

VARIABLES
  heap,               \* an object or NULL -> [type, refs, kids]
  pc,                 \* idle, load, next, steps, failed, handler
  request, response,  \* process()'s two objects, NULL outside a cycle
  work,               \* jobs and steps of this cycle so far
  abandoned           \* history: a cycle ended because load_generate_file failed

vars == <<heap, pc, request, response, work, abandoned>>

NULL == 0
Nothing == <<>>   \* the function without arguments: no members, no rows
Null == [type |-> "null", refs |-> 0, kids |-> Nothing]
Objects(h) == DOMAIN h \ {NULL}

TypeOK ==
  /\ heap[NULL].type \in {"null", "spoilt"}
  /\ \A o \in Objects(heap) :
       /\ o \in Nat
       /\ heap[o].type \in {"object", "array", "string"} /\ heap[o].refs \in Nat \ {0}
       /\ heap[o].type = "array" => DOMAIN heap[o].kids = 1..Len(heap[o].kids)
       /\ heap[o].type = "string" => heap[o].kids = Nothing
  /\ pc \in {"idle", "load", "next", "steps", "failed", "handler"}
  /\ work \in 0..MaxWork /\ abandoned \in BOOLEAN

-----------------------------------------------------------------------------
(* json-c                                                                  *)

(* A number that no object has, and a new object, owned by who made it.    *)
NewId(h) == CHOOSE o \in 1..Cardinality(DOMAIN h) : o \notin DOMAIN h
New(h, type) ==
  [o \in DOMAIN h \cup {NewId(h)} |->
     IF o = NewId(h) THEN [type |-> type, refs |-> 1, kids |-> Nothing] ELSE h[o]]

Is(h, o, type) == o \in Objects(h) /\ h[o].type = type

(* json_object_get: one more owner.                                        *)
Get(h, o) == IF o \in Objects(h) THEN [h EXCEPT ![o].refs = @ + 1] ELSE h

(* The entries of the objects in D, what one holds, and those that hold o. *)
Entries(h, D) == UNION {{p} \X DOMAIN h[p].kids : p \in D}
Held(h, e) == h[e[1]].kids[e[2]]
Holding(h, D, o) == {e \in Entries(h, D) : Held(h, e) = o}

(* json_object_put of o: one owner less.  When the objects in D are freed, *)
(* what they hold is put too, as often as they hold it.                    *)
Puts(h, o, D, p) == Cardinality(Holding(h, D, p)) + IF p = o THEN 1 ELSE 0
Dying(h, o, D) ==
  {p \in ({o} \cup {Held(h, e) : e \in Entries(h, D)}) \cap Objects(h) :
     h[p].refs <= Puts(h, o, D, p)}
Freed(h, o) ==
  LET gone[i \in 0..Cardinality(DOMAIN h)] ==
        IF i = 0 THEN {} ELSE Dying(h, o, gone[i - 1])
  IN  gone[Cardinality(DOMAIN h)]
PutFreeing(h, o, D) ==
  [p \in DOMAIN h \ D |->
     IF p = NULL THEN h[p] ELSE [h[p] EXCEPT !.refs = @ - Puts(h, o, D, p)]]
Put(h, o) == PutFreeing(h, o, Freed(h, o))

Spoil(h) == [h EXCEPT ![NULL].type = "spoilt"]

(* json_object_object_get_ex, which looks at the type first.               *)
Has(h, o, key) == Is(h, o, "object") /\ key \in DOMAIN h[o].kids
Member(h, o, key) == IF Has(h, o, key) THEN h[o].kids[key] ELSE NULL

(* The value's ownership goes to the object; the one it replaces is put.   *)
WithMember(h, o, key, v) ==
  [h EXCEPT ![o].kids = [k \in DOMAIN @ \cup {key} |-> IF k = key THEN v ELSE @[k]]]
KeepsOld(h, o, key, v) ==
  IF Is(h, o, "object") THEN WithMember(h, o, key, v) ELSE Spoil(h)
ObjectAdd(h, o, key, v) ==
  IF Is(h, o, "object") THEN WithMember(Put(h, Member(h, o, key)), o, key, v) ELSE Spoil(h)

ArrayAdd(h, a, v) ==
  IF Is(h, a, "array") THEN [h EXCEPT ![a].kids = Append(@, v)] ELSE Spoil(h)

AddString(h, o, key) ==
  IF Is(h, o, "object") THEN ObjectAdd(New(h, "string"), o, key, NewId(h)) ELSE Spoil(h)

-----------------------------------------------------------------------------
(* What a call leaves: the heap, and whether it returned 0.                *)

Result(h, ok) == [heap |-> h, ok |-> ok]
Passed(h) == {Result(h, TRUE)}
Failed(h) == {Result(h, FALSE)}

(* The fetch handlers: a row's columns as members of o, a new row, or a    *)
(* new string, at the end of o.                                            *)
AddRow(h, handler, o) ==
  CASE handler = "row"    -> AddString(h, o, "col")
    [] handler = "rows"   -> ArrayAdd(AddString(New(h, "object"), NewId(h), "col"), o, NewId(h))
    [] handler = "column" -> ArrayAdd(New(h, "string"), o, NewId(h))

(* A select ends after any number of rows, with or without an error: what  *)
(* a fetch handler has added by then stays.                                *)
Fetched(h, n, handler, o) ==
  LET after[i \in 0..n] == IF i = 0 THEN h ELSE AddRow(after[i - 1], handler, o)
  IN  {Result(after[i], ok) : i \in 0..n, ok \in BOOLEAN}

FetchRow(h, o) == Fetched(h, 1, "row", o)
FetchRows(h, o) == Fetched(h, MaxFetched, "rows", o)
FetchColumn(h, o) == Fetched(h, MaxFetched, "column", o)

-----------------------------------------------------------------------------
(* The modules.  h is the heap, in the step's input, s the step; where the *)
(* key is "request" the source means that input, here s.to = "request".    *)

(* The row's columns become members of the input, or of one member of the  *)
(* response that is made when it is missing.                               *)
SelectOne(h, in, s) ==
  LET found == Member(h, response, s.key)
      made == ObjectAdd(New(h, "object"), response, s.key, NewId(h))
  IN  CASE s.to = "request" -> FetchRow(h, in)
        [] s.to # "request" /\ found # NULL -> FetchRow(h, found)
        [] OTHER -> FetchRow(made, NewId(h))

(* A list is always a new array, in the place of an older one.             *)
NewArray(h, o, s) == ObjectAdd(New(h, "array"), o, s.key, NewId(h))
Target(in, s) == IF s.to = "request" THEN in ELSE response
SelectList(h, in, s) == FetchRows(NewArray(h, Target(in, s), s), NewId(h))
SelectColumnList(h, in, s) == FetchColumn(NewArray(h, Target(in, s), s), NewId(h))

(* A page goes to the array that is there, the total into the response.    *)
SelectPage(h, s) ==
  LET found == Member(h, response, s.key)
      rows == IF found # NULL THEN found ELSE NewId(h)
      ready == IF found # NULL THEN h ELSE NewArray(h, response, s)
  IN  Failed(ready) \cup Passed(ready) \cup FetchRows(AddString(ready, response, "total"), rows)

(* The key of an insert is selected into the input first.                  *)
Insert(h, in, s) == FetchRow(h, in)

(* An output parameter becomes a member of the input.                      *)
CallProc(h, in, s) == Failed(h) \cup Passed(AddString(h, in, s.key))

(* A row that is no object is wrapped in one for the call.  The wrapper's  *)
(* put must not free the row, which the array still holds.                 *)
Unshared(h, row) == h
Keep(h, row) == Get(h, row)
Unwrapped(h, row, s) == CallProc(h, row, s)
CallProcRow(h, row, s) ==
  LET temp == NewId(h)
      wrapped == Keep(ObjectAdd(New(h, "object"), temp, s.input, row), row)
  IN  IF Is(h, row, "object") THEN CallProc(h, row, s)
      ELSE {Result(Put(g.heap, temp), g.ok) : g \in CallProc(wrapped, temp, s)}

(* Each row gets the member, which gets its owner only after that.         *)
CopyRow(h, row, s, shared) ==
  IF Is(h, row, "object")
  THEN Passed(Keep(ObjectAdd(h, row, s.newkey, shared), shared))
  ELSE Failed(h)

(* One call for every row of an array, up to the first that fails; a false *)
(* test makes a module return 0 at once.                                   *)
EachRow(h, row, s, shared) ==
  CASE s.module = "batch_copy"               -> CopyRow(h, row, s, shared)
    [] s.module = "batch_select_one"         -> Passed(h) \cup SelectOne(h, row, s)
    [] s.module = "batch_select_list"        -> Passed(h) \cup SelectList(h, row, s)
    [] s.module = "batch_select_column_list" -> Passed(h) \cup SelectColumnList(h, row, s)
    [] s.module = "batch_insert"             -> Passed(h) \cup Insert(h, row, s)
    [] s.module = "batch_callproc"           -> Passed(h) \cup CallProcRow(h, row, s)
Batch(h, array, s, shared) ==
  LET rows == h[array].kids
      after[i \in 0..Len(rows)] ==
        IF i = 0 THEN Passed(h)
        ELSE UNION {IF g.ok THEN EachRow(g.heap, rows[i], s, shared) ELSE {g} : g \in after[i - 1]}
  IN  IF Is(h, array, "array") THEN after[Len(rows)] ELSE Failed(h)

(* "request", "response.data": the input, the response, or a member.       *)
Root(in, path) == IF path[1] = "request" THEN in ELSE response
At(h, in, path) ==
  IF Len(path) = 1 THEN Root(in, path) ELSE Member(h, Root(in, path), path[2])
CopyAdd(h, in, path) ==
  IF Len(path) = 1 \/ At(h, in, path) # NULL THEN h
  ELSE ObjectAdd(New(h, "object"), Root(in, path), path[2], NewId(h))

(* A copy shares the member, which gets one more owner first.              *)
Copy(h, in, s) ==
  LET g == CopyAdd(h, in, s.to)
      shared == Member(g, At(h, in, s.from), s.key)
      to == At(g, in, s.to)
  IN  IF At(h, in, s.from) = NULL \/ ~Is(g, to, "object") THEN Failed(g)
      ELSE Passed(ObjectAdd(Get(g, shared), to, s.newkey, shared))
BatchCopy(h, in, s) ==
  LET from == At(h, in, s.from)
  IN  IF from = NULL THEN Failed(h)
      ELSE Batch(h, At(h, in, s.to), s, Member(h, from, s.key))

Add(h, in, s) == Passed(AddString(h, in, s.key))

(* module_del puts the member and leaves it where it is.                   *)
Del(h, in, s) == Passed(Put(h, Member(h, in, s.key)))

Batches == {"batch_select_one", "batch_select_list", "batch_select_column_list",
            "batch_insert", "batch_callproc"}

(* A false test skips the step, whose result is undefined then, or what    *)
(* the module does; the other modules leave the objects alone.             *)
Input(s) == IF s.input = "" THEN request ELSE Member(heap, request, s.input)
Executed(s) ==
  Passed(heap) \cup Failed(heap) \cup
  CASE s.module = "select_one"  -> SelectOne(heap, Input(s), s)
    [] s.module = "select_list" -> SelectList(heap, Input(s), s)
    [] s.module = "select_page" -> SelectPage(heap, s)
    [] s.module = "insert"      -> Insert(heap, Input(s), s)
    [] s.module = "callproc"    -> CallProc(heap, Input(s), s)
    [] s.module \in Batches     -> Batch(heap, Input(s), s, NULL)
    [] s.module = "copy"        -> Copy(heap, Input(s), s)
    [] s.module = "batch_copy"  -> BatchCopy(heap, Input(s), s)
    [] s.module = "add"         -> Add(heap, Input(s), s)
    [] s.module = "del"         -> Del(heap, Input(s), s)
    [] OTHER                    -> {}

-----------------------------------------------------------------------------
(* The cycle                                                               *)

EmptyHeap == [o \in {NULL} |-> Null]

Init ==
  /\ heap = EmptyHeap
  /\ pc = "idle"
  /\ request = NULL /\ response = NULL
  /\ work = 0 /\ abandoned = FALSE

BeginCycle ==
  /\ pc = "idle" /\ ~abandoned
  /\ heap' = New(New(heap, "object"), "object")
  /\ request' = NewId(heap)
  /\ response' = NewId(New(heap, "object"))
  /\ pc' = "load" /\ work' = 0
  /\ UNCHANGED abandoned

(* The job list cannot be read: -1 is returned, the locals are gone.       *)
LoadFails ==
  /\ pc = "load"
  /\ request' = NULL /\ response' = NULL
  /\ pc' = "idle" /\ abandoned' = TRUE
  /\ UNCHANGED <<heap, work>>

Loaded ==
  /\ pc = "load"
  /\ pc' = "next"
  /\ UNCHANGED <<heap, request, response, work, abandoned>>

NextJob ==
  /\ pc = "next" /\ work < MaxWork
  /\ heap' = AddString(AddString(heap, request, "settle_date"), request, "id")
  /\ pc' = "steps" /\ work' = work + 1
  /\ UNCHANGED <<request, response, abandoned>>

(* A main step or a handler step.                                          *)
RunStep ==
  /\ pc \in {"steps", "handler"} /\ work < MaxWork
  /\ \E s \in Steps : \E g \in Executed(s) :
        heap' = g.heap /\ pc' = IF g.ok THEN pc ELSE IF pc = "steps" THEN "failed" ELSE "next"
  /\ work' = work + 1
  /\ UNCHANGED <<request, response, abandoned>>

(* "success" is set between the two loops.                                 *)
MainDone ==
  /\ pc \in {"steps", "failed"}
  /\ heap' = AddString(heap, request, "success")
  /\ pc' = "handler"
  /\ UNCHANGED <<request, response, work, abandoned>>

JobDone ==
  /\ pc = "handler"
  /\ pc' = "next"
  /\ UNCHANGED <<heap, request, response, work, abandoned>>

ResponseKept == Put(heap, request)
Released == Put(Put(heap, request), response)
EndCycle ==
  /\ pc = "next"
  /\ heap' = Released
  /\ request' = NULL /\ response' = NULL
  /\ pc' = "idle"
  /\ UNCHANGED <<work, abandoned>>

(* stop.sh and start.sh.  Bound: after one abandoned cycle, whose objects  *)
(* would stay for good.                                                    *)
Restart ==
  /\ abandoned
  /\ heap' = EmptyHeap /\ abandoned' = FALSE
  /\ UNCHANGED <<pc, request, response, work>>

Next == \/ Restart \/ BeginCycle \/ LoadFails \/ Loaded \/ NextJob
        \/ RunStep \/ MainDone \/ JobDone \/ EndCycle

Spec == Init /\ [][Next]_vars

-----------------------------------------------------------------------------
(* What the steps agree on                                                 *)

Type(K) == Schema[K].type
Parts(K) == Schema[K].parts
HasPart(K, key, type) ==
  Type(K) = "object" /\ key \in DOMAIN Parts(K) /\ Type(Parts(K)[key]) = type
(* The kind of an array's rows.                                            *)
Each(K) == Parts(K)["each"]
IsRow(K) == HasPart(K, "col", "string")
HasRows(K, key) == HasPart(K, key, "array") /\ IsRow(Each(Parts(K)[key]))
HasColumn(K, key) == HasPart(K, key, "array") /\ Type(Each(Parts(K)[key])) = "string"

(* Parts lie deeper than what they are parts of, so that nothing holds     *)
(* itself, and nothing holds the two roots.                                *)
KindsInOrder ==
  /\ {"request", "response"} \subseteq DOMAIN Schema
  /\ Type("request") = "object" /\ Type("response") = "object"
  /\ \A key \in {"settle_date", "id", "success"} : HasPart("request", key, "string")
  /\ \A K \in DOMAIN Schema :
       /\ Type(K) \in {"object", "array", "string"} /\ Schema[K].depth \in Nat
       /\ Type(K) = "array" => "each" \in DOMAIN Parts(K)
       /\ \A key \in DOMAIN Parts(K) :
            /\ Parts(K)[key] \in DOMAIN Schema \ {"request", "response"}
            /\ Schema[Parts(K)[key]].depth > Schema[K].depth

(* A module finds and leaves members of the kinds agreed on.  One that     *)
(* writes its input has all of the request for it; a part may be missing.  *)
KindOf(input) == IF input = "" THEN "request" ELSE Parts("request")[input]
TargetKind(K, s) == IF s.to = "request" THEN K ELSE "response"
KindAt(path) == IF Len(path) = 1 THEN path[1] ELSE Parts(path[1])[path[2]]

SelectOneAgrees(K, s) ==
  IF s.to = "request" THEN IsRow(K)
  ELSE HasPart("response", s.key, "object") /\ IsRow(Parts("response")[s.key])
CallProcAgrees(K, s) == HasPart(K, s.key, "string")
(* The wrapper is an object of the same kind for each row.                 *)
CallProcRowAgrees(K, s) ==
  IF Type(K) = "object" THEN CallProcAgrees(K, s)
  ELSE \E W \in DOMAIN Schema \ {"request", "response"} :
         HasPart(W, s.input, Type(K)) /\ Parts(W)[s.input] = K /\ CallProcAgrees(W, s)
RowAgrees(K, s) ==
  CASE s.module = "batch_select_one"         -> SelectOneAgrees(K, s)
    [] s.module = "batch_select_list"        -> HasRows(TargetKind(K, s), s.key)
    [] s.module = "batch_select_column_list" -> HasColumn(TargetKind(K, s), s.key)
    [] s.module = "batch_insert"             -> IsRow(K)
    [] s.module = "batch_callproc"           -> CallProcRowAgrees(K, s)
PathAgrees(path) ==
  /\ path[1] \in {"request", "response"} /\ Len(path) \in 1..2
  /\ Len(path) = 2 => path[2] \in DOMAIN Parts(path[1])
(* A shared member has the same kind in its new place; a row does not get  *)
(* a member of itself in the place of that member.                         *)
ShareAgrees(F, T, s) ==
  Type(F) = "object" /\ s.key \in DOMAIN Parts(F) =>
    s.newkey \in DOMAIN Parts(T) /\ Parts(T)[s.newkey] = Parts(F)[s.key]
CopyAgrees(s) ==
  /\ s.input = "" /\ PathAgrees(s.from) /\ PathAgrees(s.to)
  /\ Type(KindAt(s.to)) = "object" /\ ShareAgrees(KindAt(s.from), KindAt(s.to), s)
BatchCopyAgrees(s) ==
  /\ s.input = "" /\ PathAgrees(s.from) /\ PathAgrees(s.to)
  /\ Type(KindAt(s.to)) = "array" =>
       LET K == Each(KindAt(s.to))
       IN  Type(K) = "object" =>
             ShareAgrees(KindAt(s.from), K, s) /\ (KindAt(s.from) # K \/ s.key # s.newkey)

Agrees(s) ==
  CASE s.module = "select_one" ->
         (s.to = "request" => s.input = "") /\ SelectOneAgrees("request", s)
    [] s.module = "select_list" ->
         (s.to = "request" => s.input = "") /\ HasRows(TargetKind("request", s), s.key)
    [] s.module = "select_page" -> HasRows("response", s.key) /\ HasPart("response", "total", "string")
    [] s.module = "insert" -> s.input = "" /\ IsRow("request")
    [] s.module \in {"callproc", "add"} -> s.input = "" /\ CallProcAgrees("request", s)
    [] s.module \in Batches ->
         /\ s.input = "" \/ s.input \in DOMAIN Parts("request")
         /\ Type(KindOf(s.input)) = "array" => RowAgrees(Each(KindOf(s.input)), s)
    [] s.module = "copy" -> CopyAgrees(s)
    [] s.module = "batch_copy" -> BatchCopyAgrees(s)
    [] s.module = "del" -> FALSE
    [] OTHER -> TRUE
StepsAgree == \A s \in Steps : Agrees(s)

-----------------------------------------------------------------------------
(* Properties                                                              *)

(* How often o is held: by request and response, and by every entry of     *)
(* every object there is.                                                  *)
Holders(o) ==
  (IF request = o THEN 1 ELSE 0) + (IF response = o THEN 1 ELSE 0) +
  Cardinality(Holding(heap, Objects(heap), o))

(* Whatever the steps share, replace, wrap and give up on: an object's     *)
(* count is the number of those that hold it.  One too many and it is      *)
(* never freed, one too few and a holder is left with freed memory.        *)
CountsExact == ~abandoned => \A o \in Objects(heap) : heap[o].refs = Holders(o)

(* Nobody holds an object that has been freed, in an abandoned cycle's     *)
(* rest either.                                                            *)
NoDangling ==
  /\ \A e \in Entries(heap, Objects(heap)) : Held(heap, e) \in DOMAIN heap
  /\ {request, response} \subseteq DOMAIN heap

(* A cycle that got its job list leaves nothing behind: the daemon, which  *)
(* runs one every minute, does not grow.                                   *)
CycleReleases == pc = "idle" /\ ~abandoned => Objects(heap) = {}

(* Steps that agree on the kind of each member never find another kind     *)
(* there, although a cycle's jobs find what earlier jobs and failed steps  *)
(* have left: nothing is ever added to a string, an array's table or NULL. *)
KindsRespected == heap[NULL].type = "null"
=============================================================================
