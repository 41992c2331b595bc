------------------------------ MODULE DataAcl ------------------------------
(***************************************************************************)
(* The conditions gen_data_acl appends to a statement.                     *)
(*                                                                         *)
(* The query yields the access rows of the user's roles, at most MaxAcl,   *)
(* by role and, within a role, by the operation of the rule downwards, so  *)
(* that a rule for every operation, "*", comes after the role's rules for  *)
(* one.  One pass over the rows appends the conditions of the rules that   *)
(* apply; `flag' remembers that the role has a rule for the operation at   *)
(* hand.  load_data_rule has no caller in this program: without it the     *)
(* table is empty and any access row is an error.  What the query yields   *)
(* is therefore taken as any sorted list.                                  *)
(***************************************************************************)
EXTENDS Integers, Sequences

CONSTANTS
  Roles,    \* role_id
  Rules,    \* data_rule_id
  Ops,      \* operations, by their characters
  Lists,    \* what the query may yield
  MaxAcl    \* MAX_DATA_ACL_SIZE

Star == 42  \* '*', below every letter and digit

ASSUME AclAssumption ==
  /\ Roles \subseteq Int
  /\ Ops \subseteq Int /\ Star \in Ops /\ \A op \in Ops : op >= Star
  /\ MaxAcl \in Nat

Row == [role : Roles, rule : Rules]
ASSUME ListsAssumption == Lists \subseteq Seq(Row)

VARIABLES
  rows,     \* the access rows the query yields
  ruleOp,   \* [Rules -> Ops], the column op of data_rule
  filled,   \* the rules whose list of conditions is not empty
  op,       \* pro_ctx->op
  loaded,   \* the rules that are in g_data_rule
  pc,       \* query, loop, done
  i, flag,
  applied,  \* the rows whose conditions have been appended
  res

input == <<rows, ruleOp, filled, op>>
vars == <<rows, ruleOp, filled, op, loaded, pc, i, flag, applied, res>>

RowOp(k) == ruleOp[rows[k].rule]

(* order by a.role_id, c.op desc                                           *)
Sorted ==
  \A j, k \in DOMAIN rows : j < k =>
    \/ rows[j].role < rows[k].role
    \/ rows[j].role = rows[k].role /\ RowOp(j) >= RowOp(k)

TypeOK ==
  /\ rows \in Lists
  /\ ruleOp \in [Rules -> Ops]
  /\ filled \subseteq Rules /\ loaded \subseteq Rules
  /\ op \in Ops \ {Star}
  /\ pc \in {"query", "loop", "done"}
  /\ i \in 1..Len(rows) + 1
  /\ flag \in {0, 1}
  /\ applied \subseteq 1..Len(rows)
  /\ res \in {0, -1}

(* An operation of the user is never "*".                                  *)
Init ==
  /\ rows \in Lists /\ ruleOp \in [Rules -> Ops] /\ Sorted
  /\ filled \in SUBSET Rules
  /\ op \in Ops \ {Star}
  /\ loaded = {}
  /\ pc = "query"
  /\ i = 1 /\ flag = 0 /\ applied = {} /\ res = 0

(* load_data_rule: all rules of the table, if the query for them works.    *)
LoadDataRule ==
  /\ pc = "query" /\ loaded = {}
  /\ loaded' = Rules
  /\ UNCHANGED <<input, pc, i, flag, applied, res>>

(* The fetch handler refuses the row behind the last the array holds.      *)
OneMoreFits == Len(rows) <= MaxAcl + 1
Fits == Len(rows) <= MaxAcl
Query ==
  /\ pc = "query" /\ Fits
  /\ pc' = "loop"
  /\ UNCHANGED <<input, loaded, i, flag, applied, res>>

QueryFails ==
  /\ pc = "query"
  /\ res' = -1 /\ pc' = "done"
  /\ UNCHANGED <<input, loaded, i, flag, applied>>

(* flag at row i: a role's first row starts anew.                          *)
NeverReset == flag
FlagHere == IF i > 1 /\ rows[i].role # rows[i - 1].role THEN 0 ELSE flag

UnknownRule ==
  /\ pc = "loop" /\ i <= Len(rows)
  /\ rows[i].rule \notin loaded
  /\ res' = -1 /\ pc' = "done" /\ flag' = FlagHere
  /\ UNCHANGED <<input, loaded, i, applied>>

(* The rules of the operation apply, and those of every operation when the *)
(* role has none of the operation's; an empty rule counts, and adds no     *)
(* condition.                                                              *)
FlagCounts == IF RowOp(i) = op THEN FlagHere + 1 ELSE FlagHere
FlagIfFilled == IF RowOp(i) = op /\ rows[i].rule \in filled THEN 1 ELSE FlagHere
FlagAfter == IF RowOp(i) = op THEN 1 ELSE FlagHere
Applies == RowOp(i) = op \/ (RowOp(i) = Star /\ FlagHere = 0)
ApplyRow ==
  /\ pc = "loop" /\ i <= Len(rows)
  /\ rows[i].rule \in loaded
  /\ flag' = FlagAfter
  /\ applied' = IF Applies /\ rows[i].rule \in filled THEN applied \cup {i} ELSE applied
  /\ i' = i + 1
  /\ UNCHANGED <<input, loaded, pc, res>>

Finish ==
  /\ pc = "loop" /\ i > Len(rows)
  /\ pc' = "done"
  /\ UNCHANGED <<input, loaded, i, flag, applied, res>>

(* gen_data_acl has returned.                                              *)
Done == pc = "done" /\ UNCHANGED vars

Next == \/ LoadDataRule \/ Query \/ QueryFails \/ UnknownRule \/ ApplyRow \/ Finish \/ Done

Spec == Init /\ [][Next]_vars

-----------------------------------------------------------------------------
(* Properties                                                              *)

(* Role of row k has a rule for the operation at hand.                     *)
HasOwn(k) == \E j \in DOMAIN rows : rows[j].role = rows[k].role /\ RowOp(j) = op

(* What restricts the user: per role the rules of the operation, or, where *)
(* it has none, the rules of every operation; in each case those that say  *)
(* something.                                                              *)
Restricts(k) ==
  /\ rows[k].rule \in filled
  /\ RowOp(k) = op \/ (RowOp(k) = Star /\ ~HasOwn(k))

(* A result of 0 means exactly these conditions, of every role, although   *)
(* the one pass never looks at a later row.                                *)
ExactlyRestricted ==
  pc = "done" /\ res = 0 => applied = {k \in DOMAIN rows : Restricts(k)}

(* It also means that every rule was found and that the rows fitted the    *)
(* array.                                                                  *)
NothingSkipped ==
  pc = "done" /\ res = 0 =>
    /\ Len(rows) <= MaxAcl
    /\ \A k \in DOMAIN rows : rows[k].rule \in loaded

(* The pass so far: the flag stands for the rows of the current role that  *)
(* have been seen, and the conditions for those that restrict.             *)
AclInv ==
  /\ Sorted
  /\ pc = "query" => i = 1
  /\ res = -1 => pc = "done"
  /\ pc # "query" /\ ~(pc = "done" /\ res = -1) => Len(rows) <= MaxAcl
  /\ pc = "done" /\ res = 0 => i = Len(rows) + 1
  /\ i = 1 /\ res = 0 => flag = 0
  /\ i > 1 /\ res = 0 =>
       (flag = 1 <=> \E j \in 1..i - 1 : rows[j].role = rows[i - 1].role /\ RowOp(j) = op)
  /\ \A k \in 1..i - 1 : rows[k].rule \in loaded
  /\ applied = {k \in 1..i - 1 : Restricts(k)}
=============================================================================
