--------------------------- MODULE DataAclProofs ----------------------------
(***************************************************************************)
(* Proofs about DataAcl, for every set of rules and every sorted list of   *)
(* access rows.                                                            *)
(***************************************************************************)
EXTENDS DataAcl, SequenceTheorems, TLAPS

(* What the proofs need of the rows: numbers and operations.               *)
LEMMA RowTypes ==
  ASSUME TypeOK
  PROVE  /\ Len(rows) \in Nat /\ DOMAIN rows = 1..Len(rows)
         /\ \A k \in 1..Len(rows) :
              /\ rows[k] \in Row /\ rows[k].role \in Int /\ rows[k].rule \in Rules
              /\ RowOp(k) \in Int /\ RowOp(k) >= Star
<1>1. rows \in Seq(Row)
  BY ListsAssumption DEF TypeOK
<1>2. Len(rows) \in Nat /\ DOMAIN rows = 1..Len(rows)
  BY <1>1, LenProperties
<1>3. ASSUME NEW k \in 1..Len(rows)
      PROVE  /\ rows[k] \in Row /\ rows[k].role \in Int /\ rows[k].rule \in Rules
             /\ RowOp(k) \in Int /\ RowOp(k) >= Star
  <2>1. rows[k] \in Row
    BY <1>1, <1>2, ElementOfSeq
  <2>2. rows[k].role \in Int /\ rows[k].rule \in Rules
    BY <2>1, AclAssumption DEF Row
  <2>3. RowOp(k) \in Ops
    BY <2>2 DEF TypeOK, RowOp
  <2> QED
    BY <2>1, <2>2, <2>3, AclAssumption
<1> QED
  BY <1>2, <1>3

(* The flag at row i stands for the earlier rows of the same role: sorted  *)
(* by role, none of them lies behind a row of another role.                *)
LEMMA FlagMeansEarlier ==
  ASSUME TypeOK, AclInv, pc = "loop", i <= Len(rows), res = 0
  PROVE  /\ FlagHere \in {0, 1}
         /\ FlagHere = 1 <=> \E j \in 1..i - 1 : rows[j].role = rows[i].role /\ RowOp(j) = op
<1>1. i \in 1..Len(rows) /\ Len(rows) \in Nat
  BY RowTypes DEF TypeOK
<1>2. CASE i = 1
  BY <1>1, <1>2 DEF FlagHere, AclInv, TypeOK
<1>3. CASE i > 1 /\ rows[i].role = rows[i - 1].role
  BY <1>1, <1>3 DEF FlagHere, AclInv, TypeOK
<1>4. CASE i > 1 /\ rows[i].role # rows[i - 1].role
  <2>1. i - 1 \in 1..Len(rows) /\ i - 1 < i
    BY <1>1, <1>4
  <2>2. rows[i - 1].role < rows[i].role
    BY <1>1, <1>4, <2>1, RowTypes DEF AclInv, Sorted
  <2>3. ASSUME NEW j \in 1..i - 1 PROVE rows[j].role < rows[i].role
    <3>1. j \in 1..Len(rows) /\ (j = i - 1 \/ j < i - 1)
      BY <1>1
    <3>2. j < i - 1 => rows[j].role <= rows[i - 1].role
      BY <2>1, <3>1, RowTypes DEF AclInv, Sorted
    <3> QED
      BY <1>1, <2>1, <2>2, <3>1, <3>2, RowTypes
  <2>4. \A j \in 1..i - 1 : rows[j].role # rows[i].role
    BY <1>1, <2>3, RowTypes
  <2> QED
    BY <1>4, <2>4 DEF FlagHere
<1> QED
  BY <1>1, <1>2, <1>3, <1>4

(* Whether row i applies can be decided without the rows behind it: for a  *)
(* rule for every operation, these hold no rule for the one at hand.       *)
LEMMA AppliesIffRestricts ==
  ASSUME TypeOK, AclInv, pc = "loop", i <= Len(rows), res = 0
  PROVE  Applies /\ rows[i].rule \in filled <=> Restricts(i)
<1>1. i \in 1..Len(rows) /\ DOMAIN rows = 1..Len(rows) /\ Len(rows) \in Nat
  BY RowTypes DEF TypeOK
<1>2. op \in Int /\ op > Star
  BY AclAssumption DEF TypeOK, Star
<1>3. ASSUME RowOp(i) = Star
      PROVE  HasOwn(i) <=> \E j \in 1..i - 1 : rows[j].role = rows[i].role /\ RowOp(j) = op
  <2>1. ASSUME NEW j \in DOMAIN rows, rows[j].role = rows[i].role, RowOp(j) = op
        PROVE  j \in 1..i - 1
    <3>1. j # i
      BY <1>2, <1>3, <2>1 DEF Star
    <3>2. ~(i < j)
      <4> SUFFICES ASSUME i < j PROVE FALSE
        OBVIOUS
      <4>1. rows[i].role < rows[j].role \/ RowOp(i) >= RowOp(j)
        BY <1>1, <2>1 DEF AclInv, Sorted
      <4> QED
        BY <1>1, <1>2, <1>3, <2>1, <4>1, RowTypes DEF Star
    <3> QED
      BY <1>1, <2>1, <3>1, <3>2
  <2>2. 1..i - 1 \subseteq DOMAIN rows
    BY <1>1
  <2> QED
    BY <2>1, <2>2 DEF HasOwn
<1>4. RowOp(i) = Star => (FlagHere = 0 <=> ~HasOwn(i))
  BY <1>3, FlagMeansEarlier
<1> QED
  BY <1>4 DEF Applies, Restricts

-----------------------------------------------------------------------------
(* The invariant is inductive.                                             *)
IInv == TypeOK /\ AclInv

LEMMA InitIInv == Init => IInv
<1> SUFFICES ASSUME Init PROVE IInv
  OBVIOUS
<1>1. rows \in Seq(Row) /\ Len(rows) \in Nat
  BY ListsAssumption, LenProperties DEF Init
<1>2. TypeOK
  BY <1>1 DEF Init, TypeOK
<1>3. AclInv
  BY <1>1 DEF Init, AclInv
<1> QED
  BY <1>2, <1>3 DEF IInv

(* The pass over one row.                                                  *)
LEMMA ApplyRowIInv == IInv /\ ApplyRow => IInv'
<1> SUFFICES ASSUME IInv, ApplyRow PROVE IInv'
  OBVIOUS
<1> USE DEF IInv
<1>0. /\ pc = "loop" /\ i \in 1..Len(rows) /\ Len(rows) \in Nat /\ DOMAIN rows = 1..Len(rows)
      /\ rows[i].rule \in loaded /\ i' = i + 1
      /\ flag' = FlagAfter
      /\ applied' = IF Applies /\ rows[i].rule \in filled THEN applied \cup {i} ELSE applied
      /\ UNCHANGED <<rows, ruleOp, filled, op, loaded, pc, res>>
  BY RowTypes DEF ApplyRow, input, TypeOK
<1>1. CASE res = -1
  BY <1>0, <1>1 DEF AclInv, TypeOK
<1>2. CASE res = 0
  <2>1. /\ FlagHere \in {0, 1}
        /\ FlagHere = 1 <=> \E j \in 1..i - 1 : rows[j].role = rows[i].role /\ RowOp(j) = op
    BY <1>0, <1>2, FlagMeansEarlier
  <2>2. flag' \in {0, 1}
    BY <1>0, <2>1 DEF FlagAfter
  <2>3. flag' = 1 <=> \E j \in 1..i : rows[j].role = rows[i].role /\ RowOp(j) = op
    <3>1. 1..i = (1..i - 1) \cup {i}
      BY <1>0
    <3> QED
      BY <1>0, <2>1, <3>1 DEF FlagAfter
  <2>4. applied' = {k \in 1..i : Restricts(k)}
    <3>1. 1..i = (1..i - 1) \cup {i} /\ i \notin 1..i - 1
      BY <1>0
    <3>2. applied = {k \in 1..i - 1 : Restricts(k)}
      BY DEF AclInv
    <3>3. Applies /\ rows[i].rule \in filled <=> Restricts(i)
      BY <1>0, <1>2, AppliesIffRestricts
    <3> QED
      BY <1>0, <3>1, <3>2, <3>3
  <2>5. \A k : Restricts(k)' <=> Restricts(k)
    BY <1>0 DEF Restricts, HasOwn, RowOp
  <2>6. i' - 1 = i /\ i' > 1 /\ i' \in 1..Len(rows) + 1
    BY <1>0
  <2>7. TypeOK'
    <3>1. applied' \subseteq 1..Len(rows)
      BY <1>0, <2>4
    <3> QED
      BY <1>0, <2>2, <2>6, <3>1 DEF TypeOK
  <2>8. Sorted' /\ Len(rows) <= MaxAcl
    BY <1>0 DEF AclInv, Sorted, RowOp
  <2>9. \A k \in 1..i : rows[k].rule \in loaded
    <3>1. 1..i = (1..i - 1) \cup {i}
      BY <1>0
    <3> QED
      BY <1>0, <3>1 DEF AclInv
  <2>10. (flag' = 1 <=> \E j \in 1..i' - 1 :
                           rows'[j].role = rows'[i' - 1].role /\ RowOp(j)' = op')
    BY <1>0, <2>3, <2>6 DEF RowOp
  <2>11. applied' = {k \in 1..i' - 1 : Restricts(k)'}
    BY <2>4, <2>5, <2>6
  <2>12. AclInv'
    BY <1>0, <1>2, <2>6, <2>8, <2>9, <2>10, <2>11 DEF AclInv
  <2> QED
    BY <2>7, <2>12
<1> QED
  BY <1>1, <1>2 DEF TypeOK

LEMMA NextIInv == IInv /\ [Next]_vars => IInv'
<1> SUFFICES ASSUME IInv, [Next]_vars PROVE IInv'
  OBVIOUS
<1> USE DEF IInv
<1>1. ASSUME UNCHANGED <<rows, ruleOp, filled, op, i, applied>>
      PROVE  /\ Sorted' <=> Sorted
             /\ {k \in 1..i' - 1 : Restricts(k)'} = {k \in 1..i - 1 : Restricts(k)}
             /\ \A j : RowOp(j)' = RowOp(j)
  BY <1>1 DEF Sorted, Restricts, HasOwn, RowOp
<1>2. CASE LoadDataRule
  <2>1. \A k \in 1..i - 1 : rows[k].rule \in loaded'
    BY <1>2, RowTypes DEF LoadDataRule, AclInv, TypeOK
  <2> QED
    BY <1>1, <1>2, <2>1 DEF LoadDataRule, input, AclInv, TypeOK
<1>3. CASE Query
  BY <1>1, <1>3 DEF Query, Fits, input, AclInv, TypeOK
<1>4. CASE QueryFails
  BY <1>1, <1>4 DEF QueryFails, input, AclInv, TypeOK
<1>5. CASE UnknownRule
  <2>1. FlagHere \in {0, 1}
    BY DEF FlagHere, TypeOK
  <2> QED
    BY <1>1, <1>5, <2>1 DEF UnknownRule, input, AclInv, TypeOK
<1>6. CASE ApplyRow
  BY <1>6, ApplyRowIInv
<1>7. CASE Finish
  <2>1. i = Len(rows) + 1
    BY <1>7, RowTypes DEF Finish, TypeOK
  <2> QED
    BY <1>1, <1>7, <2>1 DEF Finish, input, AclInv, TypeOK
<1>8. CASE UNCHANGED vars
  BY <1>1, <1>8 DEF vars, AclInv, TypeOK
<1>9. CASE Done
  BY <1>1, <1>9 DEF Done, vars, AclInv, TypeOK
<1> QED
  BY <1>2, <1>3, <1>4, <1>5, <1>6, <1>7, <1>8, <1>9 DEF Next

-----------------------------------------------------------------------------
(* The types, and what the pass has done so far, in every reachable state  *)
(* (gen_data_acl's loop).                                                  *)
THEOREM AclTypeAndInv == Spec => [](TypeOK /\ AclInv)
<1>1. Init => IInv
  BY InitIInv
<1>2. IInv /\ [Next]_vars => IInv'
  BY NextIInv
<1> QED
  BY <1>1, <1>2, PTL DEF Spec, IInv

(* The types alone (data_acl.c's variables).                               *)
THEOREM AclTypeOK == Spec => []TypeOK
  BY AclTypeAndInv, PTL

(* gen_data_acl returns 0 only with exactly the conditions that restrict   *)
(* the user's roles.                                                       *)
THEOREM ExactlyRestrictedHolds == Spec => []ExactlyRestricted
<1>1. IInv => ExactlyRestricted
  <2> SUFFICES ASSUME IInv, pc = "done", res = 0
               PROVE  applied = {k \in DOMAIN rows : Restricts(k)}
    BY DEF ExactlyRestricted
  <2>1. i = Len(rows) + 1 /\ DOMAIN rows = 1..Len(rows) /\ Len(rows) \in Nat
    BY RowTypes DEF IInv, AclInv
  <2>2. 1..i - 1 = DOMAIN rows
    BY <2>1
  <2> QED
    BY <2>2 DEF IInv, AclInv
<1> QED
  BY <1>1, AclTypeAndInv, PTL DEF IInv

(* It returns 0 only when every rule was known and the rows fitted the     *)
(* array.                                                                  *)
THEOREM NothingSkippedHolds == Spec => []NothingSkipped
<1>1. IInv => NothingSkipped
  <2> SUFFICES ASSUME IInv, pc = "done", res = 0
               PROVE  /\ Len(rows) <= MaxAcl
                      /\ \A k \in DOMAIN rows : rows[k].rule \in loaded
    BY DEF NothingSkipped
  <2>1. i = Len(rows) + 1 /\ DOMAIN rows = 1..Len(rows) /\ Len(rows) \in Nat
    BY RowTypes DEF IInv, AclInv
  <2>2. 1..i - 1 = DOMAIN rows
    BY <2>1
  <2> QED
    BY <2>2 DEF IInv, AclInv
<1> QED
  BY <1>1, AclTypeAndInv, PTL DEF IInv
=============================================================================
