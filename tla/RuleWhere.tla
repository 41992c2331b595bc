----------------------------- MODULE RuleWhere ------------------------------
(***************************************************************************)
(* The text gen_group_where makes of a data rule.                          *)
(*                                                                         *)
(* A rule is a list of entries, each a condition, a group with a list of   *)
(* its own, or something with a tag the code does not know; an entry names *)
(* the logical operator, lo, that follows it unless it is the last.  The   *)
(* text is a sequence of tokens: a condition stands for what               *)
(* gen_rule_where prints of it, whatever its operator.                     *)
(***************************************************************************)
EXTENDS Naturals, Sequences, FiniteSets, SequencesExt

CONSTANTS
  Depth,   \* bound: lists within each other
  Lists    \* the rules

Entry(S) == [tag : {"none", "rule", "group", "other"}, rules : S]
(* The rules with at most d lists within each other; a condition has none. *)
Nested[d \in 0..Depth] == IF d = 0 THEN {<<>>} ELSE Seq(Entry(Nested[d - 1]))

VARIABLES rules, buf   \* the rule, and its text

vars == <<rules, buf>>

Tokens == {"(", ")", "lo", "condition"}
NotYet == <<"not yet">>   \* the text before it is made
TypeOK == rules \in Lists /\ (buf = NotYet \/ buf \in Seq(Tokens))

Init == rules \in Lists /\ buf = NotYet

-----------------------------------------------------------------------------
(* An entry without a tag is a condition.                                  *)
IsRule(e) == e.tag \in {"none", "rule"}
IsGroup(e) == e.tag = "group"

(* lo is printed behind every entry but the last of its list.              *)
AlsoLast(i, len) == <<"lo">>
Lo(i, len) == IF i = len THEN <<>> ELSE <<"lo">>

GenRuleWhere(lo) == <<"condition">> \o lo

Group(s, lo) == <<"(">> \o s \o <<")">> \o lo
(* The loop over the entries; text is what the groups' own lists give.     *)
GenGroupWhere(list, text) ==
  LET Gen(i) == IF IsRule(list[i]) THEN GenRuleWhere(Lo(i, Len(list)))
                ELSE IF IsGroup(list[i]) THEN Group(text[list[i].rules], Lo(i, Len(list)))
                ELSE <<>>
  IN  FlattenSeq([i \in 1..Len(list) |-> Gen(i)])
Inner[d \in 0..Depth] ==
  IF d = 0 THEN [list \in {<<>>} |-> <<>>]
  ELSE [list \in Nested[d] |-> GenGroupWhere(list, Inner[d - 1])]

(* gen_data_acl leaves out a rule without entries.                         *)
Generate ==
  /\ buf = NotYet
  /\ buf' = IF rules = <<>> THEN <<>> ELSE Group(Inner[Depth][rules], <<>>)
  /\ UNCHANGED rules

Next == Generate
Spec == Init /\ [][Next]_vars

-----------------------------------------------------------------------------
(* Properties                                                              *)

(* The grammar of a condition: an operand is a condition, or operands     *)
(* with lo between them in parentheses.  Behind the end of an operand      *)
(* stands what begins none, and behind everything else what begins one.    *)
Begins == {"(", "condition"}
Ends == {")", "condition"}
Adjacent(text) == \A p \in 1..Len(text) - 1 : text[p] \in Ends <=> text[p + 1] \notin Begins
Operands(text) ==
  text # <<>> /\ text[1] \in Begins /\ text[Len(text)] \in Ends /\ Adjacent(text)

Count(text, token, p) == Cardinality({i \in 1..p : text[i] = token})
Balanced(text) ==
  /\ \A p \in 0..Len(text) : Count(text, ")", p) <= Count(text, "(", p)
  /\ Count(text, ")", Len(text)) = Count(text, "(", Len(text))
WellFormed(text) == Operands(text) /\ Balanced(text)

(* The rules whose every list ends in an entry the code knows.             *)
CleanWith(list, clean) ==
  /\ list # <<>>
  /\ list[Len(list)].tag # "other"
  /\ \A i \in 1..Len(list) : IsGroup(list[i]) => list[i].rules \in clean
Clean[d \in 0..Depth] ==
  IF d = 0 THEN {} ELSE {list \in Nested[d] : CleanWith(list, Clean[d - 1])}

(* The text can be read exactly when every list, the nested ones too, has  *)
(* an entry and ends in one with a known tag; an unknown tag elsewhere     *)
(* only drops its entry.  A rule without entries gives no text.            *)
ReadableIffClean ==
  buf # NotYet =>
    IF rules = <<>> THEN buf = <<>> ELSE WellFormed(buf) <=> rules \in Clean[Depth]

(* The tags of a rule's conditions, at whatever depth.                     *)
ConditionsWith(list, conditions) ==
  FlattenSeq([i \in 1..Len(list) |-> IF IsRule(list[i]) THEN <<list[i].tag>>
                                     ELSE IF IsGroup(list[i]) THEN conditions[list[i].rules]
                                     ELSE <<>>])
Conditions[d \in 0..Depth] ==
  IF d = 0 THEN [list \in {<<>>} |-> <<>>]
  ELSE [list \in Nested[d] |-> ConditionsWith(list, Conditions[d - 1])]

(* Parentheses are balanced and every condition of the rule is in the      *)
(* text once, in that case or not.                                         *)
NothingLost ==
  buf # NotYet =>
    /\ Balanced(buf)
    /\ Count(buf, "condition", Len(buf)) = Len(Conditions[Depth][rules])

-----------------------------------------------------------------------------
(* Why                                                                     *)

(* The text is that of the rule, once it is made.                          *)
RuleInv ==
  /\ rules \in Lists
  /\ \/ buf = NotYet
     \/ rules = <<>> /\ buf = <<>>
     \/ rules # <<>> /\ buf = Group(Inner[Depth][rules], <<>>)
=============================================================================
