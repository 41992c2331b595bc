------------------------------ MODULE SqlText ------------------------------
(***************************************************************************)
(* gen_sql: the text of a statement with its values in the places of its   *)
(* placeholders, as sql_execute logs it.                                   *)
(*                                                                         *)
(* Characters are told apart as far as the scanner does: a quote, a colon, *)
(* a letter (or digit, or underscore) and any other.  A value is one       *)
(* character "v" that no text contains; the n-th placeholder has one when  *)
(* n is in Given.                                                          *)
(***************************************************************************)
EXTENDS Naturals, Integers, Sequences, FiniteSets, SequencesExt

CONSTANTS
  Texts,   \* the statements
  Given    \* the positions in the bind array that hold a value

Chars == {"'", ":", "a", " "}

VARIABLES
  s, idx,   \* the text, and the position the next token begins at
  sqlbuf,   \* the output
  count,    \* placeholders so far
  pc, ret

vars == <<s, idx, sqlbuf, count, pc, ret>>

TypeOK ==
  /\ s \in Texts /\ idx \in 1..Len(s) + 1
  /\ sqlbuf \in Seq(Chars \cup {"v"})
  /\ count \in 0..Len(s)
  /\ pc \in {"scan", "done"} /\ ret \in {0, -1}

Init ==
  /\ s \in Texts /\ idx = 1
  /\ sqlbuf = <<>> /\ count = 0
  /\ pc = "scan" /\ ret = 0

-----------------------------------------------------------------------------
(* get_token: the type of the token at position idx and where it ends.     *)

Token(type, end) == [type |-> type, end |-> end]

(* A literal: two quotes in it stand for one, a single one ends it.        *)
Literal ==
  LET from[i \in 1..Len(s) + 2] ==
        IF i > Len(s) THEN Token("illegal", Len(s) + 1)
        ELSE IF s[i] # "'" THEN from[i + 1]
        ELSE IF i < Len(s) /\ s[i + 1] = "'" THEN from[i + 2]
        ELSE Token("string", i + 1)
  IN  from[idx + 1]

(* The first position from i on that is not of these characters.           *)
Behind(i, chars) ==
  CHOOSE e \in i..Len(s) + 1 :
    /\ \A j \in i..e - 1 : s[j] \in chars
    /\ e = Len(s) + 1 \/ s[e] \notin chars

(* A placeholder is a colon and at least one letter.                       *)
BareColon ==
  LET end == Behind(idx + 1, {"a"}) IN Token("bind_var", end)
BindVar ==
  LET end == Behind(idx + 1, {"a"})
  IN  Token(IF end - idx > 1 THEN "bind_var" ELSE "illegal", end)

ColonIsOther ==
  IF s[idx] = "'" THEN Literal ELSE Token("other", Behind(idx, {"a", " "}))
GetToken ==
  CASE s[idx] = "'" -> Literal
    [] s[idx] = ":" -> BindVar
    [] OTHER -> Token("other", Behind(idx, {"a", " "}))

(* A placeholder behind the bind array's end, or for NULL, gives ''.       *)
Value(n) == <<"'">> \o (IF n \in Given THEN <<"v">> ELSE <<>>) \o <<"'">>

CountsTokens(bind) == count + 1
Counted(bind) == IF bind THEN count + 1 ELSE count
Advanced(end) == end
NextToken ==
  LET token == GetToken
      bind == token.type = "bind_var"
  IN  /\ pc = "scan" /\ idx <= Len(s)
      /\ token.type # "illegal"
      /\ sqlbuf' = sqlbuf \o IF bind THEN Value(count) ELSE SubSeq(s, idx, token.end - 1)
      /\ count' = Counted(bind)
      /\ idx' = Advanced(token.end)
      /\ UNCHANGED <<s, pc, ret>>

Illegal ==
  /\ pc = "scan" /\ idx <= Len(s)
  /\ GetToken.type = "illegal"
  /\ ret' = -1 /\ pc' = "done"
  /\ UNCHANGED <<s, idx, sqlbuf, count>>

End ==
  /\ pc = "scan" /\ idx > Len(s)
  /\ pc' = "done"
  /\ UNCHANGED <<s, idx, sqlbuf, count, ret>>

Next == NextToken \/ Illegal \/ End
Spec == Init /\ [][Next]_vars
(* A loop in one thread.                                                   *)
FairSpec == Spec /\ WF_vars(Next)

-----------------------------------------------------------------------------
(* Properties                                                              *)

(* Without tokens: a position lies in a literal when the number of quotes  *)
(* before it is odd.                                                       *)
Quotes(p) == Cardinality({j \in 1..p - 1 : s[j] = "'"})
Outside(p) == Quotes(p) % 2 = 0
Colons == {p \in 1..Len(s) : s[p] = ":" /\ Outside(p)}
Name(p) == \E c \in Colons : c < p /\ \A j \in c + 1..p : s[j] = "a"

(* The text is refused exactly when a literal is not closed or a colon     *)
(* outside all literals has no name.                                       *)
Malformed == \/ ~Outside(Len(s) + 1)
             \/ \E c \in Colons : c = Len(s) \/ s[c + 1] # "a"
RefusedIffMalformed == pc = "done" => (ret = -1 <=> Malformed)

(* An accepted text keeps every character but the placeholders', colons in *)
(* literals too, and the n-th placeholder has become the n-th value.       *)
Written(p) ==
  CASE p \in Colons -> Value(Cardinality({c \in Colons : c < p}))
    [] Name(p)      -> <<>>
    [] OTHER        -> <<s[p]>>
Output(k) == FlattenSeq([p \in 1..k |-> Written(p)])
ValuesInPlace == pc = "done" /\ ret = 0 => sqlbuf = Output(Len(s))

(* The scan ends.                                                          *)
Ends == <>(pc = "done")

-----------------------------------------------------------------------------
(* Why                                                                     *)

(* A token begins outside literals and names, and what lies before it is   *)
(* well formed and has been written.                                       *)
SoFar ==
  /\ Outside(idx) /\ (idx <= Len(s) => ~Name(idx))
  /\ count = Cardinality({c \in Colons : c < idx})
  /\ \A c \in Colons : c < idx => c < Len(s) /\ s[c + 1] = "a"
  /\ sqlbuf = Output(idx - 1)
ScanInv ==
  /\ TypeOK
  /\ pc = "scan" => ret = 0
  /\ ret = 0 => SoFar /\ (pc = "done" => idx = Len(s) + 1)
  /\ ret # 0 => Malformed
=============================================================================
