---------------------------- MODULE CallsProofs -----------------------------
(***************************************************************************)
(* Proofs about the functions that process() calls, for every text, table, *)
(* file, book, rule and limit that the assumptions of Calls admit.  First  *)
(* texts of any length: the scanner of gen_sql, whose ScanInv holds        *)
(* whenever a token begins, and what gen_group_where makes of a rule of    *)
(* any length and depth.  What is done character by character, entry by    *)
(* entry or list by list is proved by induction on a set of numbers, which *)
(* needs no operator for a parameter.                                      *)
(***************************************************************************)
EXTENDS Calls, SequenceTheorems, FiniteSetTheorems, NaturalsInduction,
        WellFoundedInduction, TLAPS

(* Numbers have a least one.                                               *)
LEMMA Least ==
  ASSUME NEW T \in SUBSET Nat, T # {}
  PROVE  \E x \in T : \A y \in T : x <= y
<1>1. PICK R : R = OpToRel(<, Nat)
  OBVIOUS
<1>2. IsWellFoundedOn(R, Nat)
  BY <1>1, NatLessThanWellFounded
<1>3. \A a, b \in Nat : <<a, b>> \in R <=> a < b
  BY <1>1 DEF OpToRel
<1>4. PICK x \in T : \A y \in T : <<y, x>> \notin R
  BY <1>2, WFMin, Zenon
<1>5. x \in Nat /\ \A y \in T : y \in Nat /\ ~(y < x)
  BY <1>3, <1>4
<1> QED
  BY <1>5

(* A set with zero and every successor has all the numbers.                *)
LEMMA SetInduction ==
  ASSUME NEW S, 0 \in S, \A k \in Nat : k \in S => k + 1 \in S
  PROVE  Nat \subseteq S
<1> SUFFICES ASSUME Nat \ S # {} PROVE FALSE
  OBVIOUS
<1>1. PICK x \in Nat \ S : \A y \in Nat \ S : x <= y
  BY Least
<1>2. x # 0 /\ x - 1 \in Nat /\ x - 1 \in S
  BY <1>1
<1> QED
  BY <1>1, <1>2

-----------------------------------------------------------------------------
(* FlattenSeq                                                              *)

(* Its recursive function exists,                                          *)
LEMMA FlattenExists ==
  ASSUME NEW f, NEW k \in Nat
  PROVE  \E g : g = [i \in 1..k |-> IF i = 1 THEN f[i] ELSE g[i - 1] \o f[i]]
<1> DEFINE S == {m \in Nat : \E g : g = [i \in 1..m |-> IF i = 1 THEN f[i] ELSE g[i - 1] \o f[i]]}
<1>1. 0 \in S
  <2> DEFINE g == [i \in 1..0 |-> f[i]]
  <2>1. g = [i \in 1..0 |-> IF i = 1 THEN f[i] ELSE g[i - 1] \o f[i]]
    OBVIOUS
  <2> QED
    BY <2>1
<1>2. ASSUME NEW m \in Nat, m \in S PROVE m + 1 \in S
  <2>1. PICK g : g = [i \in 1..m |-> IF i = 1 THEN f[i] ELSE g[i - 1] \o f[i]]
    BY <1>2
  <2> DEFINE h == [i \in 1..m + 1 |-> IF i <= m THEN g[i]
                                      ELSE IF i = 1 THEN f[i] ELSE g[i - 1] \o f[i]]
  <2>2. ASSUME NEW i \in 1..m + 1
        PROVE  h[i] = IF i = 1 THEN f[i] ELSE h[i - 1] \o f[i]
    <3>1. CASE i = 1
      BY <2>1, <3>1
    <3>2. CASE i # 1
      <4>1. i - 1 \in 1..m /\ h[i - 1] = g[i - 1]
        BY <3>2
      <4>2. CASE i <= m
        <5>1. i \in 1..m /\ h[i] = g[i]
          BY <4>2
        <5>2. g[i] = g[i - 1] \o f[i]
          BY <2>1, <3>2, <5>1
        <5> QED
          BY <3>2, <4>1, <5>1, <5>2
      <4>3. CASE i > m
        <5>1. ~(i <= m)
          BY <4>3
        <5>2. h[i] = IF i <= m THEN g[i] ELSE IF i = 1 THEN f[i] ELSE g[i - 1] \o f[i]
          BY Zenon
        <5>3. h[i] = g[i - 1] \o f[i]
          BY <3>2, <5>1, <5>2, Zenon
        <5> QED
          BY <3>2, <4>1, <5>3, Zenon
      <4> QED
        BY <4>2, <4>3
    <3> QED
      BY <3>1, <3>2
  <2>3. h = [i \in 1..m + 1 |-> h[i]]
    OBVIOUS
  <2> HIDE DEF h
  <2>4. [i \in 1..m + 1 |-> h[i]] = [i \in 1..m + 1 |-> IF i = 1 THEN f[i] ELSE h[i - 1] \o f[i]]
    BY <2>2
  <2>5. h = [i \in 1..m + 1 |-> IF i = 1 THEN f[i] ELSE h[i - 1] \o f[i]]
    BY <2>3, <2>4
  <2>6. m + 1 \in Nat
    OBVIOUS
  <2> QED
    BY <2>5, <2>6, Zenon
<1> HIDE DEF S
<1>3. Nat \subseteq S
  BY <1>1, <1>2, SetInduction
<1> QED
  BY <1>3 DEF S

(* and is what FlattenSeq takes its last value of.                         *)
LEMMA FlattenDef ==
  ASSUME NEW f, Len(f) \in Nat, Len(f) # 0
  PROVE  \E g : /\ g = [i \in 1..Len(f) |-> IF i = 1 THEN f[i] ELSE g[i - 1] \o f[i]]
                /\ Scan!FlattenSeq(f) = g[Len(f)]
<1> DEFINE G == CHOOSE g : g = [i \in 1..Len(f) |-> IF i = 1 THEN f[i] ELSE g[i - 1] \o f[i]]
<1>1. G = [i \in 1..Len(f) |-> IF i = 1 THEN f[i] ELSE G[i - 1] \o f[i]]
  BY FlattenExists, Zenon
<1>2. Scan!FlattenSeq(f) = G[Len(f)]
  BY DEF Scan!FlattenSeq
<1> QED
  BY <1>1, <1>2

(* One more sequence is appended to the flattening.                        *)
LEMMA FlattenAppend ==
  ASSUME NEW S, NEW w, NEW m \in Nat, \A p \in 1..m + 1 : w[p] \in Seq(S)
  PROVE  Scan!FlattenSeq([p \in 1..m + 1 |-> w[p]]) =
           Scan!FlattenSeq([p \in 1..m |-> w[p]]) \o w[m + 1]
<1> DEFINE a == [p \in 1..m |-> w[p]]
           b == [p \in 1..m + 1 |-> w[p]]
<1>1. /\ Len(a) = m /\ Len(b) = m + 1 /\ m + 1 # 0 /\ m + 1 \in Nat
      /\ \A p \in 1..m : a[p] = w[p]
      /\ \A p \in 1..m + 1 : b[p] = w[p]
  OBVIOUS
<1>2. m = 0 => a = <<>>
  OBVIOUS
<1> HIDE DEF a, b
<1>3. PICK h : /\ h = [i \in 1..Len(b) |-> IF i = 1 THEN b[i] ELSE h[i - 1] \o b[i]]
               /\ Scan!FlattenSeq(b) = h[Len(b)]
  BY <1>1, FlattenDef
<1>4. \A i \in 1..m + 1 : h[i] = IF i = 1 THEN w[i] ELSE h[i - 1] \o w[i]
  <2> SUFFICES ASSUME NEW i \in 1..m + 1 PROVE h[i] = IF i = 1 THEN w[i] ELSE h[i - 1] \o w[i]
    OBVIOUS
  <2>1. h[i] = IF i = 1 THEN b[i] ELSE h[i - 1] \o b[i]
    BY <1>1, <1>3
  <2>2. b[i] = w[i]
    BY <1>1
  <2> QED
    BY <2>1, <2>2
<1>5. CASE m = 0
  <2>1. Scan!FlattenSeq(a) = <<>>
    BY <1>2, <1>5 DEF Scan!FlattenSeq
  <2>2. Scan!FlattenSeq(b) = w[1]
    BY <1>1, <1>3, <1>4, <1>5
  <2>3. w[1] \in Seq(S) /\ <<>> \o w[1] = w[1]
    BY <1>5, ConcatEmptySeq
  <2> QED
    BY <1>5, <2>1, <2>2, <2>3 DEF a, b
<1>6. CASE m # 0
  <2>1. PICK g : /\ g = [i \in 1..Len(a) |-> IF i = 1 THEN a[i] ELSE g[i - 1] \o a[i]]
                 /\ Scan!FlattenSeq(a) = g[Len(a)]
    BY <1>1, <1>6, FlattenDef
  <2>2. \A i \in 1..m : g[i] = IF i = 1 THEN w[i] ELSE g[i - 1] \o w[i]
    <3> SUFFICES ASSUME NEW i \in 1..m PROVE g[i] = IF i = 1 THEN w[i] ELSE g[i - 1] \o w[i]
      OBVIOUS
    <3>1. g[i] = IF i = 1 THEN a[i] ELSE g[i - 1] \o a[i]
      BY <1>1, <2>1
    <3>2. a[i] = w[i]
      BY <1>1
    <3> QED
      BY <3>1, <3>2
  <2> DEFINE Same == {i \in Nat : i \in 1..m => g[i] = h[i]}
  <2>3. 0 \in Same
    OBVIOUS
  <2>4. ASSUME NEW i \in Nat, i \in Same PROVE i + 1 \in Same
    <3> SUFFICES ASSUME i + 1 \in 1..m PROVE g[i + 1] = h[i + 1]
      OBVIOUS
    <3>1. CASE i = 0
      <4>1. 1 \in 1..m /\ 1 \in 1..m + 1 /\ i + 1 = 1
        BY <3>1
      <4> QED
        BY <1>4, <2>2, <4>1
    <3>2. CASE i # 0
      <4>1. i \in 1..m /\ i + 1 # 1 /\ (i + 1) - 1 = i /\ i + 1 \in 1..m + 1
        BY <3>2
      <4>2. g[i] = h[i]
        BY <2>4, <4>1
      <4>3. g[i + 1] = g[i] \o w[i + 1] /\ h[i + 1] = h[i] \o w[i + 1]
        BY <1>4, <2>2, <4>1
      <4> QED
        BY <4>2, <4>3
    <3> QED
      BY <3>1, <3>2
  <2> HIDE DEF Same
  <2>5. Nat \subseteq Same
    BY <2>3, <2>4, SetInduction
  <2>6. m \in 1..m /\ m + 1 \in 1..m + 1 /\ m + 1 # 1 /\ (m + 1) - 1 = m
    BY <1>6
  <2>7. g[m] = h[m]
    BY <2>5, <2>6 DEF Same
  <2>8. h[m + 1] = h[m] \o w[m + 1]
    BY <1>4, <2>6
  <2> QED
    BY <1>1, <1>3, <2>1, <2>7, <2>8 DEF a, b
<1> QED
  BY <1>5, <1>6

(* A flattening has the elements of its sequences.                         *)
LEMMA FlattenIsSeq ==
  ASSUME NEW S, NEW w, NEW m \in Nat, \A p \in 1..m : w[p] \in Seq(S)
  PROVE  Scan!FlattenSeq([p \in 1..m |-> w[p]]) \in Seq(S)
<1> DEFINE F(i) == Scan!FlattenSeq([p \in 1..i |-> w[p]])
           P == {i \in Nat : i <= m => F(i) \in Seq(S)}
<1>1. 0 \in P
  <2>1. [p \in 1..0 |-> w[p]] = <<>>
    OBVIOUS
  <2>2. F(0) = <<>>
    BY <2>1 DEF Scan!FlattenSeq
  <2>3. <<>> \in Seq(S)
    OBVIOUS
  <2> HIDE DEF F
  <2> QED
    BY <2>2, <2>3
<1>2. ASSUME NEW i \in Nat, i \in P PROVE i + 1 \in P
  <2> SUFFICES ASSUME i + 1 <= m PROVE F(i + 1) \in Seq(S)
    OBVIOUS
  <2>1. F(i) \in Seq(S) /\ w[i + 1] \in Seq(S) /\ \A p \in 1..i + 1 : w[p] \in Seq(S)
    BY <1>2
  <2>2. F(i + 1) = F(i) \o w[i + 1]
    BY <2>1, FlattenAppend
  <2> HIDE DEF F
  <2> QED
    BY <2>1, <2>2, ConcatProperties
<1> HIDE DEF P
<1>3. m \in P
  BY <1>1, <1>2, SetInduction
<1> QED
  BY <1>3 DEF P

-----------------------------------------------------------------------------
(* Quotes, literals and runs of characters                                 *)

(* The quotes before a position, counted one position at a time.           *)
LEMMA QuotesStep ==
  ASSUME s \in Seq(Scan!Chars), NEW p \in 1..Len(s)
  PROVE  /\ Scan!Quotes(1) = 0 /\ Scan!Quotes(p) \in Nat
         /\ Scan!Quotes(p + 1) = IF s[p] = "'" THEN Scan!Quotes(p) + 1 ELSE Scan!Quotes(p)
<1> DEFINE Q(i) == {j \in 1..i - 1 : s[j] = "'"}
<1>1. Len(s) \in Nat /\ p \in Nat
  OBVIOUS
<1>2. \A i \in Nat : IsFiniteSet(Q(i))
  <2> SUFFICES ASSUME NEW i \in Nat PROVE IsFiniteSet(Q(i))
    OBVIOUS
  <2>1. IsFiniteSet(1..i - 1)
    BY FS_Interval
  <2>2. Q(i) \subseteq 1..i - 1
    OBVIOUS
  <2> HIDE DEF Q
  <2> QED
    BY <2>1, <2>2, FS_Subset
<1>3. Q(1) = {}
  OBVIOUS
<1>4. Q(p + 1) = IF s[p] = "'" THEN Q(p) \cup {p} ELSE Q(p)
  BY <1>1
<1>5. p \notin Q(p)
  BY <1>1
<1>6. \A i : Scan!Quotes(i) = Cardinality(Q(i))
  BY DEF Scan!Quotes, Scan!Cardinality, Cardinality
<1> HIDE DEF Q
<1>7. IsFiniteSet(Q(p)) /\ Cardinality(Q(p)) \in Nat
  BY <1>1, <1>2, FS_CardinalityType
<1>8. Cardinality(Q(p) \cup {p}) = Cardinality(Q(p)) + 1
  BY <1>5, <1>7, FS_AddElement
<1>9. Cardinality(Q(1)) = 0
  BY <1>3, FS_EmptySet
<1> QED
  BY <1>4, <1>6, <1>7, <1>8, <1>9

(* Characters other than quotes leave the count.                           *)
LEMMA QuotesSame ==
  ASSUME s \in Seq(Scan!Chars), NEW i \in 1..Len(s) + 1, NEW e \in i..Len(s) + 1,
         \A j \in i..e - 1 : s[j] # "'"
  PROVE  Scan!Quotes(e) = Scan!Quotes(i)
<1>1. Len(s) \in Nat
  OBVIOUS
<1>2. {j \in 1..e - 1 : s[j] = "'"} = {j \in 1..i - 1 : s[j] = "'"}
  BY <1>1
<1> QED
  BY <1>2 DEF Scan!Quotes

(* A run of characters ends at the first other one.                        *)
LEMMA BehindEnds ==
  ASSUME s \in Seq(Scan!Chars), NEW i \in 1..Len(s) + 1, NEW C
  PROVE  LET e == Scan!Behind(i, C)
         IN  /\ e \in i..Len(s) + 1
             /\ \A j \in i..e - 1 : s[j] \in C
             /\ e = Len(s) + 1 \/ s[e] \notin C
<1> DEFINE Good(e) == (\A j \in i..e - 1 : s[j] \in C) /\ (e = Len(s) + 1 \/ s[e] \notin C)
           T == {e \in i..Len(s) + 1 : e = Len(s) + 1 \/ s[e] \notin C}
<1>1. Len(s) \in Nat
  OBVIOUS
<1>2. T \in SUBSET Nat /\ Len(s) + 1 \in T
  BY <1>1
<1> HIDE DEF T
<1>3. PICK x \in T : \A y \in T : x <= y
  BY <1>2, Least
<1>4. x \in i..Len(s) + 1 /\ Good(x)
  BY <1>1, <1>3 DEF T
<1>5. \E e \in i..Len(s) + 1 : Good(e)
  BY <1>4
<1>6. Scan!Behind(i, C) = CHOOSE e \in i..Len(s) + 1 : Good(e)
  BY DEF Scan!Behind
<1> HIDE DEF Good
<1>7. Scan!Behind(i, C) \in i..Len(s) + 1 /\ Good(Scan!Behind(i, C))
  BY <1>5, <1>6
<1> QED
  BY <1>7 DEF Good

(* A quote opens or closes a literal, no other character does.             *)
LEMMA OutsideStep ==
  ASSUME s \in Seq(Scan!Chars), NEW p \in 1..Len(s)
  PROVE  /\ Scan!Outside(1)
         /\ s[p] = "'" => (Scan!Outside(p + 1) <=> ~Scan!Outside(p))
         /\ s[p] # "'" => (Scan!Outside(p + 1) <=> Scan!Outside(p))
<1>1. /\ Scan!Quotes(1) = 0 /\ Scan!Quotes(p) \in Nat
      /\ Scan!Quotes(p + 1) = IF s[p] = "'" THEN Scan!Quotes(p) + 1 ELSE Scan!Quotes(p)
  BY QuotesStep
<1> QED
  BY <1>1 DEF Scan!Outside

(* The recursive function of a literal exists, filled from the end of the text. *)
LEMMA LiteralScan ==
  ASSUME s \in Seq(Scan!Chars)
  PROVE  \E f : /\ f = [i \in 1..Len(s) + 2 |->
                          IF i > Len(s) THEN Scan!Token("illegal", Len(s) + 1)
                          ELSE IF s[i] # "'" THEN f[i + 1]
                          ELSE IF i < Len(s) /\ s[i + 1] = "'" THEN f[i + 2]
                          ELSE Scan!Token("string", i + 1)]
                /\ Scan!Literal = f[idx + 1]
<1> DEFINE N == Len(s) + 2
           Turn(f, i) == IF i > Len(s) THEN Scan!Token("illegal", Len(s) + 1)
                         ELSE IF s[i] # "'" THEN f[i + 1]
                         ELSE IF i < Len(s) /\ s[i + 1] = "'" THEN f[i + 2]
                         ELSE Scan!Token("string", i + 1)
           P == {k \in Nat : k <= N => \E f : f = [i \in N + 1 - k..N |-> Turn(f, i)]}
<1>0. Len(s) \in Nat /\ N \in Nat /\ N + 1 - 0 = N + 1 /\ N + 1 - N = 1
  OBVIOUS
<1>1. 0 \in P
  <2> DEFINE f == [i \in N + 1 - 0..N |-> 0]
  <2>1. f = [i \in N + 1 - 0..N |-> Turn(f, i)]
    BY <1>0
  <2>2. \E g : g = [i \in N + 1 - 0..N |-> Turn(g, i)]
    BY <2>1, Zenon
  <2> QED
    BY <2>2
<1>2. ASSUME NEW k \in Nat, k \in P PROVE k + 1 \in P
  <2>0. k + 1 \in Nat
    OBVIOUS
  <2> SUFFICES ASSUME k + 1 <= N
               PROVE  \E f : f = [i \in N + 1 - (k + 1)..N |-> Turn(f, i)]
    BY <2>0, Zenon
  <2>1. k <= N
    BY <1>0
  <2>2. PICK g : g = [i \in N + 1 - k..N |-> Turn(g, i)]
    BY <1>2, <2>1
  <2> DEFINE a == N + 1 - (k + 1)
             h == [i \in a..N |-> IF i = a THEN Turn(g, a) ELSE g[i]]
  <2>3. a \in Nat /\ a + 1 = N + 1 - k /\ a <= N
    BY <1>0
  <2> HIDE DEF Turn
  <2>4. \A i \in a + 1..N : g[i] = Turn(g, i)
    BY <2>2, <2>3
  <2>5. \A i \in a..N : h[i] = IF i = a THEN Turn(g, a) ELSE g[i]
    OBVIOUS
  <2>6. \A i \in a..N : i <= Len(s) => /\ i + 1 \in a + 1..N /\ i + 2 \in a + 1..N
                                     /\ i + 1 # a /\ i + 2 # a
    BY <1>0, <2>3
  <2>7. h = [i \in a..N |-> h[i]]
    OBVIOUS
  <2> HIDE DEF h, a
  <2>8. ASSUME NEW i \in a..N PROVE h[i] = Turn(h, i)
    <3>1. h[i] = Turn(g, i)
      BY <2>3, <2>4, <2>5
    <3>2. CASE i > Len(s)
      BY <3>1, <3>2 DEF Turn
    <3>3. CASE ~(i > Len(s))
      <4>1. i + 1 \in a..N /\ i + 2 \in a..N /\ i + 1 # a /\ i + 2 # a
        BY <1>0, <2>3, <2>6, <3>3
      <4>2. h[i + 1] = g[i + 1] /\ h[i + 2] = g[i + 2]
        BY <2>5, <4>1
      <4> QED
        BY <3>1, <3>3, <4>2, Zenon DEF Turn
    <3> QED
      BY <3>2, <3>3
  <2>9. h = [i \in a..N |-> Turn(h, i)]
    BY <2>7, <2>8
  <2> QED
    BY <2>9 DEF a
<1> HIDE DEF P
<1>3. N \in P
  BY <1>0, <1>1, <1>2, SetInduction
<1>4. \E f : f = [i \in 1..N |-> Turn(f, i)]
  BY <1>0, <1>3 DEF P
<1> DEFINE F == CHOOSE f : f = [i \in 1..N |-> Turn(f, i)]
<1>5. F = [i \in 1..N |-> Turn(F, i)]
  BY <1>4, Zenon
<1>6. Scan!Literal = F[idx + 1]
  BY DEF Scan!Literal
<1> QED
  BY <1>5, <1>6, Zenon

(* A literal ends outside all literals, and only quotes in it may lie outside; *)
(* or the text ends inside.                                                *)
LEMMA LiteralToken ==
  ASSUME s \in Seq(Scan!Chars), idx \in 1..Len(s), s[idx] = "'", Scan!Outside(idx)
  PROVE  \/ Scan!Literal = Scan!Token("illegal", Len(s) + 1) /\ ~Scan!Outside(Len(s) + 1)
         \/ \E e \in idx + 1..Len(s) + 1 :
              /\ Scan!Literal = Scan!Token("string", e)
              /\ Scan!Outside(e) /\ s[e - 1] = "'"
              /\ \A j \in idx..e - 1 : s[j] # "'" => ~Scan!Outside(j)
<1>1. PICK f : /\ f = [i \in 1..Len(s) + 2 |->
                          IF i > Len(s) THEN Scan!Token("illegal", Len(s) + 1)
                          ELSE IF s[i] # "'" THEN f[i + 1]
                          ELSE IF i < Len(s) /\ s[i + 1] = "'" THEN f[i + 2]
                          ELSE Scan!Token("string", i + 1)]
               /\ Scan!Literal = f[idx + 1]
  BY LiteralScan
<1>2. Len(s) \in Nat
  OBVIOUS
<1>3. ASSUME NEW i \in 1..Len(s) + 1
      PROVE  f[i] = IF i > Len(s) THEN Scan!Token("illegal", Len(s) + 1)
                    ELSE IF s[i] # "'" THEN f[i + 1]
                    ELSE IF i < Len(s) /\ s[i + 1] = "'" THEN f[i + 2]
                    ELSE Scan!Token("string", i + 1)
  <2>1. i \in 1..Len(s) + 2
    BY <1>2
  <2> QED
    BY <1>1, <2>1
<1> DEFINE Ended(i, e) == /\ f[i] = Scan!Token("string", e)
                          /\ Scan!Outside(e) /\ s[e - 1] = "'"
                          /\ \A j \in i..e - 1 : s[j] # "'" => ~Scan!Outside(j)
           Good(i) == \/ f[i] = Scan!Token("illegal", Len(s) + 1) /\ ~Scan!Outside(Len(s) + 1)
                      \/ \E e \in i + 1..Len(s) + 1 : Ended(i, e)
           P == {k \in Nat : \A i \in 1..Len(s) + 1 :
                               i + k >= Len(s) + 2 /\ ~Scan!Outside(i) => Good(i)}
<1>4. 0 \in P
  BY <1>2
<1> HIDE DEF Good
<1>5. ASSUME NEW k \in Nat, k \in P PROVE k + 1 \in P
  <2> SUFFICES ASSUME NEW i \in 1..Len(s) + 1, i + k = Len(s) + 1, ~Scan!Outside(i)
               PROVE  Good(i)
    BY <1>2, <1>5
  <2>1. \A n_1 \in 1..Len(s) + 1 : n_1 > i /\ ~Scan!Outside(n_1) => Good(n_1)
    BY <1>2, <1>5
  <2> HIDE DEF P
  <2>2. CASE i > Len(s)
    <3>1. i = Len(s) + 1 /\ f[i] = Scan!Token("illegal", Len(s) + 1)
      BY <1>2, <1>3, <2>2
    <3> QED
      BY <3>1 DEF Good
  <2>3. CASE i <= Len(s) /\ s[i] # "'"
    <3>1. i \in 1..Len(s) /\ f[i] = f[i + 1] /\ i + 1 \in 1..Len(s) + 1 /\ i + 1 > i
      BY <1>2, <1>3, <2>3
    <3>2. ~Scan!Outside(i + 1)
      BY <2>3, <3>1, OutsideStep
    <3>3. Good(i + 1)
      BY <2>1, <3>1, <3>2
    <3>4. CASE \E e \in i + 2..Len(s) + 1 : Ended(i + 1, e)
      <4>1. PICK e \in i + 2..Len(s) + 1 : Ended(i + 1, e)
        BY <3>4
      <4>2. e \in i + 1..Len(s) + 1 /\ \A j \in i..e - 1 : j = i \/ j \in i + 1..e - 1
        BY <1>2
      <4>3. Ended(i, e)
        BY <3>1, <4>1, <4>2
      <4> QED
        BY <4>2, <4>3 DEF Good
    <3> QED
      BY <3>1, <3>3, <3>4 DEF Good
  <2>4. CASE i < Len(s) /\ s[i] = "'" /\ s[i + 1] = "'"
    <3>1. /\ i \in 1..Len(s) /\ i + 1 \in 1..Len(s) /\ f[i] = f[i + 2]
          /\ i + 2 \in 1..Len(s) + 1 /\ i + 2 > i /\ (i + 1) + 1 = i + 2
      BY <1>2, <1>3, <2>4
    <3>2. ~Scan!Outside(i + 2)
      BY <2>4, <3>1, OutsideStep
    <3>3. Good(i + 2)
      BY <2>1, <3>1, <3>2
    <3>4. CASE \E e \in i + 3..Len(s) + 1 : Ended(i + 2, e)
      <4>1. PICK e \in i + 3..Len(s) + 1 : Ended(i + 2, e)
        BY <3>4
      <4>2. e \in i + 1..Len(s) + 1 /\ \A j \in i..e - 1 : j = i \/ j = i + 1 \/ j \in i + 2..e - 1
        BY <1>2
      <4>3. Ended(i, e)
        BY <2>4, <3>1, <4>1, <4>2
      <4> QED
        BY <4>2, <4>3 DEF Good
    <3> QED
      BY <3>1, <3>3, <3>4 DEF Good
  <2>5. CASE i <= Len(s) /\ s[i] = "'" /\ ~(i < Len(s) /\ s[i + 1] = "'")
    <3>1. i \in 1..Len(s) /\ f[i] = Scan!Token("string", i + 1) /\ i + 1 \in i + 1..Len(s) + 1
      BY <1>2, <1>3, <2>5
    <3>2. Scan!Outside(i + 1)
      BY <2>5, <3>1, OutsideStep
    <3>3. (i + 1) - 1 = i /\ \A j \in i..(i + 1) - 1 : j = i
      OBVIOUS
    <3>4. Ended(i, i + 1)
      BY <2>5, <3>1, <3>2, <3>3
    <3> QED
      BY <3>1, <3>4 DEF Good
  <2>6. i > Len(s) \/ i <= Len(s)
    BY <1>2
  <2> QED
    BY <1>2, <2>2, <2>3, <2>4, <2>5, <2>6
<1> HIDE DEF P
<1>6. Len(s) + 1 \in P
  BY <1>2, <1>4, <1>5, SetInduction
<1>7. idx + 1 \in 1..Len(s) + 1 /\ (idx + 1) + (Len(s) + 1) >= Len(s) + 2 /\ ~Scan!Outside(idx + 1)
  BY <1>2, OutsideStep
<1>8. Good(idx + 1)
  BY <1>6, <1>7 DEF P
<1>9. CASE \E e \in idx + 2..Len(s) + 1 : Ended(idx + 1, e)
  <2>1. PICK e \in idx + 2..Len(s) + 1 : Ended(idx + 1, e)
    BY <1>9
  <2>2. e \in idx + 1..Len(s) + 1 /\ \A j \in idx..e - 1 : j = idx \/ j \in idx + 1..e - 1
    BY <1>2
  <2> QED
    BY <1>1, <2>1, <2>2
<1> QED
  BY <1>1, <1>8, <1>9 DEF Good

-----------------------------------------------------------------------------
(* The output                                                              *)

(* What is said of the text rests while the text does.                     *)
LEMMA SameText ==
  ASSUME s' = s
  PROVE  /\ Scan!Colons' = Scan!Colons
         /\ \A p : Scan!Outside(p)' = Scan!Outside(p)
         /\ \A p : Scan!Name(p)' = Scan!Name(p)
         /\ \A k : Scan!Output(k)' = Scan!Output(k)
         /\ Scan!Malformed' = Scan!Malformed
<1>1. \A p : Scan!Outside(p)' = Scan!Outside(p)
  BY DEF Scan!Outside, Scan!Quotes
<1>2. Scan!Colons' = Scan!Colons
  BY <1>1 DEF Scan!Colons
<1>3. \A p : Scan!Name(p)' = Scan!Name(p)
  BY <1>2 DEF Scan!Name
<1>4. \A p : Scan!Written(p)' = Scan!Written(p)
  BY <1>2, <1>3 DEF Scan!Written, Scan!Value
<1>5. \A k : Scan!Output(k)' = Scan!Output(k)
  BY <1>4 DEF Scan!Output
<1>6. Scan!Malformed' = Scan!Malformed
  BY <1>1, <1>2 DEF Scan!Malformed
<1> QED
  BY <1>1, <1>2, <1>3, <1>5, <1>6

(* The placeholders before a position are as many as the text has characters *)
(* at most.                                                                *)
LEMMA ColonsBefore ==
  ASSUME s \in Seq(Scan!Chars), NEW p \in 1..Len(s) + 1
  PROVE  LET C == {c \in Scan!Colons : c < p}
         IN  /\ IsFiniteSet(C) /\ Scan!Cardinality(C) = Cardinality(C)
             /\ Cardinality(C) \in 0..Len(s)
<1> DEFINE C == {c \in Scan!Colons : c < p}
<1>1. C \in SUBSET (1..Len(s)) /\ Len(s) \in Nat
  BY DEF Scan!Colons
<1>2. Scan!Cardinality(C) = Cardinality(C)
  BY DEF Scan!Cardinality, Cardinality
<1> HIDE DEF C
<1>3. IsFiniteSet(1..Len(s)) /\ Cardinality(1..Len(s)) = Len(s)
  <2>0. 1 \in Int /\ Len(s) \in Int
    BY <1>1
  <2>1. Cardinality(1..Len(s)) = IF 1 > Len(s) THEN 0 ELSE Len(s) - 1 + 1
    BY <2>0, FS_Interval
  <2>2. IsFiniteSet(1..Len(s))
    BY <2>0, FS_Interval
  <2> QED
    BY <1>1, <2>1, <2>2
<1>4. IsFiniteSet(C) /\ Cardinality(C) <= Len(s)
  BY <1>1, <1>3, FS_Subset
<1>5. Cardinality(C) \in Nat
  BY <1>4, FS_CardinalityType
<1> QED
  BY <1>1, <1>2, <1>4, <1>5 DEF C

(* What stands for a character.                                            *)
LEMMA WrittenType ==
  ASSUME s \in Seq(Scan!Chars), NEW p \in 1..Len(s)
  PROVE  Scan!Written(p) \in Seq(Scan!Chars \cup {"v"})
<1> DEFINE D == Scan!Chars \cup {"v"}
<1>1. s[p] \in D /\ "v" \in D
  OBVIOUS
<1>4. "'" \in D
  BY DEF Scan!Chars
<1> HIDE DEF D
<1>2. \A k : Scan!Value(k) \in Seq(D)
  <2> SUFFICES ASSUME NEW k PROVE Scan!Value(k) \in Seq(D)
    OBVIOUS
  <2>1. <<"'">> \in Seq(D) /\ <<"v">> \in Seq(D) /\ <<>> \in Seq(D)
    BY <1>1, <1>4
  <2>2. (IF k \in Given THEN <<"v">> ELSE <<>>) \in Seq(D)
    BY <2>1
  <2> QED
    BY <2>1, <2>2, ConcatProperties DEF Scan!Value
<1>3. <<s[p]>> \in Seq(D) /\ <<>> \in Seq(D)
  BY <1>1
<1> QED
  BY <1>2, <1>3 DEF Scan!Written, D

(* The output grows by what stands for the next character.                 *)
LEMMA OutputGrows ==
  ASSUME s \in Seq(Scan!Chars)
  PROVE  /\ Scan!Output(0) = <<>>
         /\ \A k \in 0..Len(s) : Scan!Output(k) \in Seq(Scan!Chars \cup {"v"})
         /\ \A k \in 1..Len(s) : Scan!Output(k) = Scan!Output(k - 1) \o Scan!Written(k)
<1> DEFINE D == Scan!Chars \cup {"v"}
           w == [p \in 1..Len(s) |-> Scan!Written(p)]
<1>1. /\ \A p \in 1..Len(s) : w[p] = Scan!Written(p)
      /\ \A p \in 1..Len(s) : w[p] \in Seq(D)
  BY WrittenType
<1> HIDE DEF w
<1>2. \A k \in 0..Len(s) : Scan!Output(k) = Scan!FlattenSeq([p \in 1..k |-> w[p]])
  <2> SUFFICES ASSUME NEW k \in 0..Len(s)
               PROVE  Scan!Output(k) = Scan!FlattenSeq([p \in 1..k |-> w[p]])
    OBVIOUS
  <2>1. [p \in 1..k |-> Scan!Written(p)] = [p \in 1..k |-> w[p]]
    BY <1>1
  <2> QED
    BY <2>1 DEF Scan!Output
<1> HIDE DEF D
<1>3. ASSUME NEW k \in 0..Len(s) PROVE Scan!Output(k) \in Seq(D)
  <2>1. k \in Nat /\ \A p \in 1..k : w[p] \in Seq(D)
    BY <1>1
  <2>2. Scan!FlattenSeq([p \in 1..k |-> w[p]]) \in Seq(D)
    BY <2>1, FlattenIsSeq
  <2> QED
    BY <1>2, <2>2
<1>4. ASSUME NEW k \in 1..Len(s) PROVE Scan!Output(k) = Scan!Output(k - 1) \o Scan!Written(k)
  <2>1. k - 1 \in Nat /\ (k - 1) + 1 = k /\ \A p \in 1..k : w[p] \in Seq(D)
    BY <1>1
  <2>2. Scan!FlattenSeq([p \in 1..k |-> w[p]]) = Scan!FlattenSeq([p \in 1..k - 1 |-> w[p]]) \o w[k]
    <3> DEFINE m == k - 1
    <3>1. m \in Nat /\ m + 1 = k /\ \A p \in 1..m + 1 : w[p] \in Seq(D)
      BY <2>1
    <3> HIDE DEF m
    <3>2. Scan!FlattenSeq([p \in 1..m + 1 |-> w[p]]) = Scan!FlattenSeq([p \in 1..m |-> w[p]]) \o w[m + 1]
      BY <3>1, FlattenAppend
    <3> QED
      BY <3>1, <3>2 DEF m
  <2>3. k \in 0..Len(s) /\ k - 1 \in 0..Len(s)
    OBVIOUS
  <2> QED
    BY <1>1, <1>2, <2>2, <2>3
<1>5. Scan!Output(0) = <<>>
  <2>1. [p \in 1..0 |-> Scan!Written(p)] = <<>>
    OBVIOUS
  <2> QED
    BY <2>1 DEF Scan!Output, Scan!FlattenSeq
<1> QED
  BY <1>3, <1>4, <1>5 DEF D

(* Characters that stand for themselves are copied.                        *)
LEMMA OutputKeeps ==
  ASSUME s \in Seq(Scan!Chars), NEW i \in 1..Len(s), NEW e \in i..Len(s) + 1,
         \A p \in i..e - 1 : Scan!Written(p) = <<s[p]>>
  PROVE  Scan!Output(e - 1) = Scan!Output(i - 1) \o SubSeq(s, i, e - 1)
<1> DEFINE D == Scan!Chars \cup {"v"}
           o == Scan!Output(i - 1)
           P == {k \in Nat : i + k <= e => Scan!Output((i - 1) + k) = o \o SubSeq(s, i, (i - 1) + k)}
<1>0. Len(s) \in Nat /\ i \in Nat /\ e \in Nat /\ i - 1 \in 0..Len(s) /\ i <= e /\ e <= Len(s) + 1
  OBVIOUS
<1>5. o \in Seq(D)
  BY <1>0, OutputGrows
<1>6. \A j \in 1..Len(s) : s[j] \in D
  OBVIOUS
<1> HIDE DEF D, o
<1>1. 0 \in P
  <2>1. SubSeq(s, i, i - 1) = <<>>
    BY <1>0, SubSeqEmpty
  <2>2. o \o <<>> = o
    BY <1>5, ConcatEmptySeq
  <2>3. (i - 1) + 0 = i - 1
    BY <1>0
  <2> QED
    BY <2>1, <2>2, <2>3 DEF o
<1>2. ASSUME NEW k \in Nat, k \in P PROVE k + 1 \in P
  <2>0. k + 1 \in Nat
    OBVIOUS
  <2> DEFINE a == (i - 1) + k
             b == (i - 1) + (k + 1)
  <2> SUFFICES ASSUME i + (k + 1) <= e
               PROVE  Scan!Output(b) = o \o SubSeq(s, i, b)
    BY <2>0
  <2>1. i + k <= e
    BY <1>0
  <2>2. Scan!Output(a) = o \o SubSeq(s, i, a)
    BY <1>2, <2>1
  <2>3. /\ b \in 1..Len(s) /\ b \in i..e - 1 /\ a = b - 1 /\ a \in Nat /\ b \in Nat
        /\ a + 1 = b /\ i <= a + 1 /\ a <= Len(s)
    BY <1>0
  <2> HIDE DEF a, b, P
  <2>4. Scan!Output(b) = Scan!Output(b - 1) \o Scan!Written(b)
    BY <2>3, OutputGrows
  <2>5. Scan!Written(b) = <<s[b]>>
    BY <2>3
  <2>6. SubSeq(s, i, b) = SubSeq(s, i, a) \o <<s[b]>>
    <3>1. b \in i..Len(s)
      BY <1>0, <2>3
    <3>2. SubSeq(s, i, b) = SubSeq(s, i, b - 1) \o <<s[b]>>
      BY <3>1, SubSeqRecursiveSecond, Zenon
    <3> QED
      BY <2>3, <3>2
  <2>7. SubSeq(s, i, a) \in Seq(D)
    <3>1. \A j \in i..a : s[j] \in D
      BY <1>0, <1>6, <2>3
    <3> QED
      BY <1>0, <2>3, <3>1, SubSeqProperties
  <2>8. <<s[b]>> \in Seq(D)
    BY <1>6, <2>3
  <2>9. (o \o SubSeq(s, i, a)) \o <<s[b]>> = o \o (SubSeq(s, i, a) \o <<s[b]>>)
    <3>1. \A x, y, z \in Seq(D) : (x \o y) \o z = x \o (y \o z)
      BY ConcatAssociative
    <3> QED
      BY <1>5, <2>7, <2>8, <3>1, Zenon
  <2> QED
    BY <2>2, <2>3, <2>4, <2>5, <2>6, <2>9
<1> HIDE DEF P
<1>3. e - i \in P
  <2>1. Nat \subseteq P
    BY <1>1, <1>2, SetInduction
  <2>2. e - i \in Nat
    BY <1>0
  <2> QED
    BY <2>1, <2>2
<1>4. i + (e - i) <= e /\ (i - 1) + (e - i) = e - 1
  BY <1>0
<1> QED
  BY <1>3, <1>4 DEF P, o

(* Names leave nothing.                                                    *)
LEMMA OutputSkips ==
  ASSUME s \in Seq(Scan!Chars), NEW i \in 0..Len(s), NEW e \in i + 1..Len(s) + 1,
         \A p \in i + 1..e - 1 : Scan!Written(p) = <<>>
  PROVE  Scan!Output(e - 1) = Scan!Output(i)
<1> DEFINE P == {k \in Nat : i + k < e => Scan!Output(i + k) = Scan!Output(i)}
<1>0. Len(s) \in Nat /\ i \in Nat /\ e \in Nat
  OBVIOUS
<1>1. 0 \in P
  BY <1>0
<1>2. ASSUME NEW k \in Nat, k \in P PROVE k + 1 \in P
  <2>0. k + 1 \in Nat
    OBVIOUS
  <2> DEFINE b == i + (k + 1)
  <2> SUFFICES ASSUME b < e PROVE Scan!Output(b) = Scan!Output(i)
    BY <2>0
  <2>1. Scan!Output(i + k) = Scan!Output(i)
    BY <1>0, <1>2
  <2>2. b \in 1..Len(s) /\ b \in i + 1..e - 1 /\ b - 1 = i + k /\ i + k \in 0..Len(s)
    BY <1>0
  <2> HIDE DEF b, P
  <2>3. Scan!Output(b) = Scan!Output(b - 1) \o Scan!Written(b)
    BY <2>2, OutputGrows
  <2>4. Scan!Written(b) = <<>>
    BY <2>2
  <2>5. Scan!Output(i + k) \in Seq(Scan!Chars \cup {"v"})
    BY <2>2, OutputGrows
  <2>6. Scan!Output(i + k) \o <<>> = Scan!Output(i + k)
    BY <2>5, ConcatEmptySeq
  <2> QED
    BY <2>1, <2>2, <2>3, <2>4, <2>6
<1> HIDE DEF P
<1>3. (e - 1) - i \in P
  BY <1>0, <1>1, <1>2, SetInduction
<1>4. i + ((e - 1) - i) = e - 1 /\ e - 1 < e
  BY <1>0
<1> QED
  BY <1>3, <1>4 DEF P

(* What stands for a character of each kind.                               *)
LEMMA Names ==
  ASSUME s \in Seq(Scan!Chars), NEW p \in 1..Len(s)
  PROVE  /\ Scan!Name(p) => s[p] = "a" /\ p \notin Scan!Colons
         /\ p \in Scan!Colons => Scan!Written(p) = Scan!Value(Scan!Cardinality({c \in Scan!Colons : c < p}))
         /\ Scan!Name(p) => Scan!Written(p) = <<>>
         /\ p \notin Scan!Colons /\ ~Scan!Name(p) => Scan!Written(p) = <<s[p]>>
<1>1. Scan!Name(p) => s[p] = "a" /\ p \notin Scan!Colons
  BY DEF Scan!Name, Scan!Colons
<1>2. Scan!Written(p) = CASE p \in Scan!Colons -> Scan!Value(Scan!Cardinality({c \in Scan!Colons : c < p}))
                          [] Scan!Name(p) -> <<>>
                          [] OTHER -> <<s[p]>>
  BY DEF Scan!Written
<1> QED
  BY <1>1, <1>2

(* A token without a placeholder is written as it stands.                  *)
LEMMA TokenKept ==
  ASSUME s \in Seq(Scan!Chars), idx \in 1..Len(s), NEW e \in idx + 1..Len(s) + 1,
         ~Scan!Name(idx), \A j \in idx..e - 1 : j \notin Scan!Colons
  PROVE  /\ Scan!Output(e - 1) = Scan!Output(idx - 1) \o SubSeq(s, idx, e - 1)
         /\ {c \in Scan!Colons : c < e} = {c \in Scan!Colons : c < idx}
<1>0. Len(s) \in Nat /\ idx \in Nat /\ e \in Nat /\ e <= Len(s) + 1 /\ e \in idx..Len(s) + 1
  OBVIOUS
<1>1. ASSUME NEW p \in idx..e - 1 PROVE Scan!Written(p) = <<s[p]>>
  <2>1. p \in 1..Len(s) /\ p \notin Scan!Colons
    BY <1>0
  <2>2. ASSUME Scan!Name(p) PROVE FALSE
    <3>1. PICK c \in Scan!Colons : c < p /\ \A j \in c + 1..p : s[j] = "a"
      BY <2>2 DEF Scan!Name
    <3>2. c \in Nat /\ c < idx
      BY <1>0, <3>1 DEF Scan!Colons
    <3>3. \A j \in c + 1..idx : s[j] = "a"
      BY <1>0, <3>1, <3>2
    <3> QED
      BY <3>2, <3>3 DEF Scan!Name
  <2> QED
    BY <2>1, <2>2, Names
<1>2. Scan!Output(e - 1) = Scan!Output(idx - 1) \o SubSeq(s, idx, e - 1)
  BY <1>0, <1>1, OutputKeeps
<1>3. ASSUME NEW c \in Scan!Colons PROVE c < e <=> c < idx
  <2>1. c \in Nat
    BY DEF Scan!Colons
  <2> QED
    BY <1>0, <2>1
<1> QED
  BY <1>2, <1>3

-----------------------------------------------------------------------------
(* Tokens                                                                  *)

(* SoFar, when the next token begins at i, m placeholders were counted and *)
(* out was written.                                                        *)
Scanned(i, m, out) ==
  /\ Scan!Outside(i) /\ (i <= Len(s) => ~Scan!Name(i))
  /\ m = Cardinality({c \in Scan!Colons : c < i})
  /\ \A c \in Scan!Colons : c < i => c < Len(s) /\ s[c + 1] = "a"
  /\ out = Scan!Output(i - 1)

(* Such as now                                                             *)
LEMMA SoFarScanned == Scan!SoFar <=> Scanned(idx, count, sqlbuf)
<1>1. Scan!Cardinality({c \in Scan!Colons : c < idx}) = Cardinality({c \in Scan!Colons : c < idx})
  BY DEF Scan!Cardinality, Cardinality
<1> QED
  BY <1>1 DEF Scan!SoFar, Scanned

(* and after a step.                                                       *)
LEMMA ScannedNext == ASSUME s' = s, Scanned(idx', count', sqlbuf') PROVE Scan!SoFar'
<1>1. Scan!Cardinality({c \in Scan!Colons : c < idx'}) = Cardinality({c \in Scan!Colons : c < idx'})
  BY DEF Scan!Cardinality, Cardinality
<1>2. Scan!Outside(idx)' /\ (idx' <= Len(s') => ~Scan!Name(idx)')
  BY SameText DEF Scanned
<1>3. /\ count' = Scan!Cardinality({c \in Scan!Colons' : c < idx'})
      /\ \A c \in Scan!Colons' : c < idx' => c < Len(s') /\ s'[c + 1] = "a"
  BY SameText, <1>1 DEF Scanned
<1>4. sqlbuf' = Scan!Output(idx - 1)'
  BY SameText DEF Scanned
<1> QED
  BY <1>2, <1>3, <1>4 DEF Scan!SoFar

(* A literal,                                                              *)
LEMMA StringScanned ==
  ASSUME s \in Seq(Scan!Chars), idx \in 1..Len(s), Scan!SoFar, s[idx] = "'",
         Scan!Literal.type # "illegal"
  PROVE  LET e == Scan!Literal.end
         IN  /\ Scan!Literal.type # "bind_var"
             /\ e \in idx + 1..Len(s) + 1
             /\ Scanned(e, count, sqlbuf \o SubSeq(s, idx, e - 1))
<1>1. PICK e \in idx + 1..Len(s) + 1 :
        /\ Scan!Literal = Scan!Token("string", e)
        /\ Scan!Outside(e) /\ s[e - 1] = "'"
        /\ \A j \in idx..e - 1 : s[j] # "'" => ~Scan!Outside(j)
  <2>1. Scan!Outside(idx)
    BY DEF Scan!SoFar
  <2>2. Scan!Literal # Scan!Token("illegal", Len(s) + 1)
    BY DEF Scan!Token
  <2> QED
    BY <2>1, <2>2, LiteralToken
<1>2. Scan!Literal.type = "string" /\ Scan!Literal.end = e
  BY <1>1 DEF Scan!Token
<1>3. Len(s) \in Nat /\ idx \in Nat /\ e \in Nat /\ e <= Len(s) + 1
  OBVIOUS
<1>4. \A j \in idx..e - 1 : j \notin Scan!Colons
  BY <1>1 DEF Scan!Colons
<1>5. Scanned(idx, count, sqlbuf)
  BY SoFarScanned
<1>6. /\ Scan!Output(e - 1) = Scan!Output(idx - 1) \o SubSeq(s, idx, e - 1)
      /\ {c \in Scan!Colons : c < e} = {c \in Scan!Colons : c < idx}
  <2>1. ~Scan!Name(idx)
    BY <1>5 DEF Scanned
  <2> QED
    BY <1>3, <1>4, <2>1, TokenKept
<1>7. e <= Len(s) => ~Scan!Name(e)
  <2> SUFFICES ASSUME Scan!Name(e) PROVE FALSE
    OBVIOUS
  <2>1. PICK c \in Scan!Colons : c < e /\ \A j \in c + 1..e : s[j] = "a"
    BY DEF Scan!Name
  <2>2. c \in Nat /\ s[c] = ":"
    BY DEF Scan!Colons
  <2>3. CASE c = e - 1
    BY <1>1, <2>2, <2>3
  <2>4. CASE c < e - 1
    <3>1. e - 1 \in c + 1..e
      BY <1>3, <2>2, <2>4
    <3> QED
      BY <1>1, <2>1, <3>1
  <2> QED
    BY <1>3, <2>1, <2>2, <2>3, <2>4
<1>8. Scanned(e, count, sqlbuf \o SubSeq(s, idx, e - 1))
  <2>1. count = Cardinality({c \in Scan!Colons : c < e})
    BY <1>5, <1>6 DEF Scanned
  <2>2. \A c \in Scan!Colons : c < e => c < Len(s) /\ s[c + 1] = "a"
    BY <1>5, <1>6 DEF Scanned
  <2>3. sqlbuf \o SubSeq(s, idx, e - 1) = Scan!Output(e - 1)
    BY <1>5, <1>6 DEF Scanned
  <2> QED
    BY <1>1, <1>7, <2>1, <2>2, <2>3 DEF Scanned
<1> QED
  BY <1>2, <1>8

(* other characters                                                        *)
LEMMA OtherScanned ==
  ASSUME s \in Seq(Scan!Chars), idx \in 1..Len(s), Scan!SoFar, s[idx] \notin {"'", ":"}
  PROVE  LET e == Scan!Behind(idx, {"a", " "})
         IN  /\ e \in idx + 1..Len(s) + 1
             /\ Scanned(e, count, sqlbuf \o SubSeq(s, idx, e - 1))
<1> DEFINE C == {"a", " "}
           e == Scan!Behind(idx, C)
<1>0. Len(s) \in Nat /\ idx \in Nat /\ idx \in 1..Len(s) + 1
  OBVIOUS
<1>1. /\ e \in idx..Len(s) + 1
      /\ \A j \in idx..e - 1 : s[j] \in C
      /\ e = Len(s) + 1 \/ s[e] \notin C
  BY <1>0, BehindEnds
<1>2. s[idx] \in C
  <2>1. s[idx] \in Scan!Chars
    OBVIOUS
  <2> QED
    BY <2>1 DEF Scan!Chars
<1>10. "a" \in C /\ \A x \in C : x # "'" /\ x # ":"
  OBVIOUS
<1> HIDE DEF e, C
<1>3. e \in idx + 1..Len(s) + 1 /\ e \in Nat
  <2>1. e # idx
    BY <1>0, <1>1, <1>2
  <2> QED
    BY <1>0, <1>1, <2>1
<1>4. \A j \in idx..e - 1 : s[j] # "'" /\ s[j] # ":" /\ j \notin Scan!Colons
  BY <1>1, <1>10 DEF Scan!Colons
<1>5. Scanned(idx, count, sqlbuf)
  BY SoFarScanned
<1>6. /\ Scan!Output(e - 1) = Scan!Output(idx - 1) \o SubSeq(s, idx, e - 1)
      /\ {c \in Scan!Colons : c < e} = {c \in Scan!Colons : c < idx}
  <2>1. ~Scan!Name(idx)
    BY <1>5 DEF Scanned
  <2> QED
    BY <1>3, <1>4, <2>1, TokenKept
<1>7. Scan!Outside(e)
  <2>1. Scan!Quotes(e) = Scan!Quotes(idx)
    BY <1>0, <1>1, <1>4, QuotesSame
  <2> QED
    BY <1>5, <2>1 DEF Scan!Outside, Scanned
<1>8. e <= Len(s) => ~Scan!Name(e)
  <2> SUFFICES ASSUME e <= Len(s) PROVE ~Scan!Name(e)
    OBVIOUS
  <2>1. e \in 1..Len(s) /\ s[e] # "a"
    BY <1>0, <1>1, <1>3, <1>10
  <2> QED
    BY <2>1, Names
<1>9. Scanned(e, count, sqlbuf \o SubSeq(s, idx, e - 1))
  <2>1. count = Cardinality({c \in Scan!Colons : c < e})
    BY <1>5, <1>6 DEF Scanned
  <2>2. \A c \in Scan!Colons : c < e => c < Len(s) /\ s[c + 1] = "a"
    BY <1>5, <1>6 DEF Scanned
  <2>3. sqlbuf \o SubSeq(s, idx, e - 1) = Scan!Output(e - 1)
    BY <1>5, <1>6 DEF Scanned
  <2> QED
    BY <1>7, <1>8, <2>1, <2>2, <2>3 DEF Scanned
<1> QED
  BY <1>3, <1>9 DEF e, C

(* and a placeholder lead to the next beginning of a token.                *)
LEMMA BindScanned ==
  ASSUME s \in Seq(Scan!Chars), idx \in 1..Len(s), Scan!SoFar, s[idx] = ":"
  PROVE  LET e == Scan!Behind(idx + 1, {"a"})
         IN  \/ ~(e - idx > 1) /\ Scan!Malformed
             \/ /\ e - idx > 1 /\ e \in idx + 1..Len(s) + 1
                /\ Scanned(e, count + 1, sqlbuf \o Scan!Value(count))
<1> DEFINE e == Scan!Behind(idx + 1, {"a"})
<1>0. Len(s) \in Nat /\ idx \in Nat /\ idx + 1 \in 1..Len(s) + 1
  OBVIOUS
<1>1. /\ e \in idx + 1..Len(s) + 1
      /\ \A j \in idx + 1..e - 1 : s[j] \in {"a"}
      /\ e = Len(s) + 1 \/ s[e] \notin {"a"}
  BY <1>0, BehindEnds
<1> HIDE DEF e
<1>2. idx \in Scan!Colons
  BY DEF Scan!SoFar, Scan!Colons
<1>3. CASE ~(e - idx > 1)
  <2>1. e = idx + 1
    BY <1>0, <1>1, <1>3
  <2>2. idx = Len(s) \/ s[idx + 1] # "a"
    BY <1>0, <1>1, <2>1
  <2>3. Scan!Malformed
    BY <1>2, <2>2 DEF Scan!Malformed
  <2> QED
    BY <1>3, <2>3 DEF e
<1>4. CASE e - idx > 1
  <2>1. e \in Nat /\ idx + 1 <= e - 1 /\ e - 1 <= Len(s) /\ idx < Len(s) /\ idx < e
    BY <1>0, <1>1, <1>4
  <2>2. Scanned(idx, count, sqlbuf)
    BY SoFarScanned
  <2>3. ASSUME NEW j \in idx + 1..e - 1 PROVE j \in 1..Len(s) /\ Scan!Name(j)
    <3>1. j \in 1..Len(s) /\ idx < j /\ \A i \in idx + 1..j : s[i] = "a"
      BY <1>0, <1>1, <2>1
    <3> QED
      BY <1>2, <3>1 DEF Scan!Name
  <2>4. Scan!Outside(e)
    <3>1. \A j \in idx..e - 1 : s[j] # "'"
      BY <1>0, <1>1
    <3>2. Scan!Quotes(e) = Scan!Quotes(idx)
      BY <1>0, <1>1, <3>1, QuotesSame
    <3> QED
      BY <2>2, <3>2 DEF Scan!Outside, Scanned
  <2>5. e <= Len(s) => ~Scan!Name(e)
    <3> SUFFICES ASSUME e <= Len(s) PROVE ~Scan!Name(e)
      OBVIOUS
    <3>1. e \in 1..Len(s) /\ s[e] # "a"
      BY <1>0, <1>1, <2>1
    <3> QED
      BY <3>1, Names
  <2>6. {c \in Scan!Colons : c < e} = {c \in Scan!Colons : c < idx} \cup {idx}
    <3>1. ASSUME NEW c \in Scan!Colons PROVE c < e <=> c < idx \/ c = idx
      <4>1. c \in Nat
        BY DEF Scan!Colons
      <4>2. c \notin idx + 1..e - 1
        BY <2>3, Names
      <4> QED
        BY <1>0, <2>1, <4>1, <4>2
    <3> QED
      BY <1>2, <3>1
  <2>7. count + 1 = Cardinality({c \in Scan!Colons : c < e})
    <3> DEFINE C == {c \in Scan!Colons : c < idx}
    <3>1. IsFiniteSet(C) /\ count = Cardinality(C)
      <4>1. idx \in 1..Len(s) + 1
        BY <1>0
      <4> QED
        BY <2>2, <4>1, ColonsBefore DEF Scanned
    <3>2. idx \notin C
      BY <1>0
    <3> HIDE DEF C
    <3>3. Cardinality(C \cup {idx}) = Cardinality(C) + 1
      BY <3>1, <3>2, FS_AddElement
    <3> QED
      BY <2>6, <3>1, <3>3 DEF C
  <2>8. \A c \in Scan!Colons : c < e => c < Len(s) /\ s[c + 1] = "a"
    <3>1. s[idx + 1] = "a"
      BY <1>0, <1>1, <2>1
    <3>2. ASSUME NEW c \in Scan!Colons, c < e PROVE c < idx \/ c = idx
      BY <2>6, <3>2
    <3> QED
      BY <2>1, <2>2, <3>1, <3>2 DEF Scanned
  <2>9. sqlbuf \o Scan!Value(count) = Scan!Output(e - 1)
    <3>1. Scan!Written(idx) = Scan!Value(count)
      <4>1. Scan!Cardinality({c \in Scan!Colons : c < idx}) = count
        BY DEF Scan!SoFar
      <4> QED
        BY <1>2, <4>1, Names
    <3>2. Scan!Output(idx) = Scan!Output(idx - 1) \o Scan!Value(count)
      BY <3>1, OutputGrows
    <3>3. \A p \in idx + 1..e - 1 : Scan!Written(p) = <<>>
      BY <2>3, Names
    <3>4. idx \in 0..Len(s) /\ e \in idx + 1..Len(s) + 1
      BY <1>0, <1>1
    <3>5. Scan!Output(e - 1) = Scan!Output(idx)
      BY <3>3, <3>4, OutputSkips
    <3> QED
      BY <2>2, <3>2, <3>5 DEF Scanned
  <2>10. Scanned(e, count + 1, sqlbuf \o Scan!Value(count))
    BY <2>4, <2>5, <2>7, <2>8, <2>9 DEF Scanned
  <2> QED
    BY <1>1, <1>4, <2>10 DEF e
<1> QED
  BY <1>3, <1>4

-----------------------------------------------------------------------------
(* The steps of gen_sql                                                    *)

(* The texts are made of the characters told apart.                        *)
LEMMA ScanTexts == Texts \subseteq Seq(Scan!Chars)
BY TextAssumption DEF Scan!Chars

(* A scan starts with nothing written.                                     *)
LEMMA ScanStart == ASSUME Scan!Init PROVE Scan!ScanInv
<1>1. s \in Seq(Scan!Chars) /\ s \in Texts /\ idx = 1 /\ count = 0 /\ sqlbuf = <<>> /\ at = "scan" /\ ret = 0
  BY ScanTexts DEF Scan!Init
<1>2. Len(s) \in Nat
  BY <1>1
<1>3. {c \in Scan!Colons : c < 1} = {}
  BY <1>2 DEF Scan!Colons
<1>4. Scanned(1, 0, <<>>)
  <2>1. Scan!Outside(1)
    <3>1. {j \in 1..1 - 1 : s[j] = "'"} = {}
      OBVIOUS
    <3>2. Scan!Quotes(1) = 0
      BY <3>1, FS_EmptySet DEF Scan!Quotes, Scan!Cardinality, Cardinality
    <3> QED
      BY <3>2 DEF Scan!Outside
  <2>2. ~Scan!Name(1)
    <3>1. \A c \in Scan!Colons : ~(c < 1)
      BY <1>3
    <3> QED
      BY <3>1 DEF Scan!Name
  <2>3. Scan!Output(1 - 1) = <<>>
    BY <1>1, OutputGrows
  <2>4. Cardinality({c \in Scan!Colons : c < 1}) = 0
    BY <1>3, FS_EmptySet
  <2>5. \A c \in Scan!Colons : ~(c < 1)
    BY <1>3
  <2> QED
    BY <2>1, <2>2, <2>3, <2>4, <2>5 DEF Scanned
<1>5. Scan!SoFar
  BY <1>1, <1>4, SoFarScanned
<1>6. Scan!TypeOK
  <2>1. sqlbuf \in Seq(Scan!Chars \cup {"v"})
    BY <1>1
  <2> QED
    BY <1>1, <1>2, <2>1 DEF Scan!TypeOK
<1> QED
  BY <1>1, <1>5, <1>6 DEF Scan!ScanInv

(* Every token that is accepted,                                           *)
LEMMA TokenStep == ASSUME Scan!ScanInv, Scan!NextToken PROVE Scan!ScanInv'
<1> DEFINE t == Scan!GetToken
           bind == t.type = "bind_var"
           D == Scan!Chars \cup {"v"}
           out == sqlbuf \o (IF bind THEN Scan!Value(count) ELSE SubSeq(s, idx, t.end - 1))
<1>1. /\ at = "scan" /\ idx <= Len(s) /\ t.type # "illegal"
      /\ sqlbuf' = out
      /\ idx' = t.end /\ s' = s /\ at' = at /\ ret' = ret
      /\ count' = Scan!Counted(bind)
  BY DEF Scan!NextToken, Scan!Advanced
<1>2. /\ Scan!TypeOK /\ ret = 0 /\ Scan!SoFar
      /\ s \in Texts /\ s \in Seq(Scan!Chars) /\ Len(s) \in Nat
      /\ idx \in 1..Len(s) /\ count \in 0..Len(s)
  <2>1. s \in Texts /\ idx \in 1..Len(s) + 1 /\ count \in 0..Len(s)
    BY DEF Scan!ScanInv, Scan!TypeOK
  <2>2. s \in Seq(Scan!Chars) /\ Len(s) \in Nat
    BY <2>1, ScanTexts
  <2> QED
    BY <1>1, <2>1, <2>2 DEF Scan!ScanInv
<1>3. t = IF s[idx] = "'" THEN Scan!Literal
          ELSE IF s[idx] = ":" THEN Scan!BindVar
          ELSE Scan!Token("other", Scan!Behind(idx, {"a", " "}))
  BY DEF Scan!GetToken
<1>4. idx' \in idx + 1..Len(s) + 1 /\ Scanned(idx', count', sqlbuf')
  <2>1. CASE s[idx] = "'"
    <3>1. t = Scan!Literal
      BY <1>3, <2>1
    <3> HIDE DEF t
    <3>2. /\ ~bind /\ t.end \in idx + 1..Len(s) + 1
          /\ Scanned(t.end, count, sqlbuf \o SubSeq(s, idx, t.end - 1))
      BY <1>1, <1>2, <2>1, <3>1, StringScanned
    <3>3. count' = count /\ sqlbuf' = sqlbuf \o SubSeq(s, idx, t.end - 1)
      BY <1>1, <3>2 DEF Scan!Counted
    <3> QED
      BY <1>1, <3>2, <3>3
  <2>2. CASE s[idx] = ":"
    <3> DEFINE e == Scan!Behind(idx + 1, {"a"})
    <3>1. t = Scan!Token(IF e - idx > 1 THEN "bind_var" ELSE "illegal", e)
      BY <1>3, <2>2 DEF Scan!BindVar
    <3>2. e - idx > 1 /\ t.end = e /\ bind
      BY <1>1, <3>1 DEF Scan!Token
    <3>3. e \in idx + 1..Len(s) + 1 /\ Scanned(e, count + 1, sqlbuf \o Scan!Value(count))
      BY <1>2, <2>2, <3>2, BindScanned
    <3> HIDE DEF t, e
    <3>4. count' = count + 1 /\ sqlbuf' = sqlbuf \o Scan!Value(count)
      BY <1>1, <3>2 DEF Scan!Counted
    <3> QED
      BY <1>1, <3>2, <3>3, <3>4
  <2>3. CASE s[idx] \notin {"'", ":"}
    <3> DEFINE e == Scan!Behind(idx, {"a", " "})
    <3>1. t = Scan!Token("other", e)
      BY <1>3, <2>3
    <3>2. t.end = e /\ ~bind
      BY <3>1 DEF Scan!Token
    <3>3. e \in idx + 1..Len(s) + 1 /\ Scanned(e, count, sqlbuf \o SubSeq(s, idx, e - 1))
      BY <1>2, <2>3, OtherScanned
    <3> HIDE DEF t, e
    <3>4. count' = count /\ sqlbuf' = sqlbuf \o SubSeq(s, idx, e - 1)
      BY <1>1, <3>2 DEF Scan!Counted
    <3> QED
      BY <1>1, <3>2, <3>3, <3>4
  <2> QED
    BY <2>1, <2>2, <2>3
<1> HIDE DEF t
<1>5. Scan!SoFar'
  BY <1>1, <1>4, ScannedNext
<1>6. Scan!TypeOK'
  <2>1. idx' \in 1..Len(s) + 1 /\ idx' - 1 \in 0..Len(s)
    <3> DEFINE m == Len(s)
               i == idx'
    <3>1. m \in Nat /\ idx \in 1..m /\ i \in idx + 1..m + 1
      BY <1>2, <1>4
    <3> HIDE DEF m, i
    <3>2. i \in 1..m + 1 /\ i - 1 \in 0..m
      BY <3>1
    <3> QED
      BY <3>2 DEF m, i
  <2>2. sqlbuf' \in Seq(Scan!Chars \cup {"v"})
    BY <1>2, <1>4, <2>1, OutputGrows DEF Scanned
  <2>3. count' \in 0..Len(s)
    BY <1>2, <1>4, <2>1, ColonsBefore DEF Scanned
  <2> QED
    BY <1>1, <1>2, <2>1, <2>2, <2>3 DEF Scan!TypeOK
<1> QED
  BY <1>1, <1>2, <1>5, <1>6 DEF Scan!ScanInv

(* the one that is refused                                                 *)
LEMMA IllegalStep == ASSUME Scan!ScanInv, Scan!Illegal PROVE Scan!ScanInv'
<1>1. /\ at = "scan" /\ idx <= Len(s) /\ Scan!GetToken.type = "illegal"
      /\ ret' = -1 /\ at' = "done" /\ UNCHANGED <<s, idx, sqlbuf, count>>
  BY DEF Scan!Illegal
<1>2. /\ Scan!TypeOK /\ Scan!SoFar
      /\ s \in Seq(Scan!Chars) /\ idx \in 1..Len(s)
  <2>1. s \in Texts /\ idx \in 1..Len(s) + 1
    BY DEF Scan!ScanInv, Scan!TypeOK
  <2>2. s \in Seq(Scan!Chars) /\ Len(s) \in Nat
    BY <2>1, ScanTexts
  <2> QED
    BY <1>1, <2>1, <2>2 DEF Scan!ScanInv
<1>3. Scan!Malformed
  <2>1. CASE s[idx] = "'"
    <3>1. Scan!Literal.type = "illegal"
      BY <1>1, <2>1 DEF Scan!GetToken
    <3>2. Scan!Outside(idx)
      BY <1>2 DEF Scan!SoFar
    <3>3. ~Scan!Outside(Len(s) + 1)
      <4>1. \A e : Scan!Literal # Scan!Token("string", e)
        BY <3>1 DEF Scan!Token
      <4> QED
        BY <1>2, <2>1, <3>2, <4>1, LiteralToken
    <3> QED
      BY <3>3 DEF Scan!Malformed
  <2>2. CASE s[idx] = ":"
    <3> DEFINE e == Scan!Behind(idx + 1, {"a"})
    <3>1. Scan!GetToken = Scan!Token(IF e - idx > 1 THEN "bind_var" ELSE "illegal", e)
      BY <2>2 DEF Scan!BindVar, Scan!GetToken
    <3>2. ~(e - idx > 1)
      BY <1>1, <3>1 DEF Scan!Token
    <3> QED
      BY <1>2, <2>2, <3>2, BindScanned
  <2>3. CASE s[idx] \notin {"'", ":"}
    <3>1. Scan!GetToken = Scan!Token("other", Scan!Behind(idx, {"a", " "}))
      BY <2>3 DEF Scan!GetToken
    <3> QED
      BY <1>1, <3>1 DEF Scan!Token
  <2> QED
    BY <2>1, <2>2, <2>3
<1>4. Scan!Malformed'
  BY <1>1, <1>3, SameText
<1>5. Scan!TypeOK'
  BY <1>1, <1>2 DEF Scan!TypeOK
<1> QED
  BY <1>1, <1>4, <1>5 DEF Scan!ScanInv

(* and the end keep the invariant.                                         *)
LEMMA ScanControl ==
  ASSUME Scan!ScanInv, Scan!End \/ UNCHANGED Scan!vars
  PROVE  Scan!ScanInv'
<1>1. UNCHANGED <<s, idx, sqlbuf, count, ret>>
  BY DEF Scan!End, Scan!vars
<1>2. at' = at \/ (at = "scan" /\ idx > Len(s) /\ at' = "done")
  BY DEF Scan!End, Scan!vars
<1>3. Scan!TypeOK
  BY DEF Scan!ScanInv
<1>4. Scan!TypeOK'
  BY <1>1, <1>2, <1>3 DEF Scan!TypeOK
<1>5. Scan!SoFar => Scan!SoFar'
  <2> SUFFICES ASSUME Scan!SoFar PROVE Scan!SoFar'
    OBVIOUS
  <2>1. Scanned(idx', count', sqlbuf')
    BY <1>1, SoFarScanned
  <2> QED
    BY <1>1, <2>1, ScannedNext
<1>6. Scan!Malformed' = Scan!Malformed
  BY <1>1, SameText
<1>7. idx > Len(s) => idx = Len(s) + 1
  <2>1. s \in Texts /\ idx \in 1..Len(s) + 1
    BY <1>3 DEF Scan!TypeOK
  <2>2. Len(s) \in Nat
    BY <2>1, ScanTexts
  <2> QED
    BY <2>1, <2>2
<1> QED
  BY <1>1, <1>2, <1>4, <1>5, <1>6, <1>7 DEF Scan!ScanInv

(* The invariant gives what gen_sql promises.                              *)
LEMMA ScanPromises ==
  ASSUME Scan!ScanInv
  PROVE  Scan!RefusedIffMalformed /\ Scan!ValuesInPlace
<1> SUFFICES ASSUME at = "done"
             PROVE  /\ ret = -1 <=> Scan!Malformed
                    /\ ret = 0 => sqlbuf = Scan!Output(Len(s))
  BY DEF Scan!RefusedIffMalformed, Scan!ValuesInPlace
<1>1. s \in Texts /\ ret \in {0, -1}
  BY DEF Scan!ScanInv, Scan!TypeOK
<1>2. s \in Seq(Scan!Chars) /\ Len(s) \in Nat
  BY <1>1, ScanTexts
<1>3. CASE ret = 0
  <2>1. idx = Len(s) + 1 /\ Scanned(Len(s) + 1, count, sqlbuf)
    BY <1>3, SoFarScanned DEF Scan!ScanInv
  <2>2. \A c \in Scan!Colons : c < Len(s) + 1
    BY <1>2 DEF Scan!Colons
  <2>3. ~Scan!Malformed
    BY <1>2, <2>1, <2>2 DEF Scan!Malformed, Scanned
  <2>4. (Len(s) + 1) - 1 = Len(s)
    BY <1>2
  <2>5. sqlbuf = Scan!Output(Len(s))
    BY <2>1, <2>4 DEF Scanned
  <2> QED
    BY <1>3, <2>3, <2>5
<1>4. CASE ret = -1
  BY <1>4 DEF Scan!ScanInv
<1> QED
  BY <1>1, <1>3, <1>4

-----------------------------------------------------------------------------
(* The tokens of a condition                                               *)

(* Two texts fit together when their parts and their joint do.             *)
LEMMA AdjacentConcat ==
  ASSUME NEW a \in Seq(Where!Tokens), NEW b \in Seq(Where!Tokens), a # <<>>, b # <<>>
  PROVE  /\ a \o b \in Seq(Where!Tokens) /\ a \o b # <<>>
         /\ (a \o b)[1] = a[1] /\ (a \o b)[Len(a \o b)] = b[Len(b)]
         /\ Where!Adjacent(a \o b) <=>
              /\ Where!Adjacent(a) /\ Where!Adjacent(b)
              /\ a[Len(a)] \in Where!Ends <=> b[1] \notin Where!Begins
<1> DEFINE c == a \o b
           Fits(x, p) == x[p] \in Where!Ends <=> x[p + 1] \notin Where!Begins
           m == Len(a)
           k == Len(b)
<1>1. /\ c \in Seq(Where!Tokens) /\ Len(c) = m + k
      /\ \A i \in 1..m + k : c[i] = IF i <= m THEN a[i] ELSE b[i - m]
  BY ConcatProperties
<1>2. m \in Nat \ {0} /\ k \in Nat \ {0}
  BY EmptySeq
<1>3. \A x : Where!Adjacent(x) <=> \A p \in 1..Len(x) - 1 : Fits(x, p)
  BY DEF Where!Adjacent
<1>4. c # <<>>
  BY <1>1, <1>2, EmptySeq
<1> HIDE DEF c, Fits, m, k
<1>5. c[1] = a[1] /\ c[Len(c)] = b[k]
  <2>1. 1 \in 1..m + k /\ 1 <= m /\ m + k \in 1..m + k /\ ~(m + k <= m) /\ (m + k) - m = k
    BY <1>2
  <2> QED
    BY <1>1, <2>1
<1>6. \A p \in 1..m - 1 : Fits(c, p) <=> Fits(a, p)
  <2> SUFFICES ASSUME NEW p \in 1..m - 1 PROVE Fits(c, p) <=> Fits(a, p)
    OBVIOUS
  <2>1. p \in 1..m + k /\ p <= m /\ p + 1 \in 1..m + k /\ p + 1 <= m
    BY <1>2
  <2>2. c[p] = a[p] /\ c[p + 1] = a[p + 1]
    BY <1>1, <2>1
  <2> QED
    BY <2>2 DEF Fits
<1>7. \A p \in 1..k - 1 : Fits(c, m + p) <=> Fits(b, p)
  <2> SUFFICES ASSUME NEW p \in 1..k - 1 PROVE Fits(c, m + p) <=> Fits(b, p)
    OBVIOUS
  <2>1. /\ m + p \in 1..m + k /\ ~(m + p <= m) /\ (m + p) + 1 \in 1..m + k /\ ~((m + p) + 1 <= m)
        /\ (m + p) - m = p /\ ((m + p) + 1) - m = p + 1
    BY <1>2
  <2>2. c[m + p] = b[p] /\ c[(m + p) + 1] = b[p + 1]
    BY <1>1, <2>1
  <2> QED
    BY <2>2 DEF Fits
<1>8. Fits(c, m) <=> (a[m] \in Where!Ends <=> b[1] \notin Where!Begins)
  <2>1. m \in 1..m + k /\ m + 1 \in 1..m + k /\ ~(m + 1 <= m) /\ (m + 1) - m = 1
    BY <1>2
  <2>2. c[m] = a[m] /\ c[m + 1] = b[1]
    BY <1>1, <1>2, <2>1
  <2> QED
    BY <2>2 DEF Fits
<1>9. \A p \in Int : p \in 1..(m + k) - 1 <=>
                       \/ p \in 1..m - 1 \/ p = m \/ \E r \in 1..k - 1 : p = m + r
  <2> SUFFICES ASSUME NEW p \in Int
               PROVE  p \in 1..(m + k) - 1 <=>
                        \/ p \in 1..m - 1 \/ p = m \/ \E r \in 1..k - 1 : p = m + r
    OBVIOUS
  <2>1. p > m => p = m + (p - m) /\ (p \in 1..(m + k) - 1 <=> p - m \in 1..k - 1)
    BY <1>2
  <2> QED
    BY <1>2, <2>1
<1>10. (\A p \in 1..(m + k) - 1 : Fits(c, p)) <=>
         /\ \A p \in 1..m - 1 : Fits(c, p)
         /\ Fits(c, m)
         /\ \A p \in 1..k - 1 : Fits(c, m + p)
  <2>1. \A p \in 1..(m + k) - 1 : p \in Int
    OBVIOUS
  <2>2. \A p \in 1..m - 1 : p \in Int
    OBVIOUS
  <2>3. \A p \in 1..k - 1 : m + p \in Int
    BY <1>2
  <2>4. m \in Int
    BY <1>2
  <2> QED
    BY <1>9, <2>1, <2>2, <2>3, <2>4, Zenon
<1>11. Where!Adjacent(c) <=>
         /\ \A p \in 1..m - 1 : Fits(a, p)
         /\ \A p \in 1..k - 1 : Fits(b, p)
         /\ a[m] \in Where!Ends <=> b[1] \notin Where!Begins
  <2>1. Where!Adjacent(c) <=> \A p \in 1..(m + k) - 1 : Fits(c, p)
    BY <1>1, <1>3
  <2> QED
    BY <1>6, <1>7, <1>8, <1>10, <2>1, Zenon
<1>12. Where!Adjacent(c) <=>
         /\ Where!Adjacent(a) /\ Where!Adjacent(b)
         /\ a[m] \in Where!Ends <=> b[1] \notin Where!Begins
  BY <1>3, <1>11, Zenon DEF m, k
<1> QED
  BY <1>1, <1>4, <1>5, <1>12, Zenon DEF c, m, k

(* Short texts have no joint.                                              *)
LEMMA AdjacentShort ==
  /\ Where!Adjacent(<<>>)
  /\ \A t : Where!Adjacent(<<t>>)
BY DEF Where!Adjacent

(* A group fits together exactly when it has operands inside.              *)
LEMMA OperandsOfGroup ==
  ASSUME NEW inner \in Seq(Where!Tokens)
  PROVE  LET b == (<<"(">> \o inner) \o <<")">>
         IN  /\ b \in Seq(Where!Tokens) /\ b # <<>>
             /\ b[1] = "(" /\ b[Len(b)] = ")"
             /\ Where!Adjacent(b) <=> Where!Operands(inner)
<1> DEFINE o == <<"(">>
           e == <<")">>
           a == o \o inner
           b == a \o e
<1>1. /\ o \in Seq(Where!Tokens) /\ o # <<>> /\ o[1] = "(" /\ o[Len(o)] = "("
      /\ e \in Seq(Where!Tokens) /\ e # <<>> /\ e[1] = ")" /\ e[Len(e)] = ")"
  BY DEF Where!Tokens
<1>2. Where!Adjacent(o) /\ Where!Adjacent(e)
  BY AdjacentShort
<1>3. /\ "(" \in Where!Begins /\ "(" \notin Where!Ends
      /\ ")" \in Where!Ends /\ ")" \notin Where!Begins
  BY DEF Where!Begins, Where!Ends
<1> HIDE DEF o, e
<1>4. CASE inner = <<>>
  <2>1. a = o
    BY <1>1, <1>4, ConcatEmptySeq
  <2> HIDE DEF a
  <2>2. /\ b \in Seq(Where!Tokens) /\ b # <<>> /\ b[1] = a[1] /\ b[Len(b)] = e[Len(e)]
        /\ ~Where!Adjacent(b)
    BY <1>1, <1>2, <1>3, <2>1, AdjacentConcat
  <2>3. ~Where!Operands(inner)
    BY <1>4 DEF Where!Operands
  <2> QED
    BY <1>1, <2>1, <2>2, <2>3 DEF a, o, e
<1>5. CASE inner # <<>>
  <2>1. /\ a \in Seq(Where!Tokens) /\ a # <<>>
        /\ a[1] = o[1] /\ a[Len(a)] = inner[Len(inner)]
        /\ Where!Adjacent(a) <=> Where!Adjacent(inner) /\ inner[1] \in Where!Begins
    BY <1>1, <1>2, <1>3, <1>5, AdjacentConcat
  <2> HIDE DEF a
  <2>2. /\ b \in Seq(Where!Tokens) /\ b # <<>> /\ b[1] = a[1] /\ b[Len(b)] = e[Len(e)]
        /\ Where!Adjacent(b) <=> Where!Adjacent(a) /\ a[Len(a)] \in Where!Ends
    BY <1>1, <1>2, <1>3, <2>1, AdjacentConcat
  <2>3. Where!Adjacent(b) <=> Where!Operands(inner)
    BY <1>5, <2>1, <2>2 DEF Where!Operands
  <2> QED
    BY <1>1, <2>1, <2>2, <2>3 DEF a, o, e
<1> QED
  BY <1>4, <1>5

(* The tokens of a kind, counted one by one,                               *)
LEMMA CountSteps ==
  ASSUME NEW x \in Seq(Where!Tokens), NEW t
  PROVE  /\ Where!Count(x, t, 0) = 0
         /\ \A p \in 0..Len(x) : Where!Count(x, t, p) \in Nat
         /\ \A p \in 0..Len(x) - 1 : Where!Count(x, t, p + 1) =
              IF x[p + 1] = t THEN Where!Count(x, t, p) + 1 ELSE Where!Count(x, t, p)
<1> DEFINE C(p) == {i \in 1..p : x[i] = t}
<1>1. \A p : Where!Count(x, t, p) = Cardinality(C(p))
  BY DEF Where!Count, Where!Cardinality, Cardinality
<1>2. C(0) = {}
  OBVIOUS
<1>3. \A p \in Nat : IsFiniteSet(C(p))
  <2> SUFFICES ASSUME NEW p \in Nat PROVE IsFiniteSet(C(p))
    OBVIOUS
  <2>1. IsFiniteSet(1..p) /\ C(p) \subseteq 1..p
    BY FS_Interval
  <2> HIDE DEF C
  <2> QED
    BY <2>1, FS_Subset
<1>4. \A p \in Nat : /\ p + 1 \notin C(p)
                     /\ C(p + 1) = IF x[p + 1] = t THEN C(p) \cup {p + 1} ELSE C(p)
  OBVIOUS
<1> HIDE DEF C
<1>5. \A p \in Nat : /\ Cardinality(C(p)) \in Nat
                     /\ Cardinality(C(p) \cup {p + 1}) = Cardinality(C(p)) + 1
  BY <1>3, <1>4, FS_CardinalityType, FS_AddElement
<1>6. Cardinality(C(0)) = 0
  BY <1>2, FS_EmptySet
<1>7. Len(x) \in Nat
  OBVIOUS
<1>8. ASSUME NEW p \in 0..Len(x) - 1
      PROVE  Where!Count(x, t, p + 1) =
               IF x[p + 1] = t THEN Where!Count(x, t, p) + 1 ELSE Where!Count(x, t, p)
  <2>1. p \in Nat
    OBVIOUS
  <2>2. Cardinality(C(p + 1)) =
          IF x[p + 1] = t THEN Cardinality(C(p)) + 1 ELSE Cardinality(C(p))
    BY <1>4, <1>5, <2>1
  <2> QED
    BY <1>1, <2>2, Zenon
<1>9. ASSUME NEW p \in 0..Len(x) PROVE Where!Count(x, t, p) \in Nat
  <2>1. p \in Nat
    OBVIOUS
  <2> QED
    BY <1>1, <1>5, <2>1, Zenon
<1> QED
  BY <1>1, <1>6, <1>8, <1>9

(* The count of a token in x starts at nothing and follows the text.       *)
Counting(x, t) ==
  /\ Where!Count(x, t, 0) = 0
  /\ \A p \in 0..Len(x) : Where!Count(x, t, p) \in Nat
  /\ \A p \in 0..Len(x) - 1 : Where!Count(x, t, p + 1) =
       IF x[p + 1] = t THEN Where!Count(x, t, p) + 1 ELSE Where!Count(x, t, p)

(* so it does in every text                                                *)
LEMMA CountsFollow ==
  ASSUME NEW x \in Seq(Where!Tokens), NEW t
  PROVE  Counting(x, t)
BY CountSteps DEF Counting

(* over two texts                                                          *)
LEMMA CountConcat ==
  ASSUME NEW a \in Seq(Where!Tokens), NEW b \in Seq(Where!Tokens), NEW t
  PROVE  /\ \A p \in 0..Len(a) : Where!Count(a \o b, t, p) = Where!Count(a, t, p)
         /\ \A p \in 0..Len(b) :
              Where!Count(a \o b, t, Len(a) + p) = Where!Count(a, t, Len(a)) + Where!Count(b, t, p)
<1> DEFINE c == a \o b
           m == Len(a)
           k == Len(b)
           A(p) == Where!Count(a, t, p)
           B(p) == Where!Count(b, t, p)
           C(p) == Where!Count(c, t, p)
<1>1. /\ c \in Seq(Where!Tokens) /\ Len(c) = m + k /\ m \in Nat /\ k \in Nat
      /\ \A i \in 1..m + k : c[i] = IF i <= m THEN a[i] ELSE b[i - m]
  BY ConcatProperties
<1> HIDE DEF c, m, k
<1>2. /\ A(0) = 0 /\ B(0) = 0 /\ C(0) = 0
      /\ \A p \in 0..m : A(p) \in Nat
      /\ \A p \in 0..k : B(p) \in Nat
      /\ \A p \in 0..m - 1 : A(p + 1) = IF a[p + 1] = t THEN A(p) + 1 ELSE A(p)
      /\ \A p \in 0..k - 1 : B(p + 1) = IF b[p + 1] = t THEN B(p) + 1 ELSE B(p)
      /\ \A p \in 0..(m + k) - 1 : C(p + 1) = IF c[p + 1] = t THEN C(p) + 1 ELSE C(p)
  <2>1. /\ A(0) = 0
        /\ \A p \in 0..m : A(p) \in Nat
        /\ \A p \in 0..m - 1 : A(p + 1) = IF a[p + 1] = t THEN A(p) + 1 ELSE A(p)
    <3>1. Counting(a, t)
      BY CountsFollow
    <3> QED
      BY <3>1 DEF Counting, m
  <2>2. /\ B(0) = 0
        /\ \A p \in 0..k : B(p) \in Nat
        /\ \A p \in 0..k - 1 : B(p + 1) = IF b[p + 1] = t THEN B(p) + 1 ELSE B(p)
    <3>1. Counting(b, t)
      BY CountsFollow
    <3> QED
      BY <3>1 DEF Counting, k
  <2>3. /\ C(0) = 0
        /\ \A p \in 0..Len(c) - 1 : C(p + 1) = IF c[p + 1] = t THEN C(p) + 1 ELSE C(p)
    <3>1. c \in Seq(Where!Tokens)
      BY <1>1
    <3>2. Counting(c, t)
      BY <3>1, CountsFollow
    <3> QED
      BY <3>2 DEF Counting
  <2> QED
    BY <1>1, <2>1, <2>2, <2>3
<1> HIDE DEF A, B, C
<1> DEFINE P == {p \in Nat : p <= m => C(p) = A(p)}
           Q == {p \in Nat : p <= k => C(m + p) = A(m) + B(p)}
<1>3. 0 \in P
  BY <1>2
<1>4. ASSUME NEW p \in Nat, p \in P PROVE p + 1 \in P
  <2> SUFFICES ASSUME p + 1 <= m PROVE C(p + 1) = A(p + 1)
    OBVIOUS
  <2>1. C(p) = A(p) /\ p \in 0..m - 1 /\ p \in 0..(m + k) - 1
    BY <1>1, <1>4
  <2>2. p + 1 \in 1..m + k /\ p + 1 <= m
    BY <1>1
  <2>3. c[p + 1] = a[p + 1]
    BY <1>1, <2>2
  <2> QED
    BY <1>2, <2>1, <2>3
<1> HIDE DEF P
<1>5. \A p \in 0..m : p \in P
  BY <1>3, <1>4, SetInduction
<1>6. \A p \in 0..m : C(p) = A(p)
  BY <1>5 DEF P
<1>7. 0 \in Q
  BY <1>1, <1>2, <1>6
<1>8. ASSUME NEW p \in Nat, p \in Q PROVE p + 1 \in Q
  <2> SUFFICES ASSUME p + 1 <= k PROVE C(m + (p + 1)) = A(m) + B(p + 1)
    OBVIOUS
  <2>1. C(m + p) = A(m) + B(p) /\ p \in 0..k - 1 /\ p \in 0..k
    BY <1>1, <1>8
  <2>2. /\ m + p \in 0..(m + k) - 1 /\ m + (p + 1) = (m + p) + 1
        /\ (m + p) + 1 \in 1..m + k /\ ~((m + p) + 1 <= m) /\ ((m + p) + 1) - m = p + 1
        /\ m \in 0..m
    BY <1>1, <2>1
  <2>3. c[(m + p) + 1] = b[p + 1]
    <3> DEFINE i == (m + p) + 1
    <3>1. i \in 1..m + k /\ ~(i <= m) /\ i - m = p + 1
      BY <2>2
    <3> HIDE DEF i
    <3>2. c[i] = b[i - m]
      BY <1>1, <3>1
    <3> QED
      BY <3>1, <3>2 DEF i
  <2>4. C((m + p) + 1) = IF b[p + 1] = t THEN C(m + p) + 1 ELSE C(m + p)
    BY <1>2, <2>2, <2>3
  <2>5. B(p + 1) = IF b[p + 1] = t THEN B(p) + 1 ELSE B(p)
    BY <1>2, <2>1
  <2>6. A(m) \in Nat /\ B(p) \in Nat
    BY <1>2, <2>1, <2>2
  <2> QED
    BY <2>1, <2>2, <2>4, <2>5, <2>6
<1> HIDE DEF Q
<1>9. \A p \in 0..k : p \in Q
  BY <1>7, <1>8, SetInduction
<1>10. \A p \in 0..k : C(m + p) = A(m) + B(p)
  BY <1>9 DEF Q
<1> QED
  BY <1>6, <1>10 DEF A, B, C, c, m, k

(* and over a single token.                                                *)
LEMMA CountOne ==
  ASSUME NEW t \in Where!Tokens, NEW what
  PROVE  Where!Count(<<t>>, what, 1) = IF t = what THEN 1 ELSE 0
<1> DEFINE x == <<t>>
<1>1. x \in Seq(Where!Tokens) /\ Len(x) = 1 /\ x[1] = t
  OBVIOUS
<1> HIDE DEF x
<1>2. Where!Count(x, what, 0) = 0 /\ 0 \in 0..Len(x) - 1
  BY <1>1, CountSteps
<1>3. Where!Count(x, what, 0 + 1) =
        IF x[0 + 1] = what THEN Where!Count(x, what, 0) + 1 ELSE Where!Count(x, what, 0)
  BY <1>1, <1>2, CountSteps
<1> QED
  BY <1>1, <1>2, <1>3 DEF x

(* Parentheses are balanced in two texts that balance each,                *)
LEMMA BalancedConcat ==
  ASSUME NEW a \in Seq(Where!Tokens), NEW b \in Seq(Where!Tokens),
         Where!Balanced(a), Where!Balanced(b)
  PROVE  Where!Balanced(a \o b)
<1> DEFINE c == a \o b
           m == Len(a)
           k == Len(b)
           Opened(x, p) == Where!Count(x, "(", p)
           Closed(x, p) == Where!Count(x, ")", p)
<1>1. c \in Seq(Where!Tokens) /\ Len(c) = m + k /\ m \in Nat /\ k \in Nat
  BY ConcatProperties
<1>2. \A x : Where!Balanced(x) <=>
               /\ \A p \in 0..Len(x) : Closed(x, p) <= Opened(x, p)
               /\ Closed(x, Len(x)) = Opened(x, Len(x))
  BY DEF Where!Balanced
<1>3. /\ \A p \in 0..m : Opened(a, p) \in Nat /\ Closed(a, p) \in Nat
      /\ \A p \in 0..k : Opened(b, p) \in Nat /\ Closed(b, p) \in Nat
  BY CountSteps
<1>4. /\ \A p \in 0..m : Opened(c, p) = Opened(a, p) /\ Closed(c, p) = Closed(a, p)
      /\ \A p \in 0..k : /\ Opened(c, m + p) = Opened(a, m) + Opened(b, p)
                         /\ Closed(c, m + p) = Closed(a, m) + Closed(b, p)
  BY CountConcat
<1> HIDE DEF c, m, k, Opened, Closed
<1>5. /\ \A p \in 0..m : Closed(a, p) <= Opened(a, p)
      /\ Closed(a, m) = Opened(a, m)
      /\ \A p \in 0..k : Closed(b, p) <= Opened(b, p)
      /\ Closed(b, k) = Opened(b, k)
  BY <1>2 DEF m, k
<1>6. ASSUME NEW p \in 0..m + k PROVE Closed(c, p) <= Opened(c, p)
  <2>1. CASE p <= m
    <3>1. p \in 0..m
      BY <1>1, <2>1
    <3> QED
      BY <1>4, <1>5, <3>1
  <2>2. CASE ~(p <= m)
    <3>1. p - m \in 0..k /\ p = m + (p - m) /\ m \in 0..m
      BY <1>1, <2>2
    <3> DEFINE r == p - m
    <3> HIDE DEF r
    <3>2. r \in 0..k /\ p = m + r
      BY <3>1 DEF r
    <3> QED
      BY <1>3, <1>4, <1>5, <3>1, <3>2
  <2> QED
    BY <2>1, <2>2
<1>7. Closed(c, m + k) = Opened(c, m + k)
  BY <1>1, <1>4, <1>5
<1>8. Where!Balanced(c)
  BY <1>1, <1>2, <1>6, <1>7
<1> QED
  BY <1>8 DEF c

(* in a text without any,                                                  *)
LEMMA BalancedShort ==
  /\ Where!Balanced(<<>>)
  /\ Where!Balanced(<<"condition">>)
  /\ Where!Balanced(<<"lo">>)
<1>1. ASSUME NEW x \in Seq(Where!Tokens), Len(x) \in {0, 1},
             \A i \in 1..Len(x) : x[i] \notin {"(", ")"}
      PROVE  Where!Balanced(x)
  <2>1. \A p \in 0..Len(x) : Where!Count(x, "(", p) = 0 /\ Where!Count(x, ")", p) = 0
    <3> SUFFICES ASSUME NEW p \in 0..Len(x)
                 PROVE  Where!Count(x, "(", p) = 0 /\ Where!Count(x, ")", p) = 0
      OBVIOUS
    <3>1. {i \in 1..p : x[i] = "("} = {} /\ {i \in 1..p : x[i] = ")"} = {}
      BY <1>1
    <3> QED
      BY <3>1, FS_EmptySet DEF Where!Count, Where!Cardinality, Cardinality
  <2>2. Len(x) \in 0..Len(x)
    OBVIOUS
  <2> QED
    BY <2>1, <2>2 DEF Where!Balanced
<1>2. ASSUME NEW t \in Where!Tokens, t \notin {"(", ")"} PROVE Where!Balanced(<<t>>)
  <2>1. /\ <<t>> \in Seq(Where!Tokens) /\ Len(<<t>>) \in {0, 1}
        /\ \A i \in 1..Len(<<t>>) : <<t>>[i] = t
    OBVIOUS
  <2> QED
    BY <1>1, <1>2, <2>1
<1>3. Where!Balanced(<<>>)
  <2>1. <<>> \in Seq(Where!Tokens) /\ Len(<<>>) \in {0, 1} /\ \A i \in 1..Len(<<>>) : FALSE
    OBVIOUS
  <2> QED
    BY <1>1, <2>1
<1>4. "condition" \in Where!Tokens \ {"(", ")"} /\ "lo" \in Where!Tokens \ {"(", ")"}
  BY DEF Where!Tokens
<1>5. Where!Balanced(<<"condition">>) /\ Where!Balanced(<<"lo">>)
  BY <1>2, <1>4
<1> QED
  BY <1>3, <1>5

(* and in a group.                                                         *)
LEMMA BalancedGroup ==
  ASSUME NEW inner \in Seq(Where!Tokens), Where!Balanced(inner)
  PROVE  Where!Balanced((<<"(">> \o inner) \o <<")">>)
<1> DEFINE o == <<"(">>
           e == <<")">>
           a == o \o inner
           b == a \o e
           k == Len(inner)
           Opened(x, p) == Where!Count(x, "(", p)
           Closed(x, p) == Where!Count(x, ")", p)
<1>1. o \in Seq(Where!Tokens) /\ Len(o) = 1 /\ e \in Seq(Where!Tokens) /\ Len(e) = 1 /\ k \in Nat
  BY DEF Where!Tokens
<1>2. \A x : Where!Balanced(x) <=>
               /\ \A p \in 0..Len(x) : Closed(x, p) <= Opened(x, p)
               /\ Closed(x, Len(x)) = Opened(x, Len(x))
  BY DEF Where!Balanced
<1>3. /\ Opened(o, 0) = 0 /\ Closed(o, 0) = 0 /\ Opened(o, 1) = 1 /\ Closed(o, 1) = 0
      /\ Opened(e, 0) = 0 /\ Closed(e, 0) = 0 /\ Opened(e, 1) = 0 /\ Closed(e, 1) = 1
  <2>1. "(" \in Where!Tokens /\ ")" \in Where!Tokens /\ "(" # ")"
    BY DEF Where!Tokens
  <2> QED
    BY <1>1, <2>1, CountSteps, CountOne
<1> HIDE DEF o, e
<1>4. a \in Seq(Where!Tokens) /\ Len(a) = k + 1
  <2>1. a \in Seq(Where!Tokens) /\ Len(a) = Len(o) + Len(inner)
    BY <1>1, ConcatProperties
  <2> QED
    BY <1>1, <2>1
<1>5. /\ \A p \in 0..1 : Opened(a, p) = Opened(o, p) /\ Closed(a, p) = Closed(o, p)
      /\ \A p \in 0..k : /\ Opened(a, 1 + p) = Opened(o, 1) + Opened(inner, p)
                         /\ Closed(a, 1 + p) = Closed(o, 1) + Closed(inner, p)
  <2>1. \A t : /\ \A p \in 0..Len(o) : Where!Count(a, t, p) = Where!Count(o, t, p)
               /\ \A p \in 0..Len(inner) :
                    Where!Count(a, t, Len(o) + p) =
                      Where!Count(o, t, Len(o)) + Where!Count(inner, t, p)
    BY <1>1, CountConcat
  <2>2. /\ \A p \in 0..Len(o) : Opened(a, p) = Opened(o, p) /\ Closed(a, p) = Closed(o, p)
        /\ \A p \in 0..k : /\ Opened(a, Len(o) + p) = Opened(o, Len(o)) + Opened(inner, p)
                           /\ Closed(a, Len(o) + p) = Closed(o, Len(o)) + Closed(inner, p)
    BY <2>1
  <2> HIDE DEF a, k, Opened, Closed
  <2> QED
    BY <1>1, <2>2
<1> HIDE DEF a
<1>6. b \in Seq(Where!Tokens) /\ Len(b) = k + 2
  <2>1. b \in Seq(Where!Tokens) /\ Len(b) = Len(a) + Len(e)
    BY <1>1, <1>4, ConcatProperties
  <2> HIDE DEF b, k
  <2> QED
    BY <1>1, <1>4, <2>1
<1>7. /\ \A p \in 0..k + 1 : Opened(b, p) = Opened(a, p) /\ Closed(b, p) = Closed(a, p)
      /\ \A p \in 0..1 : /\ Opened(b, (k + 1) + p) = Opened(a, k + 1) + Opened(e, p)
                         /\ Closed(b, (k + 1) + p) = Closed(a, k + 1) + Closed(e, p)
  <2>1. \A t : /\ \A p \in 0..Len(a) : Where!Count(b, t, p) = Where!Count(a, t, p)
               /\ \A p \in 0..Len(e) :
                    Where!Count(b, t, Len(a) + p) = Where!Count(a, t, Len(a)) + Where!Count(e, t, p)
    BY <1>1, <1>4, CountConcat
  <2>2. /\ \A p \in 0..Len(a) : Opened(b, p) = Opened(a, p) /\ Closed(b, p) = Closed(a, p)
        /\ \A p \in 0..Len(e) : /\ Opened(b, Len(a) + p) = Opened(a, Len(a)) + Opened(e, p)
                                /\ Closed(b, Len(a) + p) = Closed(a, Len(a)) + Closed(e, p)
    BY <2>1
  <2> HIDE DEF b, k, Opened, Closed
  <2> QED
    BY <1>1, <1>4, <2>2
<1>8. \A p \in 0..k : Opened(inner, p) \in Nat /\ Closed(inner, p) \in Nat
  BY CountSteps
<1> HIDE DEF b, Opened, Closed
<1>9. /\ \A p \in 0..k : Closed(inner, p) <= Opened(inner, p)
      /\ Closed(inner, k) = Opened(inner, k)
  BY <1>2
<1> HIDE DEF k
<1>10. \A p \in 0..k : Opened(a, 1 + p) = 1 + Opened(inner, p) /\ Closed(a, 1 + p) = Closed(inner, p)
  BY <1>3, <1>5, <1>8
<1>11. Opened(a, 0) = 0 /\ Closed(a, 0) = 0
  BY <1>3, <1>5
<1>12. ASSUME NEW p \in 0..k + 2 PROVE Closed(b, p) <= Opened(b, p)
  <2>1. CASE p = 0
    BY <1>1, <1>7, <1>11, <2>1
  <2>2. CASE p \in 1..k + 1
    <3> DEFINE r == p - 1
    <3>1. r \in 0..k /\ p = 1 + r /\ p \in 0..k + 1
      BY <1>1, <2>2
    <3> HIDE DEF r
    <3> QED
      BY <1>7, <1>8, <1>9, <1>10, <3>1
  <2>3. CASE p = k + 2
    <3>1. k \in 0..k /\ k + 1 = 1 + k /\ p = (k + 1) + 1
      BY <1>1, <2>3
    <3> QED
      BY <1>3, <1>7, <1>8, <1>9, <1>10, <3>1
  <2> QED
    BY <1>1, <2>1, <2>2, <2>3
<1>13. Closed(b, k + 2) = Opened(b, k + 2)
  <2>1. k \in 0..k /\ k + 1 = 1 + k /\ k + 2 = (k + 1) + 1
    BY <1>1
  <2> QED
    BY <1>3, <1>7, <1>8, <1>9, <1>10, <2>1
<1>14. Where!Balanced(b)
  BY <1>2, <1>6, <1>12, <1>13
<1> QED
  BY <1>14 DEF a, b, o, e

-----------------------------------------------------------------------------
(* The text of a list                                                      *)

(* There is one way to flatten,                                            *)
LEMMA SameFlatten == \A f : Where!FlattenSeq(f) = Scan!FlattenSeq(f)
BY DEF Where!FlattenSeq, Scan!FlattenSeq

(* and nothing to flatten gives nothing.                                   *)
LEMMA FlattenNone == \A w : Scan!FlattenSeq([i \in 1..0 |-> w[i]]) = <<>>
<1> SUFFICES ASSUME NEW w PROVE Scan!FlattenSeq([i \in 1..0 |-> w[i]]) = <<>>
  OBVIOUS
<1>1. [i \in 1..0 |-> w[i]] = <<>>
  OBVIOUS
<1> QED
  BY <1>1 DEF Scan!FlattenSeq

(* The conditions of a text.                                               *)
Total(x) == Where!Count(x, "condition", Len(x))

(* Those of two texts,                                                     *)
LEMMA TotalConcat ==
  ASSUME NEW a \in Seq(Where!Tokens), NEW b \in Seq(Where!Tokens)
  PROVE  /\ Total(a) \in Nat /\ Total(b) \in Nat
         /\ Total(a \o b) = Total(a) + Total(b)
<1>1. /\ a \o b \in Seq(Where!Tokens) /\ Len(a \o b) = Len(a) + Len(b)
      /\ Len(a) \in Nat /\ Len(b) \in Nat
  BY ConcatProperties
<1>2. Where!Count(a \o b, "condition", Len(a) + Len(b)) =
        Where!Count(a, "condition", Len(a)) + Where!Count(b, "condition", Len(b))
  <2>1. Len(b) \in 0..Len(b)
    BY <1>1
  <2> QED
    BY <2>1, CountConcat
<1>3. Len(a) \in 0..Len(a) /\ Len(b) \in 0..Len(b)
  BY <1>1
<1>4. Total(a) \in Nat /\ Total(b) \in Nat
  BY <1>3, CountSteps DEF Total
<1> QED
  BY <1>1, <1>2, <1>4, Zenon DEF Total

(* of none and of a single token.                                          *)
LEMMA TotalOne ==
  /\ Total(<<>>) = 0
  /\ \A t \in Where!Tokens : Total(<<t>>) = IF t = "condition" THEN 1 ELSE 0
<1>1. Total(<<>>) = 0
  <2>1. <<>> \in Seq(Where!Tokens) /\ Len(<<>>) = 0
    OBVIOUS
  <2>2. Where!Count(<<>>, "condition", 0) = 0
    BY <2>1, CountSteps
  <2> QED
    BY <2>1, <2>2 DEF Total
<1>2. ASSUME NEW t \in Where!Tokens PROVE Total(<<t>>) = IF t = "condition" THEN 1 ELSE 0
  <2>1. Len(<<t>>) = 1
    OBVIOUS
  <2>2. Where!Count(<<t>>, "condition", 1) = IF t = "condition" THEN 1 ELSE 0
    BY CountOne
  <2> QED
    BY <2>1, <2>2, Zenon DEF Total
<1> QED
  BY <1>1, <1>2

RuleTags == {"none", "rule"}   \* of conditions

(* A list balances when its entries do, and its conditions are theirs.     *)
LEMMA JoinedBalance ==
  ASSUME NEW len \in Nat, NEW w, NEW v,
         \A i \in 1..len : /\ w[i] \in Seq(Where!Tokens) /\ Where!Balanced(w[i])
                           /\ v[i] \in Seq(RuleTags) /\ Total(w[i]) = Len(v[i])
  PROVE  /\ Scan!FlattenSeq([i \in 1..len |-> w[i]]) \in Seq(Where!Tokens)
         /\ Where!Balanced(Scan!FlattenSeq([i \in 1..len |-> w[i]]))
         /\ Scan!FlattenSeq([i \in 1..len |-> v[i]]) \in Seq(RuleTags)
         /\ Total(Scan!FlattenSeq([i \in 1..len |-> w[i]])) =
              Len(Scan!FlattenSeq([i \in 1..len |-> v[i]]))
<1> DEFINE T(k) == Scan!FlattenSeq([i \in 1..k |-> w[i]])
           A(k) == Scan!FlattenSeq([i \in 1..k |-> v[i]])
           Good(x, y) == /\ x \in Seq(Where!Tokens) /\ Where!Balanced(x)
                         /\ y \in Seq(RuleTags) /\ Total(x) = Len(y)
           P == {k \in Nat : k <= len => Good(T(k), A(k))}
<1>1. T(0) = <<>> /\ A(0) = <<>>
  BY FlattenNone
<1>2. ASSUME NEW k \in Nat, k + 1 <= len
      PROVE  T(k + 1) = T(k) \o w[k + 1] /\ A(k + 1) = A(k) \o v[k + 1]
  <2>1. \A i \in 1..k + 1 : w[i] \in Seq(Where!Tokens) /\ v[i] \in Seq(RuleTags)
    BY <1>2
  <2>2. T(k + 1) = T(k) \o w[k + 1]
    BY <2>1, FlattenAppend
  <2>3. A(k + 1) = A(k) \o v[k + 1]
    BY <2>1, FlattenAppend
  <2> QED
    BY <2>2, <2>3
<1> HIDE DEF T, A
<1>3. 0 \in P
  <2>1. <<>> \in Seq(Where!Tokens) /\ <<>> \in Seq(RuleTags) /\ Len(<<>>) = 0
    OBVIOUS
  <2>2. Good(T(0), A(0))
    BY <1>1, <2>1, BalancedShort, TotalOne
  <2> HIDE DEF Good
  <2> QED
    BY <2>2
<1>4. ASSUME NEW k \in Nat, k \in P PROVE k + 1 \in P
  <2> SUFFICES ASSUME k + 1 <= len PROVE Good(T(k + 1), A(k + 1))
    <3> HIDE DEF Good
    <3> QED
      OBVIOUS
  <2>1. Good(T(k), A(k))
    <3> HIDE DEF Good
    <3> QED
      BY <1>4
  <2> DEFINE x == T(k)
             y == A(k)
             p == w[k + 1]
             r == v[k + 1]
  <2>2. Good(p, r)
    OBVIOUS
  <2>3. T(k + 1) = x \o p /\ A(k + 1) = y \o r
    BY <1>2
  <2>4. Good(x, y)
    BY <2>1
  <2> HIDE DEF x, y, p, r
  <2>5. x \o p \in Seq(Where!Tokens) /\ y \o r \in Seq(RuleTags) /\ Len(y \o r) = Len(y) + Len(r)
    BY <2>2, <2>4, ConcatProperties
  <2>6. Where!Balanced(x \o p)
    BY <2>2, <2>4, BalancedConcat
  <2>7. Total(x \o p) = Total(x) + Total(p)
    BY <2>2, <2>4, TotalConcat
  <2>8. Good(x \o p, y \o r)
    BY <2>2, <2>4, <2>5, <2>6, <2>7
  <2> HIDE DEF Good
  <2> QED
    BY <2>3, <2>8, Zenon
<1> HIDE DEF P
<1>5. len \in P
  BY <1>3, <1>4, SetInduction
<1> HIDE DEF Good
<1>6. Good(T(len), A(len))
  BY <1>5 DEF P
<1> QED
  BY <1>6 DEF Good, T, A

(* What entry i prints before lo: an operand when its own list is fine.    *)
Piece(c, i, Fine) ==
  /\ c \in Seq(Where!Tokens) /\ c # <<>>
  /\ c[1] \in Where!Begins /\ c[Len(c)] \in Where!Ends
  /\ Where!Adjacent(c) <=> i \in Fine

(* A list is made of operands exactly when the last entry prints one and all *)
(* entries' own lists are fine: the others end in lo, behind which one begins. *)
LEMMA JoinedOperands ==
  ASSUME NEW len \in Nat, len # 0, NEW w, NEW Known \in SUBSET (1..len), NEW Fine,
         \A i \in Known : \E c : Piece(c, i, Fine) /\ w[i] = c \o Where!Lo(i, len),
         \A i \in (1..len) \ Known : w[i] = <<>>
  PROVE  Where!Operands(Scan!FlattenSeq([i \in 1..len |-> w[i]]))
         <=> len \in Known /\ Known \subseteq Fine
<1> DEFINE b == [i \in Known |-> CHOOSE c : Piece(c, i, Fine) /\ w[i] = c \o Where!Lo(i, len)]
<1>0. /\ \A i \in Known : Piece(b[i], i, Fine) /\ w[i] = b[i] \o Where!Lo(i, len)
      /\ \A i \in 1..len : i \notin Known => w[i] = <<>>
  <2>1. ASSUME NEW i \in Known PROVE Piece(b[i], i, Fine) /\ w[i] = b[i] \o Where!Lo(i, len)
    <3>1. b[i] = CHOOSE c : Piece(c, i, Fine) /\ w[i] = c \o Where!Lo(i, len)
      OBVIOUS
    <3>2. \E c : Piece(c, i, Fine) /\ w[i] = c \o Where!Lo(i, len)
      OBVIOUS
    <3> QED
      BY <3>1, <3>2, Zenon
  <2> QED
    BY <2>1
<1> HIDE DEF b
<1> DEFINE T(k) == Scan!FlattenSeq([i \in 1..k |-> w[i]])
           lo == <<"lo">>
           Begun(x) == x # <<>> => x[1] \in Where!Begins /\ x[Len(x)] = "lo"
           Good(k) == /\ T(k) \in Seq(Where!Tokens) /\ Begun(T(k))
                      /\ Where!Adjacent(T(k)) <=> \A i \in Known : i <= k => i \in Fine
           P == {k \in Nat : k < len => Good(k)}
<1>1. /\ lo \in Seq(Where!Tokens) /\ lo # <<>> /\ lo[1] = "lo" /\ lo[Len(lo)] = "lo"
      /\ Where!Adjacent(lo) /\ "lo" \notin Where!Begins /\ "lo" \notin Where!Ends
  <2>1. lo \in Seq(Where!Tokens) /\ lo # <<>> /\ lo[1] = "lo" /\ lo[Len(lo)] = "lo"
    BY DEF Where!Tokens
  <2>2. "lo" \notin Where!Begins /\ "lo" \notin Where!Ends
    BY DEF Where!Begins, Where!Ends
  <2> QED
    BY <2>1, <2>2, AdjacentShort
<1>2. \A i \in 1..len : Where!Lo(i, len) = IF i = len THEN <<>> ELSE lo
  BY DEF Where!Lo
<1> HIDE DEF lo
<1>3. ASSUME NEW i \in Known, i # len
      PROVE  /\ w[i] = b[i] \o lo /\ w[i] \in Seq(Where!Tokens) /\ w[i] # <<>>
             /\ w[i][1] \in Where!Begins /\ w[i][Len(w[i])] = "lo"
             /\ Where!Adjacent(w[i]) <=> i \in Fine
  <2>1. w[i] = b[i] \o lo
    BY <1>0, <1>2, <1>3
  <2> DEFINE c == b[i]
  <2>2. /\ c \in Seq(Where!Tokens) /\ c # <<>>
        /\ c[1] \in Where!Begins /\ c[Len(c)] \in Where!Ends
        /\ Where!Adjacent(c) <=> i \in Fine
    BY <1>0 DEF Piece
  <2>3. w[i] = c \o lo
    BY <2>1
  <2> HIDE DEF c
  <2>4. /\ c \o lo \in Seq(Where!Tokens) /\ c \o lo # <<>>
        /\ (c \o lo)[1] = c[1] /\ (c \o lo)[Len(c \o lo)] = lo[Len(lo)]
        /\ Where!Adjacent(c \o lo) <=>
             /\ Where!Adjacent(c) /\ Where!Adjacent(lo)
             /\ c[Len(c)] \in Where!Ends <=> lo[1] \notin Where!Begins
    BY <1>1, <2>2, AdjacentConcat, Zenon
  <2>5. Where!Adjacent(c \o lo) <=> i \in Fine
    BY <1>1, <2>2, <2>4, Zenon
  <2>6. /\ c \o lo \in Seq(Where!Tokens) /\ c \o lo # <<>>
        /\ (c \o lo)[1] \in Where!Begins /\ (c \o lo)[Len(c \o lo)] = "lo"
    BY <1>1, <2>2, <2>4, Zenon
  <2> QED
    BY <2>1, <2>3, <2>5, <2>6, Zenon
<1>4. \A i \in 1..len : w[i] \in Seq(Where!Tokens)
  <2> SUFFICES ASSUME NEW i \in 1..len PROVE w[i] \in Seq(Where!Tokens)
    OBVIOUS
  <2>1. <<>> \in Seq(Where!Tokens)
    OBVIOUS
  <2>2. CASE i \notin Known
    BY <1>0, <2>1, <2>2
  <2>3. CASE i \in Known /\ i # len
    BY <1>3, <2>3
  <2>4. CASE i \in Known /\ i = len
    <3>1. w[i] = b[i] \o <<>> /\ b[i] \in Seq(Where!Tokens)
      BY <1>0, <1>2, <2>4 DEF Piece
    <3> QED
      BY <3>1, ConcatEmptySeq
  <2> QED
    BY <2>2, <2>3, <2>4
<1>5. T(0) = <<>>
  BY FlattenNone
<1>6. ASSUME NEW k \in Nat, k + 1 <= len PROVE T(k + 1) = T(k) \o w[k + 1]
  <2>1. \A i \in 1..k + 1 : w[i] \in Seq(Where!Tokens)
    BY <1>4, <1>6
  <2> QED
    BY <2>1, FlattenAppend
<1> HIDE DEF T
<1>7. 0 \in P
  <2>1. Good(0)
    <3>1. \A i \in Known : ~(i <= 0)
      OBVIOUS
    <3>2. <<>> \in Seq(Where!Tokens)
      OBVIOUS
    <3> QED
      BY <1>5, <3>1, <3>2, AdjacentShort
  <2> HIDE DEF Good
  <2> QED
    BY <2>1
<1>8. ASSUME NEW k \in Nat, k \in P PROVE k + 1 \in P
  <2> SUFFICES ASSUME k + 1 < len PROVE Good(k + 1)
    <3> HIDE DEF Good
    <3> QED
      OBVIOUS
  <2>1. Good(k)
    <3> HIDE DEF Good
    <3> QED
      BY <1>8
  <2> DEFINE x == T(k)
             i == k + 1
             c == w[i]
  <2>2. i \in 1..len /\ i # len /\ T(k + 1) = x \o c
    <3>1. k + 1 <= len /\ k + 1 \in 1..len /\ k + 1 # len
      OBVIOUS
    <3>2. T(k + 1) = T(k) \o w[k + 1]
      BY <1>6, <3>1
    <3> QED
      BY <3>1, <3>2
  <2>3. /\ x \in Seq(Where!Tokens) /\ Begun(x)
        /\ Where!Adjacent(x) <=> \A j \in Known : j <= k => j \in Fine
    BY <2>1
  <2>4. \A j \in Known : j <= k + 1 <=> j <= k \/ j = i
    OBVIOUS
  <2>5. CASE i \notin Known
    <3>1. T(k + 1) = x
      BY <1>0, <2>2, <2>3, <2>5, ConcatEmptySeq
    <3>2. \A j \in Known : j <= k + 1 <=> j <= k
      BY <2>4, <2>5
    <3> HIDE DEF x
    <3> QED
      BY <2>3, <3>1, <3>2
  <2>6. CASE i \in Known
    <3>1. /\ c \in Seq(Where!Tokens) /\ c # <<>>
          /\ c[1] \in Where!Begins /\ c[Len(c)] = "lo"
          /\ Where!Adjacent(c) <=> i \in Fine
      BY <1>3, <2>2, <2>6
    <3>2. (\A j \in Known : j <= k + 1 => j \in Fine) <=>
            (\A j \in Known : j <= k => j \in Fine) /\ i \in Fine
      BY <2>4, <2>6
    <3> HIDE DEF x, c, i, Begun
    <3>3. CASE x = <<>>
      <4>1. x \o c = c
        BY <3>1, <3>3, ConcatEmptySeq
      <4>2. Where!Adjacent(x)
        BY <3>3, AdjacentShort
      <4>3. Begun(c)
        BY <3>1 DEF Begun
      <4> QED
        BY <2>2, <2>3, <3>1, <3>2, <4>1, <4>2, <4>3, Zenon
    <3>4. CASE x # <<>>
      <4>1. x[1] \in Where!Begins /\ x[Len(x)] = "lo"
        BY <2>3, <3>4 DEF Begun
      <4>2. /\ x \o c \in Seq(Where!Tokens) /\ x \o c # <<>>
            /\ (x \o c)[1] = x[1] /\ (x \o c)[Len(x \o c)] = c[Len(c)]
            /\ Where!Adjacent(x \o c) <=>
                 /\ Where!Adjacent(x) /\ Where!Adjacent(c)
                 /\ x[Len(x)] \in Where!Ends <=> c[1] \notin Where!Begins
        BY <2>3, <3>1, <3>4, AdjacentConcat, Zenon
      <4>3. Where!Adjacent(x \o c) <=> Where!Adjacent(x) /\ i \in Fine
        BY <1>1, <3>1, <4>1, <4>2, Zenon
      <4>4. Begun(x \o c)
        BY <3>1, <4>1, <4>2, Zenon DEF Begun
      <4> QED
        BY <2>2, <2>3, <3>2, <4>2, <4>3, <4>4, Zenon
    <3> QED
      BY <3>3, <3>4
  <2> QED
    BY <2>5, <2>6
<1> HIDE DEF P
<1>9. len - 1 \in P
  <2>1. Nat \subseteq P
    BY <1>7, <1>8, SetInduction
  <2>2. len - 1 \in Nat
    OBVIOUS
  <2> QED
    BY <2>1, <2>2
<1>10. Good(len - 1)
  <2> HIDE DEF Good
  <2>1. len - 1 < len
    OBVIOUS
  <2> QED
    BY <1>9, <2>1 DEF P
<1> DEFINE x == T(len - 1)
           c == b[len]
<1>11. /\ x \in Seq(Where!Tokens) /\ Begun(x)
       /\ Where!Adjacent(x) <=> \A i \in Known : i <= len - 1 => i \in Fine
  BY <1>10
<1>12. T(len) = x \o w[len]
  <2>1. len - 1 \in Nat /\ (len - 1) + 1 = len /\ len <= len
    OBVIOUS
  <2> QED
    BY <1>6, <2>1
<1>13. ASSUME len \notin Known PROVE Where!Operands(T(len)) <=> len \in Known /\ Known \subseteq Fine
  <2>1. w[len] = <<>>
    BY <1>0, <1>13
  <2>2. T(len) = x
    BY <1>11, <1>12, <2>1, ConcatEmptySeq
  <2> HIDE DEF x
  <2>3. ~Where!Operands(x)
    BY <1>1, <1>11 DEF Where!Operands
  <2> QED
    BY <1>13, <2>2, <2>3
<1>14. ASSUME len \in Known PROVE Where!Operands(T(len)) <=> len \in Known /\ Known \subseteq Fine
  <2>1. /\ c \in Seq(Where!Tokens) /\ c # <<>>
        /\ c[1] \in Where!Begins /\ c[Len(c)] \in Where!Ends
        /\ Where!Adjacent(c) <=> len \in Fine
    BY <1>0, <1>14 DEF Piece
  <2>2. w[len] = c
    <3>1. w[len] = c \o <<>>
      BY <1>0, <1>2, <1>14
    <3> QED
      BY <2>1, <3>1, ConcatEmptySeq
  <2>3. Known \subseteq Fine <=> (\A i \in Known : i <= len - 1 => i \in Fine) /\ len \in Fine
    <3>1. \A i \in 1..len : i <= len - 1 \/ i = len
      OBVIOUS
    <3> QED
      BY <1>14, <3>1
  <2>4. T(len) = x \o c
    BY <1>12, <2>2
  <2> HIDE DEF x, c
  <2>5. Where!Operands(x \o c) <=> Where!Adjacent(x) /\ len \in Fine
    <3>1. CASE x = <<>>
      <4>1. x \o c = c /\ Where!Adjacent(x)
        BY <2>1, <3>1, ConcatEmptySeq, AdjacentShort
      <4> QED
        BY <2>1, <4>1, Zenon DEF Where!Operands
    <3>2. CASE x # <<>>
      <4>1. x[1] \in Where!Begins /\ x[Len(x)] = "lo"
        BY <1>11, <3>2
      <4>2. /\ x \o c \in Seq(Where!Tokens) /\ x \o c # <<>>
            /\ (x \o c)[1] = x[1] /\ (x \o c)[Len(x \o c)] = c[Len(c)]
            /\ Where!Adjacent(x \o c) <=>
                 /\ Where!Adjacent(x) /\ Where!Adjacent(c)
                 /\ x[Len(x)] \in Where!Ends <=> c[1] \notin Where!Begins
        BY <1>11, <2>1, <3>2, AdjacentConcat, Zenon
      <4>3. Where!Adjacent(x \o c) <=> Where!Adjacent(x) /\ len \in Fine
        BY <1>1, <2>1, <4>1, <4>2, Zenon
      <4> QED
        BY <2>1, <4>1, <4>2, <4>3, Zenon DEF Where!Operands
    <3> QED
      BY <3>1, <3>2
  <2> QED
    BY <1>11, <1>14, <2>3, <2>4, <2>5, Zenon
<1> QED
  BY <1>13, <1>14, Zenon DEF T

-----------------------------------------------------------------------------
(* The text of a rule                                                      *)

(* What is shown of each list: its text, whether it is clean, its conditions. *)
GoodText(x, clean, conditions) ==
  /\ x \in Seq(Where!Tokens) /\ Where!Balanced(x)
  /\ Where!Operands(x) <=> clean
  /\ conditions \in Seq(RuleTags) /\ Total(x) = Len(conditions)

(* What a condition and a group print.                                     *)
LEMMA Pieces ==
  ASSUME NEW lo \in {<<>>, <<"lo">>}, NEW x \in Seq(Where!Tokens), Where!Balanced(x)
  PROVE  /\ Where!GenRuleWhere(lo) \in Seq(Where!Tokens) /\ Where!Balanced(Where!GenRuleWhere(lo))
         /\ Total(Where!GenRuleWhere(lo)) = 1
         /\ Where!Group(x, lo) \in Seq(Where!Tokens) /\ Where!Balanced(Where!Group(x, lo))
         /\ Total(Where!Group(x, lo)) = Total(x)
<1>1. /\ "(" \in Where!Tokens /\ ")" \in Where!Tokens
      /\ "lo" \in Where!Tokens /\ "condition" \in Where!Tokens
      /\ "(" # "condition" /\ ")" # "condition" /\ "lo" # "condition"
  BY DEF Where!Tokens
<1> DEFINE c == <<"condition">>
           o == <<"(">>
           e == <<")">>
<1>2. /\ c \in Seq(Where!Tokens) /\ o \in Seq(Where!Tokens) /\ e \in Seq(Where!Tokens)
      /\ Total(c) = 1 /\ Total(o) = 0 /\ Total(e) = 0 /\ Where!Balanced(c)
  BY <1>1, TotalOne, BalancedShort
<1>3. lo \in Seq(Where!Tokens) /\ Total(lo) = 0 /\ Where!Balanced(lo)
  <2>1. CASE lo = <<>>
    <3>1. <<>> \in Seq(Where!Tokens)
      OBVIOUS
    <3> QED
      BY <2>1, <3>1, TotalOne, BalancedShort, Zenon
  <2>2. CASE lo = <<"lo">>
    <3>1. <<"lo">> \in Seq(Where!Tokens)
      BY <1>1
    <3>2. Total(<<"lo">>) = 0
      BY <1>1, TotalOne
    <3> QED
      BY <2>2, <3>1, <3>2, BalancedShort, Zenon
  <2> QED
    BY <2>1, <2>2
<1>4. Where!Balanced((o \o x) \o e)
  BY BalancedGroup
<1>5. Where!GenRuleWhere(lo) = c \o lo /\ Where!Group(x, lo) = ((o \o x) \o e) \o lo
  BY DEF Where!GenRuleWhere, Where!Group
<1> HIDE DEF c, o, e
<1>6. c \o lo \in Seq(Where!Tokens) /\ Where!Balanced(c \o lo) /\ Total(c \o lo) = 1
  <2>1. Total(c \o lo) = Total(c) + Total(lo)
    BY <1>2, <1>3, TotalConcat
  <2>2. Where!Balanced(c \o lo)
    BY <1>2, <1>3, BalancedConcat
  <2>3. c \o lo \in Seq(Where!Tokens)
    BY <1>2, <1>3, ConcatProperties
  <2> QED
    BY <1>2, <1>3, <2>1, <2>2, <2>3
<1> DEFINE a == o \o x
           g == a \o e
<1>7. a \in Seq(Where!Tokens) /\ Total(a) = Total(o) + Total(x) /\ Total(x) \in Nat
  BY <1>2, TotalConcat, ConcatProperties
<1>8. Where!Balanced(g)
  BY <1>4
<1> HIDE DEF a
<1>9. g \in Seq(Where!Tokens) /\ Total(g) = Total(a) + Total(e)
  BY <1>2, <1>7, TotalConcat, ConcatProperties
<1> HIDE DEF g
<1>10. /\ g \o lo \in Seq(Where!Tokens) /\ Where!Balanced(g \o lo)
       /\ Total(g \o lo) = Total(g) + Total(lo)
  <2>1. Where!Balanced(g \o lo)
    BY <1>3, <1>8, <1>9, BalancedConcat
  <2> QED
    BY <1>3, <1>9, <2>1, TotalConcat, ConcatProperties
<1>11. Total(g \o lo) = Total(x)
  BY <1>2, <1>3, <1>7, <1>9, <1>10
<1>12. Where!Group(x, lo) = g \o lo
  BY <1>5 DEF g, a
<1> QED
  BY <1>5, <1>6, <1>10, <1>11, <1>12

(* When the groups of a list have good texts, so has the list.             *)
LEMMA ListText ==
  ASSUME NEW N, NEW entries \in Seq(Where!Entry(N)), NEW I, NEW K, NEW V,
         \A r \in N : GoodText(I[r], r \in K, V[r])
  PROVE  GoodText(Where!GenGroupWhere(entries, I), Where!CleanWith(entries, K),
                  Where!ConditionsWith(entries, V))
<1> DEFINE len == Len(entries)
           IsRule(i) == Where!IsRule(entries[i])
           IsGroup(i) == Where!IsGroup(entries[i])
           Lo(i) == Where!Lo(i, len)
           inner(i) == I[entries[i].rules]
           w == [i \in 1..len |-> IF IsRule(i) THEN Where!GenRuleWhere(Lo(i))
                                  ELSE IF IsGroup(i) THEN Where!Group(inner(i), Lo(i)) ELSE <<>>]
           v == [i \in 1..len |-> IF IsRule(i) THEN <<entries[i].tag>>
                                  ELSE IF IsGroup(i) THEN V[entries[i].rules] ELSE <<>>]
           Known == {i \in 1..len : IsRule(i) \/ IsGroup(i)}
           Fine == {i \in 1..len : IsGroup(i) => entries[i].rules \in K}
           joined == Scan!FlattenSeq([i \in 1..len |-> w[i]])
           all == Scan!FlattenSeq([i \in 1..len |-> v[i]])
<1>1. len \in Nat
  OBVIOUS
<1>2. \A i \in 1..len : entries[i].tag \in {"none", "rule", "group", "other"} /\ entries[i].rules \in N
  <2>1. \A i \in 1..len : entries[i] \in Where!Entry(N)
    BY ElementOfSeq
  <2> QED
    BY <2>1 DEF Where!Entry
<1>3. Where!GenGroupWhere(entries, I) = joined
  <2>1. [i \in 1..len |-> w[i]] = w
    OBVIOUS
  <2>2. Where!GenGroupWhere(entries, I) = Where!FlattenSeq(w)
    BY DEF Where!GenGroupWhere
  <2> HIDE DEF w
  <2> QED
    BY <2>1, <2>2, SameFlatten
<1>4. Where!ConditionsWith(entries, V) = all
  <2>1. [i \in 1..len |-> v[i]] = v
    OBVIOUS
  <2>2. Where!ConditionsWith(entries, V) = Where!FlattenSeq(v)
    BY DEF Where!ConditionsWith
  <2> HIDE DEF v
  <2> QED
    BY <2>1, <2>2, SameFlatten
<1>5. \A i \in 1..len : Lo(i) \in {<<>>, <<"lo">>}
  BY DEF Where!Lo
<1>6. \A i \in 1..len : /\ inner(i) \in Seq(Where!Tokens) /\ Where!Balanced(inner(i))
                        /\ Where!Operands(inner(i)) <=> entries[i].rules \in K
                        /\ V[entries[i].rules] \in Seq(RuleTags)
                        /\ Total(inner(i)) = Len(V[entries[i].rules])
  BY <1>2 DEF GoodText
<1>7. \A i \in 1..len : /\ IsRule(i) <=> entries[i].tag \in RuleTags
                        /\ IsGroup(i) <=> entries[i].tag = "group"
  BY DEF Where!IsRule, Where!IsGroup, RuleTags
<1>8. /\ \A i \in 1..len : w[i] = IF IsRule(i) THEN Where!GenRuleWhere(Lo(i))
                                  ELSE IF IsGroup(i) THEN Where!Group(inner(i), Lo(i)) ELSE <<>>
      /\ \A i \in 1..len : v[i] = IF IsRule(i) THEN <<entries[i].tag>>
                                  ELSE IF IsGroup(i) THEN V[entries[i].rules] ELSE <<>>
  OBVIOUS
<1> HIDE DEF w, v, len, IsRule, IsGroup, Lo, inner
<1>9. ASSUME NEW i \in 1..len
      PROVE  /\ w[i] \in Seq(Where!Tokens) /\ Where!Balanced(w[i])
             /\ v[i] \in Seq(RuleTags) /\ Total(w[i]) = Len(v[i])
  <2>1. CASE IsRule(i)
    <3>1. w[i] = Where!GenRuleWhere(Lo(i)) /\ v[i] = <<entries[i].tag>>
      BY <1>8, <2>1
    <3>2. /\ w[i] \in Seq(Where!Tokens) /\ Where!Balanced(w[i]) /\ Total(w[i]) = 1
      BY <1>5, <1>6, <3>1, Pieces
    <3>3. v[i] \in Seq(RuleTags) /\ Len(v[i]) = 1
      BY <1>7, <2>1, <3>1
    <3> QED
      BY <3>2, <3>3
  <2>2. CASE ~IsRule(i) /\ IsGroup(i)
    <3>1. w[i] = Where!Group(inner(i), Lo(i)) /\ v[i] = V[entries[i].rules]
      BY <1>8, <2>2
    <3>2. /\ w[i] \in Seq(Where!Tokens) /\ Where!Balanced(w[i]) /\ Total(w[i]) = Total(inner(i))
      BY <1>5, <1>6, <3>1, Pieces
    <3> QED
      BY <1>6, <3>1, <3>2
  <2>3. CASE ~IsRule(i) /\ ~IsGroup(i)
    <3>1. w[i] = <<>> /\ v[i] = <<>>
      BY <1>8, <2>3
    <3>2. <<>> \in Seq(Where!Tokens) /\ <<>> \in Seq(RuleTags) /\ Len(<<>>) = 0
      OBVIOUS
    <3> QED
      BY <3>1, <3>2, BalancedShort, TotalOne
  <2> QED
    BY <2>1, <2>2, <2>3
<1>10. /\ joined \in Seq(Where!Tokens) /\ Where!Balanced(joined)
       /\ all \in Seq(RuleTags) /\ Total(joined) = Len(all)
  <2>1. \A i \in 1..len : /\ w[i] \in Seq(Where!Tokens) /\ Where!Balanced(w[i])
                          /\ v[i] \in Seq(RuleTags) /\ Total(w[i]) = Len(v[i])
    BY <1>9
  <2> QED
    BY <1>1, <2>1, JoinedBalance
<1>11. ASSUME NEW i \in Known PROVE \E c : Piece(c, i, Fine) /\ w[i] = c \o Where!Lo(i, len)
  <2> HIDE DEF Fine
  <2>1. CASE IsRule(i)
    <3> DEFINE c == <<"condition">>
    <3>1. i \in 1..len /\ w[i] = Where!GenRuleWhere(Lo(i)) /\ ~IsGroup(i)
      BY <1>7, <1>8, <2>1 DEF RuleTags
    <3>2. w[i] = c \o Where!Lo(i, len)
      BY <3>1 DEF Where!GenRuleWhere, Lo
    <3>3. i \in Fine
      BY <3>1 DEF Fine
    <3>4. /\ c \in Seq(Where!Tokens) /\ c # <<>>
          /\ c[1] \in Where!Begins /\ c[Len(c)] \in Where!Ends
      BY DEF Where!Tokens, Where!Begins, Where!Ends
    <3>5. Where!Adjacent(c)
      BY AdjacentShort
    <3> HIDE DEF c
    <3>6. Piece(c, i, Fine)
      BY <3>3, <3>4, <3>5 DEF Piece
    <3> QED
      BY <3>2, <3>6, Zenon
  <2>2. CASE ~IsRule(i)
    <3> DEFINE c == (<<"(">> \o inner(i)) \o <<")">>
    <3>1. i \in 1..len /\ IsGroup(i) /\ w[i] = Where!Group(inner(i), Lo(i))
      BY <1>8, <2>2
    <3>2. w[i] = c \o Where!Lo(i, len)
      BY <3>1 DEF Where!Group, Lo
    <3>3. inner(i) \in Seq(Where!Tokens) /\ (Where!Operands(inner(i)) <=> i \in Fine)
      BY <1>6, <3>1 DEF Fine
    <3>4. /\ c \in Seq(Where!Tokens) /\ c # <<>>
          /\ c[1] = "(" /\ c[Len(c)] = ")"
          /\ Where!Adjacent(c) <=> Where!Operands(inner(i))
      BY <3>3, OperandsOfGroup
    <3>5. "(" \in Where!Begins /\ ")" \in Where!Ends
      BY DEF Where!Begins, Where!Ends
    <3> HIDE DEF c
    <3>6. Piece(c, i, Fine)
      BY <3>3, <3>4, <3>5 DEF Piece
    <3> QED
      BY <3>2, <3>6, Zenon
  <2> QED
    BY <2>1, <2>2
<1>12. ASSUME NEW i \in (1..len) \ Known PROVE w[i] = <<>>
  BY <1>8
<1>13. CASE len = 0
  <2>1. entries = <<>>
    BY <1>13 DEF len
  <2>2. ~Where!CleanWith(entries, K)
    BY <2>1 DEF Where!CleanWith
  <2>3. joined = <<>>
    BY <1>13, FlattenNone
  <2>4. ~Where!Operands(joined)
    BY <2>3 DEF Where!Operands
  <2> QED
    BY <1>3, <1>4, <1>10, <2>2, <2>4, Zenon DEF GoodText
<1>14. CASE len # 0
  <2>1. Known \in SUBSET (1..len)
    OBVIOUS
  <2>2. Where!CleanWith(entries, K) <=> len \in Known /\ Known \subseteq Fine
    <3>1. entries # <<>> /\ len \in 1..len
      BY <1>1, <1>14 DEF len
    <3>2. entries[len].tag # "other" <=> len \in Known
      BY <1>2, <1>7, <3>1 DEF RuleTags
    <3>3. (\A i \in 1..len : IsGroup(i) => entries[i].rules \in K) <=> Known \subseteq Fine
      OBVIOUS
    <3>4. Where!CleanWith(entries, K) <=>
            /\ entries # <<>> /\ entries[len].tag # "other"
            /\ \A i \in 1..len : IsGroup(i) => entries[i].rules \in K
      BY DEF Where!CleanWith, len, IsGroup
    <3> HIDE DEF Known, Fine
    <3> QED
      BY <3>1, <3>2, <3>3, <3>4, Zenon
  <2> HIDE DEF Known, Fine
  <2>3. Where!Operands(joined) <=> len \in Known /\ Known \subseteq Fine
    <3>1. \A i \in Known : \E c : Piece(c, i, Fine) /\ w[i] = c \o Where!Lo(i, len)
      BY <1>11
    <3>2. \A i \in (1..len) \ Known : w[i] = <<>>
      BY <1>12
    <3> QED
      BY <1>1, <1>14, <2>1, <3>1, <3>2, JoinedOperands
  <2> QED
    BY <1>3, <1>4, <1>10, <2>2, <2>3, Zenon DEF GoodText
<1> QED
  BY <1>13, <1>14

(* Level by level: the rules,                                              *)
LEMMA NestedLevels ==
  /\ Where!Nested[0] = {<<>>}
  /\ \A d \in 1..RuleDepth :
       Where!Nested[d] = Seq(Where!Entry(Where!Nested[d - 1]))
<1> DEFINE Turn(f, d) == IF d = 0 THEN {<<>>}
                         ELSE Seq(Where!Entry(f[d - 1]))
           P == {k \in Nat : \E f : f = [d \in 0..k |-> Turn(f, d)]}
<1>1. 0 \in P
  <2> DEFINE f == [d \in 0..0 |-> {<<>>}]
  <2>1. f = [d \in 0..0 |-> Turn(f, d)]
    OBVIOUS
  <2> QED
    BY <2>1
<1>2. ASSUME NEW k \in Nat, k \in P PROVE k + 1 \in P
  <2>1. PICK g : g = [d \in 0..k |-> Turn(g, d)]
    BY <1>2
  <2> DEFINE h == [d \in 0..k + 1 |-> IF d = k + 1 THEN Turn(g, d) ELSE g[d]]
  <2>2. /\ h = [d \in 0..k + 1 |-> h[d]]
        /\ \A d \in 0..k + 1 : h[d] = IF d = k + 1 THEN Turn(g, d) ELSE g[d]
    OBVIOUS
  <2> HIDE DEF h
  <2>3. ASSUME NEW d \in 0..k + 1 PROVE h[d] = Turn(h, d)
    <3>1. d # 0 => h[d - 1] = g[d - 1]
      BY <2>2
    <3>2. Turn(h, d) = Turn(g, d)
      BY <3>1
    <3> HIDE DEF Turn
    <3>3. d # k + 1 => g[d] = Turn(g, d)
      BY <2>1
    <3> QED
      BY <2>2, <3>2, <3>3
  <2> HIDE DEF Turn
  <2>4. h = [d \in 0..k + 1 |-> Turn(h, d)]
    BY <2>2, <2>3
  <2>5. k + 1 \in Nat
    OBVIOUS
  <2> QED
    BY <2>4, <2>5, Zenon
<1> HIDE DEF P
<1>3. RuleDepth \in P
  BY <1>1, <1>2, SetInduction, RuleAssumption
<1>4. \E f : f = [d \in 0..RuleDepth |-> Turn(f, d)]
  BY <1>3 DEF P
<1> DEFINE F == CHOOSE f : f = [d \in 0..RuleDepth |-> Turn(f, d)]
<1>5. F = [d \in 0..RuleDepth |-> Turn(F, d)]
  BY <1>4, Zenon
<1>6. Where!Nested = F
  BY DEF Where!Nested
<1> HIDE DEF F
<1>7. \A d \in 0..RuleDepth : Where!Nested[d] = Turn(Where!Nested, d)
  BY <1>5, <1>6
<1>8. 0 \in 0..RuleDepth /\ \A d \in 1..RuleDepth : d \in 0..RuleDepth /\ d # 0
  BY RuleAssumption
<1> QED
  BY <1>7, <1>8, Zenon

(* their texts,                                                            *)
LEMMA InnerLevels ==
  /\ Where!Inner[0] = [r \in {<<>>} |-> <<>>]
  /\ \A d \in 1..RuleDepth :
       Where!Inner[d] = [r \in Where!Nested[d] |-> Where!GenGroupWhere(r, Where!Inner[d - 1])]
<1> DEFINE Turn(f, d) == IF d = 0 THEN [r \in {<<>>} |-> <<>>]
                         ELSE [r \in Where!Nested[d] |-> Where!GenGroupWhere(r, f[d - 1])]
           P == {k \in Nat : \E f : f = [d \in 0..k |-> Turn(f, d)]}
<1>1. 0 \in P
  <2> DEFINE f == [d \in 0..0 |-> [r \in {<<>>} |-> <<>>]]
  <2>1. f = [d \in 0..0 |-> Turn(f, d)]
    OBVIOUS
  <2> QED
    BY <2>1
<1>2. ASSUME NEW k \in Nat, k \in P PROVE k + 1 \in P
  <2>1. PICK g : g = [d \in 0..k |-> Turn(g, d)]
    BY <1>2
  <2> DEFINE h == [d \in 0..k + 1 |-> IF d = k + 1 THEN Turn(g, d) ELSE g[d]]
  <2>2. /\ h = [d \in 0..k + 1 |-> h[d]]
        /\ \A d \in 0..k + 1 : h[d] = IF d = k + 1 THEN Turn(g, d) ELSE g[d]
    OBVIOUS
  <2> HIDE DEF h
  <2>3. ASSUME NEW d \in 0..k + 1 PROVE h[d] = Turn(h, d)
    <3>1. d # 0 => h[d - 1] = g[d - 1]
      BY <2>2
    <3>2. Turn(h, d) = Turn(g, d)
      BY <3>1
    <3> HIDE DEF Turn
    <3>3. d # k + 1 => g[d] = Turn(g, d)
      BY <2>1
    <3> QED
      BY <2>2, <3>2, <3>3
  <2> HIDE DEF Turn
  <2>4. h = [d \in 0..k + 1 |-> Turn(h, d)]
    BY <2>2, <2>3
  <2>5. k + 1 \in Nat
    OBVIOUS
  <2> QED
    BY <2>4, <2>5, Zenon
<1> HIDE DEF P
<1>3. RuleDepth \in P
  BY <1>1, <1>2, SetInduction, RuleAssumption
<1>4. \E f : f = [d \in 0..RuleDepth |-> Turn(f, d)]
  BY <1>3 DEF P
<1> DEFINE F == CHOOSE f : f = [d \in 0..RuleDepth |-> Turn(f, d)]
<1>5. F = [d \in 0..RuleDepth |-> Turn(F, d)]
  BY <1>4, Zenon
<1>6. Where!Inner = F
  BY DEF Where!Inner
<1> HIDE DEF F
<1>7. \A d \in 0..RuleDepth : Where!Inner[d] = Turn(Where!Inner, d)
  BY <1>5, <1>6
<1>8. 0 \in 0..RuleDepth /\ \A d \in 1..RuleDepth : d \in 0..RuleDepth /\ d # 0
  BY RuleAssumption
<1> QED
  BY <1>7, <1>8, Zenon

(* the clean ones                                                          *)
LEMMA CleanLevels ==
  /\ Where!Clean[0] = {}
  /\ \A d \in 1..RuleDepth :
       Where!Clean[d] = {r \in Where!Nested[d] : Where!CleanWith(r, Where!Clean[d - 1])}
<1> DEFINE Turn(f, d) == IF d = 0 THEN {}
                         ELSE {r \in Where!Nested[d] : Where!CleanWith(r, f[d - 1])}
           P == {k \in Nat : \E f : f = [d \in 0..k |-> Turn(f, d)]}
<1>1. 0 \in P
  <2> DEFINE f == [d \in 0..0 |-> {}]
  <2>1. f = [d \in 0..0 |-> Turn(f, d)]
    OBVIOUS
  <2> QED
    BY <2>1
<1>2. ASSUME NEW k \in Nat, k \in P PROVE k + 1 \in P
  <2>1. PICK g : g = [d \in 0..k |-> Turn(g, d)]
    BY <1>2
  <2> DEFINE h == [d \in 0..k + 1 |-> IF d = k + 1 THEN Turn(g, d) ELSE g[d]]
  <2>2. /\ h = [d \in 0..k + 1 |-> h[d]]
        /\ \A d \in 0..k + 1 : h[d] = IF d = k + 1 THEN Turn(g, d) ELSE g[d]
    OBVIOUS
  <2> HIDE DEF h
  <2>3. ASSUME NEW d \in 0..k + 1 PROVE h[d] = Turn(h, d)
    <3>1. d # 0 => h[d - 1] = g[d - 1]
      BY <2>2
    <3>2. Turn(h, d) = Turn(g, d)
      BY <3>1
    <3> HIDE DEF Turn
    <3>3. d # k + 1 => g[d] = Turn(g, d)
      BY <2>1
    <3> QED
      BY <2>2, <3>2, <3>3
  <2> HIDE DEF Turn
  <2>4. h = [d \in 0..k + 1 |-> Turn(h, d)]
    BY <2>2, <2>3
  <2>5. k + 1 \in Nat
    OBVIOUS
  <2> QED
    BY <2>4, <2>5, Zenon
<1> HIDE DEF P
<1>3. RuleDepth \in P
  BY <1>1, <1>2, SetInduction, RuleAssumption
<1>4. \E f : f = [d \in 0..RuleDepth |-> Turn(f, d)]
  BY <1>3 DEF P
<1> DEFINE F == CHOOSE f : f = [d \in 0..RuleDepth |-> Turn(f, d)]
<1>5. F = [d \in 0..RuleDepth |-> Turn(F, d)]
  BY <1>4, Zenon
<1>6. Where!Clean = F
  BY DEF Where!Clean
<1> HIDE DEF F
<1>7. \A d \in 0..RuleDepth : Where!Clean[d] = Turn(Where!Clean, d)
  BY <1>5, <1>6
<1>8. 0 \in 0..RuleDepth /\ \A d \in 1..RuleDepth : d \in 0..RuleDepth /\ d # 0
  BY RuleAssumption
<1> QED
  BY <1>7, <1>8, Zenon

(* and their conditions.                                                   *)
LEMMA ConditionsLevels ==
  /\ Where!Conditions[0] = [r \in {<<>>} |-> <<>>]
  /\ \A d \in 1..RuleDepth :
       Where!Conditions[d] = [r \in Where!Nested[d] |-> Where!ConditionsWith(r, Where!Conditions[d - 1])]
<1> DEFINE Turn(f, d) == IF d = 0 THEN [r \in {<<>>} |-> <<>>]
                         ELSE [r \in Where!Nested[d] |-> Where!ConditionsWith(r, f[d - 1])]
           P == {k \in Nat : \E f : f = [d \in 0..k |-> Turn(f, d)]}
<1>1. 0 \in P
  <2> DEFINE f == [d \in 0..0 |-> [r \in {<<>>} |-> <<>>]]
  <2>1. f = [d \in 0..0 |-> Turn(f, d)]
    OBVIOUS
  <2> QED
    BY <2>1
<1>2. ASSUME NEW k \in Nat, k \in P PROVE k + 1 \in P
  <2>1. PICK g : g = [d \in 0..k |-> Turn(g, d)]
    BY <1>2
  <2> DEFINE h == [d \in 0..k + 1 |-> IF d = k + 1 THEN Turn(g, d) ELSE g[d]]
  <2>2. /\ h = [d \in 0..k + 1 |-> h[d]]
        /\ \A d \in 0..k + 1 : h[d] = IF d = k + 1 THEN Turn(g, d) ELSE g[d]
    OBVIOUS
  <2> HIDE DEF h
  <2>3. ASSUME NEW d \in 0..k + 1 PROVE h[d] = Turn(h, d)
    <3>1. d # 0 => h[d - 1] = g[d - 1]
      BY <2>2
    <3>2. Turn(h, d) = Turn(g, d)
      BY <3>1
    <3> HIDE DEF Turn
    <3>3. d # k + 1 => g[d] = Turn(g, d)
      BY <2>1
    <3> QED
      BY <2>2, <3>2, <3>3
  <2> HIDE DEF Turn
  <2>4. h = [d \in 0..k + 1 |-> Turn(h, d)]
    BY <2>2, <2>3
  <2>5. k + 1 \in Nat
    OBVIOUS
  <2> QED
    BY <2>4, <2>5, Zenon
<1> HIDE DEF P
<1>3. RuleDepth \in P
  BY <1>1, <1>2, SetInduction, RuleAssumption
<1>4. \E f : f = [d \in 0..RuleDepth |-> Turn(f, d)]
  BY <1>3 DEF P
<1> DEFINE F == CHOOSE f : f = [d \in 0..RuleDepth |-> Turn(f, d)]
<1>5. F = [d \in 0..RuleDepth |-> Turn(F, d)]
  BY <1>4, Zenon
<1>6. Where!Conditions = F
  BY DEF Where!Conditions
<1> HIDE DEF F
<1>7. \A d \in 0..RuleDepth : Where!Conditions[d] = Turn(Where!Conditions, d)
  BY <1>5, <1>6
<1>8. 0 \in 0..RuleDepth /\ \A d \in 1..RuleDepth : d \in 0..RuleDepth /\ d # 0
  BY RuleAssumption
<1> QED
  BY <1>7, <1>8, Zenon

(* So every rule has a good text.                                          *)
LEMMA LevelTexts ==
  \A r \in Where!Nested[RuleDepth] :
    GoodText(Where!Inner[RuleDepth][r], r \in Where!Clean[RuleDepth], Where!Conditions[RuleDepth][r])
<1> DEFINE Level(d) == \A r \in Where!Nested[d] :
                         GoodText(Where!Inner[d][r], r \in Where!Clean[d], Where!Conditions[d][r])
           P == {d \in Nat : d <= RuleDepth => Level(d)}
<1>1. 0 \in P
  <2>1. /\ Where!Nested[0] = {<<>>} /\ Where!Inner[0] = [r \in {<<>>} |-> <<>>]
        /\ Where!Clean[0] = {} /\ Where!Conditions[0] = [r \in {<<>>} |-> <<>>]
    BY NestedLevels, InnerLevels, CleanLevels, ConditionsLevels
  <2>2. ASSUME NEW r \in Where!Nested[0]
        PROVE  GoodText(Where!Inner[0][r], r \in Where!Clean[0], Where!Conditions[0][r])
    <3>1. Where!Inner[0][r] = <<>> /\ Where!Conditions[0][r] = <<>> /\ r \notin Where!Clean[0]
      BY <2>1, <2>2
    <3>2. <<>> \in Seq(Where!Tokens) /\ <<>> \in Seq(RuleTags) /\ Len(<<>>) = 0
      OBVIOUS
    <3>3. ~Where!Operands(<<>>)
      BY DEF Where!Operands
    <3> QED
      BY <3>1, <3>2, <3>3, BalancedShort, TotalOne DEF GoodText
  <2> QED
    BY <2>2
<1>2. ASSUME NEW k \in Nat, k \in P PROVE k + 1 \in P
  <2> DEFINE d == k + 1
  <2> SUFFICES ASSUME d <= RuleDepth PROVE Level(d)
    <3> HIDE DEF Level
    <3> QED
      OBVIOUS
  <2>1. d \in 1..RuleDepth /\ d - 1 = k
    BY RuleAssumption
  <2>2. Level(k)
    <3> HIDE DEF Level
    <3> QED
      BY <1>2, <2>1, RuleAssumption
  <2> HIDE DEF d
  <2> DEFINE N == Where!Nested[k]
             I == Where!Inner[k]
             K == Where!Clean[k]
             V == Where!Conditions[k]
  <2>3. \A r \in N : GoodText(I[r], r \in K, V[r])
    BY <2>2
  <2>4. /\ Where!Nested[d] = Seq(Where!Entry(N))
        /\ Where!Inner[d] = [r \in Where!Nested[d] |-> Where!GenGroupWhere(r, I)]
        /\ Where!Clean[d] = {r \in Where!Nested[d] : Where!CleanWith(r, K)}
        /\ Where!Conditions[d] = [r \in Where!Nested[d] |-> Where!ConditionsWith(r, V)]
    BY <2>1, NestedLevels, InnerLevels, CleanLevels, ConditionsLevels
  <2> HIDE DEF N, I, K, V
  <2>5. ASSUME NEW r \in Where!Nested[d]
        PROVE  GoodText(Where!Inner[d][r], r \in Where!Clean[d], Where!Conditions[d][r])
    <3>1. /\ Where!Inner[d][r] = Where!GenGroupWhere(r, I)
          /\ r \in Where!Clean[d] <=> Where!CleanWith(r, K)
          /\ Where!Conditions[d][r] = Where!ConditionsWith(r, V)
      BY <2>4, <2>5
    <3>2. r \in Seq(Where!Entry(N))
      BY <2>4
    <3>3. GoodText(Where!GenGroupWhere(r, I), Where!CleanWith(r, K), Where!ConditionsWith(r, V))
      BY <2>3, <3>2, ListText
    <3> QED
      BY <3>1, <3>3, Zenon DEF GoodText
  <2> QED
    BY <2>5
<1> HIDE DEF P, Level
<1>3. RuleDepth \in P
  BY <1>1, <1>2, SetInduction, RuleAssumption
<1>4. Level(RuleDepth)
  BY <1>3, RuleAssumption DEF P
<1> QED
  BY <1>4 DEF Level

-----------------------------------------------------------------------------
(* One call                                                                *)

(* A step is one of the function that was called, and it stays the one.    *)
LEMMA OneCall ==
  ASSUME [CallsNext]_callsVars
  PROVE  /\ call' = call
         /\ call = "search_fun_config_min" => [Next]_vars
         /\ call = "sql_execute" => [Sql!Next]_(Sql!vars)
         /\ call = "gen_sql" => [Scan!Next]_(Scan!vars)
         /\ call = "json_util_object" => [File!Next]_(File!vars)
         /\ call = "module_export_xls" => [Xls!Next]_(Xls!vars)
         /\ call = "module_select_page" => [Pages!Next]_(Pages!vars)
         /\ call = "gen_group_where" => [Where!Next]_(Where!vars)
         /\ call = "process" => [Refs!Next]_(Refs!vars)
<1>1. CASE UNCHANGED callsVars
  BY <1>1 DEF callsVars, vars, shared, statement, scan, jsonFile, export, pages, text, refs,
              Sql!vars, Sql!query, Scan!vars, File!vars, Xls!vars, Pages!vars, Where!vars,
              Refs!vars
<1>2. CASE CallsNext
  BY <1>2 DEF CallsNext
<1> QED
  BY <1>1, <1>2

(* A call starts as its function does.                                     *)
LEMMA OneStart ==
  ASSUME CallsInit
  PROVE  /\ call = "search_fun_config_min" => Init
         /\ call = "sql_execute" => Sql!Init
         /\ call = "gen_sql" => Scan!Init
         /\ call = "json_util_object" => File!Init
         /\ call = "module_export_xls" => Xls!Init
         /\ call = "module_select_page" => Pages!Init
         /\ call = "gen_group_where" => Where!Init
         /\ call = "process" => Refs!Init
BY DEF CallsInit

-----------------------------------------------------------------------------
(* search_fun_config_min, for every sorted table and every url             *)

(* A row of the table is a url, and the rows do not decrease.              *)
LEMMA RowFacts ==
  ASSUME TypeOK
  PROVE  /\ g_fun_config_len \in Nat /\ url \in Nat
         /\ \A k \in 0..(g_fun_config_len - 1) : Row(k) \in Nat
         /\ \A k, m \in 0..(g_fun_config_len - 1) : k <= m => Row(k) <= Row(m)
<1>1. g_fun_config \in Seq(Urls) /\ Sorted(g_fun_config)
  BY TablesAssumption DEF TypeOK
<1>2. Len(g_fun_config) \in Nat /\ \A m \in 1..Len(g_fun_config) : g_fun_config[m] \in Nat
  <2>1. Len(g_fun_config) \in Nat
    BY <1>1
  <2>2. \A m \in 1..Len(g_fun_config) : g_fun_config[m] \in Urls
    BY <1>1
  <2> QED
    BY <2>1, <2>2, UrlsAssumption
<1>3. url \in Nat
  BY UrlsAssumption DEF TypeOK
<1>4. ASSUME NEW k \in 0..(g_fun_config_len - 1) PROVE Row(k) \in Nat
  <2>1. k + 1 \in 1..Len(g_fun_config)
    BY <1>2 DEF g_fun_config_len
  <2> QED
    BY <1>2, <2>1 DEF Row
<1>5. ASSUME NEW k \in 0..(g_fun_config_len - 1), NEW m \in 0..(g_fun_config_len - 1),
             k <= m
      PROVE  Row(k) <= Row(m)
  <2>1. k + 1 \in 1..Len(g_fun_config) /\ m + 1 \in 1..Len(g_fun_config) /\ k + 1 <= m + 1
    BY <1>2, <1>5 DEF g_fun_config_len
  <2> QED
    BY <1>1, <2>1 DEF Sorted, Row
<1> QED
  BY <1>2, <1>3, <1>4, <1>5 DEF g_fun_config_len

(* When bsearch's interval is empty, no row is of the url.                 *)
LEMMA EmptyInterval ==
  ASSUME TypeOK, Halved, l >= u
  PROVE  \A k \in 0..(g_fun_config_len - 1) : Row(k) # url
<1>1. l = u /\ l \in 0..g_fun_config_len /\ g_fun_config_len \in Nat
  BY RowFacts DEF TypeOK, Halved
<1> SUFFICES ASSUME NEW k \in 0..(g_fun_config_len - 1) PROVE Row(k) # url
  OBVIOUS
<1>2. CASE k < l
  <2>1. l - 1 \in 0..(g_fun_config_len - 1) /\ k <= l - 1
    BY <1>1, <1>2
  <2>2. Row(k) <= Row(l - 1) /\ Row(l - 1) < url
    BY <1>1, <1>2, <2>1, RowFacts DEF Halved
  <2> QED
    BY <2>1, <2>2, RowFacts
<1>3. CASE k >= l
  <2>1. u \in 0..(g_fun_config_len - 1) /\ u < g_fun_config_len /\ u <= k
    BY <1>1, <1>3
  <2>2. Row(u) <= Row(k)
    BY <2>1, RowFacts
  <2>3. Row(u) > url
    <3>1. CASE u > 0 /\ Row(u) = url /\ Row(u - 1) = Row(u)
      <4>1. Row(u - 1) < url
        BY <1>1, <3>1 DEF Halved
      <4> QED
        BY <3>1, <4>1, RowFacts
    <3> QED
      BY <2>1, <3>1 DEF Halved
  <2> QED
    BY <2>1, <2>2, <2>3, RowFacts
<1> QED
  BY <1>1, <1>2, <1>3

(* A search starts with the whole table.                                   *)
LEMMA SearchInit == Init => TypeOK /\ SearchInv
<1> SUFFICES ASSUME Init PROVE TypeOK /\ SearchInv
  OBVIOUS
<1>1. Len(g_fun_config) \in Nat
  BY TablesAssumption DEF Init
<1> QED
  BY <1>1 DEF Init, TypeOK, SearchInv, Halved, StepsOfUrl, TableLen,
              g_fun_config_len

(* The middle of a non-empty interval is a row in it.                      *)
LEMMA MidInside ==
  ASSUME TypeOK, l < u
  PROVE  LET mid == (l + u) \div 2 IN
           /\ mid \in 0..(g_fun_config_len - 1) /\ l <= mid /\ mid < u
  BY RowFacts DEF TypeOK

(* No step leaves the types.                                               *)
LEMMA SearchType == TypeOK /\ SearchInv /\ [Next]_vars => TypeOK'
<1> SUFFICES ASSUME TypeOK, SearchInv, [Next]_vars PROVE TypeOK'
  OBVIOUS
<1>0. g_fun_config_len \in Nat
  BY RowFacts
<1>1. CASE Probe
  BY <1>0, <1>1, MidInside DEF Probe, AfterMid, TypeOK, g_fun_config_len
<1>2. CASE NotFound
  BY <1>2 DEF NotFound, TypeOK, g_fun_config_len
<1>3. CASE Count
  BY <1>0, <1>3 DEF Count, InTable, SearchInv, TypeOK, g_fun_config_len
<1>4. CASE UNCHANGED vars
  BY <1>4 DEF vars, TypeOK, g_fun_config_len
<1> QED
  BY <1>1, <1>2, <1>3, <1>4 DEF Next

(* A probe halves the interval as the comparison says, or finds the first  *)
(* row of the url.                                                         *)
LEMMA ProbeInv == TypeOK /\ SearchInv /\ Probe => SearchInv'
<1> SUFFICES ASSUME TypeOK, SearchInv, Probe PROVE SearchInv'
  OBVIOUS
<1> DEFINE mid == (l + u) \div 2
<1>1. mid \in 0..(g_fun_config_len - 1) /\ l <= mid /\ mid < u
  BY MidInside DEF Probe
<1>2. Row(mid) \in Nat /\ url \in Nat /\ g_fun_config_len \in Nat
  BY <1>1, RowFacts
<1>3. config = -1 /\ config_len = 0 /\ Halved
  BY DEF Probe, SearchInv
<1> HIDE DEF mid
<1>4. CASE Compare(mid) = "before" /\ u' = mid /\ UNCHANGED <<l, pc, config>>
  <2>1. Row(mid) > url \/ (Row(mid) = url /\ mid > 0 /\ Row(mid - 1) = Row(mid))
    BY <1>1, <1>2, <1>4 DEF Compare
  <2> QED
    BY <1>1, <1>2, <1>3, <1>4, <2>1
       DEF Probe, SearchInv, Halved, StepsOfUrl, Row, g_fun_config_len
<1>5. CASE Compare(mid) = "after" /\ l' = AfterMid(mid) /\ UNCHANGED <<u, pc, config>>
  <2>1. Row(mid) < url
    BY <1>2, <1>5 DEF Compare
  <2>2. l' = mid + 1 /\ l' - 1 = mid /\ l' <= u
    BY <1>1, <1>2, <1>5 DEF AfterMid, TypeOK
  <2>3. g_fun_config[(l' - 1) + 1] < url
    BY <2>1, <2>2 DEF Row
  <2> QED
    BY <1>1, <1>2, <1>3, <1>5, <2>2, <2>3
       DEF Probe, SearchInv, Halved, StepsOfUrl, Row, g_fun_config_len
<1>6. CASE Compare(mid) = "here" /\ config' = mid /\ pc' = "count" /\ UNCHANGED <<l, u>>
  <2>1. First(mid)
    BY <1>1, <1>2, <1>6 DEF Compare, First
  <2> QED
    BY <1>1, <1>2, <1>3, <1>6, <2>1
       DEF Probe, SearchInv, StepsOfUrl, First, Row, g_fun_config_len
<1> QED
  BY <1>4, <1>5, <1>6 DEF Probe, mid

(* The count takes in rows of the url only, and ends behind the last one.  *)
LEMMA CountInv == TypeOK /\ SearchInv /\ Count => SearchInv'
<1> SUFFICES ASSUME TypeOK, SearchInv, Count PROVE SearchInv'
  OBVIOUS
<1> DEFINE k == config + config_len
<1>1. /\ config \in 0..(g_fun_config_len - 1) /\ First(config)
      /\ config_len \in Nat /\ k <= g_fun_config_len
      /\ \A m \in config..(k - 1) : Row(m) = url
  BY RowFacts DEF Count, SearchInv, TypeOK
<1>2. CASE InTable(k) /\ Row(k) = Row(config)
  <2>1. Row(k) = url
    BY <1>1, <1>2 DEF First
  <2>2. \A m \in config..(config + (config_len + 1) - 1) : Row(m) = url
    BY <1>1, <2>1
  <2>3. config + (config_len + 1) <= g_fun_config_len
    BY <1>1, <1>2, RowFacts DEF InTable
  <2> QED
    BY <1>1, <1>2, <2>2, <2>3
       DEF Count, SearchInv, StepsOfUrl, First, Row, g_fun_config_len
<1>3. CASE ~(InTable(k) /\ Row(k) = Row(config))
  <2>1. Found = RowsOf
    <3>1. ASSUME NEW m \in 0..(g_fun_config_len - 1), config <= m, m < k
          PROVE  Row(m) = url
      BY <1>1, <3>1
    <3>2. ASSUME NEW m \in 0..(g_fun_config_len - 1), Row(m) = url
          PROVE  config <= m /\ m < k
      <4>1. CASE m < config
        <5>1. config - 1 \in 0..(g_fun_config_len - 1) /\ m <= config - 1 /\ config > 0
          BY <1>1, <3>2, <4>1, RowFacts
        <5>2. Row(m) <= Row(config - 1) /\ Row(config - 1) <= Row(config)
          BY <1>1, <3>2, <5>1, RowFacts
        <5> QED
          BY <1>1, <3>2, <5>1, <5>2, RowFacts DEF First
      <4>2. CASE m >= k
        <5>1. k \in 0..(g_fun_config_len - 1) /\ InTable(k)
          BY <1>1, <4>2, RowFacts DEF InTable
        <5>2. Row(config) <= Row(k) /\ Row(k) <= Row(m)
          BY <1>1, <4>2, <5>1, RowFacts
        <5> QED
          BY <1>1, <1>3, <3>2, <5>1, <5>2, RowFacts DEF First
      <4> QED
        BY <1>1, <4>1, <4>2
    <3>3. config # -1
      BY <1>1
    <3> QED
      BY <3>1, <3>2, <3>3 DEF Found, RowsOf
  <2> QED
    BY <1>1, <1>3, <2>1
       DEF Count, SearchInv, StepsOfUrl, Found, RowsOf, First, Row, g_fun_config_len
<1> QED
  BY <1>2, <1>3

(* No step breaks SearchInv.                                               *)
LEMMA SearchStep == TypeOK /\ SearchInv /\ [Next]_vars => SearchInv'
<1> SUFFICES ASSUME TypeOK, SearchInv, [Next]_vars PROVE SearchInv'
  OBVIOUS
<1>1. CASE NotFound
  <2>1. config = -1 /\ Halved /\ l >= u
    BY <1>1 DEF NotFound, SearchInv
  <2>2. Found = RowsOf
    BY <2>1, EmptyInterval DEF Found, RowsOf
  <2> QED
    BY <1>1, <2>1, <2>2
       DEF NotFound, SearchInv, StepsOfUrl, Found, RowsOf, Row, g_fun_config_len
<1>2. CASE UNCHANGED vars
  BY <1>2 DEF vars, SearchInv, StepsOfUrl, Halved, Found, RowsOf, First, Row,
              g_fun_config_len
<1> QED
  BY <1>1, <1>2, ProbeInv, CountInv DEF Next

(* The types and SearchInv hold throughout every search.                   *)
THEOREM SearchTypeAndInv == Spec => [](TypeOK /\ SearchInv)
  BY SearchInit, SearchType, SearchStep, PTL DEF Spec

(* The steps run for a job are exactly the rows of its url                 *)
(* (process_util.c:1679, file_generate.c:148).                             *)
THEOREM StepsOfUrlHolds == Spec => []StepsOfUrl
<1>1. TypeOK /\ SearchInv => StepsOfUrl
  BY DEF SearchInv
<1> QED
  BY <1>1, SearchTypeAndInv, PTL
-----------------------------------------------------------------------------
(* sql_execute                                                             *)

(* The smaller of two numbers.                                             *)
LEMMA MinOfTwo ==
  ASSUME NEW a \in Int, NEW b \in Int
  PROVE  Sql!Min({a, b}) = IF a <= b THEN a ELSE b
BY DEF Sql!Min

(* What a handler keeps of so many rows.                                   *)
LEMMA WantedOf ==
  ASSUME NEW m \in Nat
  PROVE  Sql!Wanted(m) = IF kind = "rows" THEN (IF m <= RowLimit THEN m ELSE RowLimit)
                         ELSE IF kind = "row" THEN (IF m <= 1 THEN m ELSE 1)
                         ELSE IF kind \in {"acl", "export"} THEN m ELSE 0
BY StatementAssumption, MinOfTwo DEF Sql!Wanted

(* What a handler keeps of one row is at most the row.                     *)
LEMMA KeepsOf ==
  ASSUME NEW m \in Nat, space \in Nat
  PROVE  /\ Sql!Keeps(m) = IF kind = "export" THEN (IF space <= RowSize THEN space ELSE RowSize)
                           ELSE IF kind = "none" \/ Sql!BehindLimit(m) THEN 0 ELSE RowSize
         /\ Sql!Keeps(m) \in 0..RowSize
<1>1. Sql!Min({space, RowSize}) = IF space <= RowSize THEN space ELSE RowSize
  BY StatementAssumption, MinOfTwo
<1>2. Sql!BehindLimit(m) \in BOOLEAN
  BY DEF Sql!BehindLimit
<1>3. CASE kind = "export" BY <1>1, <1>3, StatementAssumption DEF Sql!Keeps, Sql!BehindLimit
<1>4. CASE kind # "export"
  <2>1. CASE kind = "none" \/ Sql!BehindLimit(m)
    BY <2>1, <1>4, StatementAssumption DEF Sql!Keeps
  <2>2. CASE ~(kind = "none" \/ Sql!BehindLimit(m))
    BY <2>2, <1>4, StatementAssumption DEF Sql!Keeps
  <2> QED BY <2>1, <2>2
<1> QED BY <1>3, <1>4

(* Nothing is kept before the first row.                                   *)
LEMMA StatementInit == Sql!Init => Sql!StatementInv
<1> SUFFICES ASSUME Sql!Init PROVE Sql!StatementInv
  OBVIOUS
<1>1. Sql!TypeOK
  <2>1. bound \in Seq({"value", "empty"}) /\ Len(bound) = 0 /\ kept \in Seq(1..RowSize) /\ Len(kept) = 0
    BY EmptySeq DEF Sql!Init
  <2>2. res \in BOOLEAN /\ err \in BOOLEAN
    BY Zenon DEF Sql!Init
  <2>3. rownum \in 0..total /\ count \in -1..MaxRows
    BY StatementAssumption DEF Sql!Init
  <2> QED
    BY <2>1, <2>2, <2>3 DEF Sql!Init, Sql!TypeOK
<1>2. Sql!Progress /\ Sql!BoundSoFar
  BY StatementAssumption DEF Sql!Init, Sql!Progress, Sql!BoundSoFar
<1>3. Sql!KeptSoFar
  <2>1. Sql!Wanted(0) = 0
    BY StatementAssumption, WantedOf
  <2> QED
    BY <2>1, StatementAssumption DEF Sql!Init, Sql!KeptSoFar, Sql!WithinLimit
<1> QED
  BY <1>1, <1>2, <1>3 DEF Sql!StatementInv

(* The steps that neither bind a value nor fetch a row.                    *)
LEMMA StatementControl ==
  ASSUME Sql!StatementInv,
         \/ Sql!New \/ Sql!NewFails \/ Sql!Prepare \/ Sql!StepFails("prepare") \/ Sql!Bound
         \/ Sql!Execute \/ Sql!StepFails("execute") \/ Sql!FetchEnds \/ Sql!FetchBreaks
         \/ Sql!LastError \/ Sql!FreeStatement \/ UNCHANGED Sql!vars
  PROVE  Sql!StatementInv'
<1> USE StatementAssumption
    DEF Sql!StatementInv, Sql!TypeOK, Sql!Progress, Sql!BoundSoFar, Sql!KeptSoFar, Sql!Result, Sql!RowCount,
        Sql!ValueAt, Sql!Wanted, Sql!BehindLimit, Sql!WithinLimit, Sql!Kinds, Sql!query
<1>1. CASE Sql!New BY <1>1 DEF Sql!New
<1>2. CASE Sql!NewFails BY <1>2 DEF Sql!NewFails
<1>3. CASE Sql!Prepare BY <1>3 DEF Sql!Prepare
<1>4. CASE Sql!StepFails("prepare") BY <1>4 DEF Sql!StepFails
<1>5. CASE Sql!Bound BY <1>5 DEF Sql!Bound, Sql!MorePlaces
<1>6. CASE Sql!Execute BY <1>6 DEF Sql!Execute
<1>7. CASE Sql!StepFails("execute") BY <1>7 DEF Sql!StepFails
<1>8. CASE Sql!FetchEnds BY <1>8 DEF Sql!FetchEnds
<1>9. CASE Sql!FetchBreaks BY <1>9 DEF Sql!FetchBreaks
<1>10. CASE Sql!LastError BY <1>10 DEF Sql!LastError, Sql!AfterError
<1>11. CASE Sql!FreeStatement BY <1>11 DEF Sql!FreeStatement
<1>12. CASE UNCHANGED Sql!vars BY <1>12 DEF Sql!vars
<1> QED BY <1>1, <1>2, <1>3, <1>4, <1>5, <1>6, <1>7, <1>8, <1>9, <1>10, <1>11, <1>12

(* A value is bound to its own place.                                      *)
LEMMA BindOneStep ==
  ASSUME Sql!StatementInv, Sql!BindOne PROVE Sql!StatementInv'
<1> USE StatementAssumption DEF Sql!StatementInv, Sql!BindOne, Sql!query
<1> DEFINE v == Sql!ValueAt(Len(bound) + 1)
<1>1. v \in {"value", "empty"} /\ bound' = Append(bound, v)
  BY DEF Sql!ValueAt
<1>2. bound \in Seq({"value", "empty"}) /\ Len(bound) < places /\ places \in Nat
  BY DEF Sql!TypeOK, Sql!MorePlaces
<1> HIDE DEF v
<1>3. /\ bound' \in Seq({"value", "empty"}) /\ Len(bound') = Len(bound) + 1
      /\ \A i \in 1..Len(bound) : bound'[i] = bound[i]
      /\ bound'[Len(bound) + 1] = v
  BY <1>1, <1>2, AppendProperties
<1>4. Sql!TypeOK'
  BY <1>2, <1>3 DEF Sql!TypeOK
<1>5. Sql!Progress'
  BY DEF Sql!Progress, Sql!Result, Sql!RowCount
<1>6. Sql!BoundSoFar'
  <2>1. \A i \in 1..Len(bound') : bound'[i] = Sql!ValueAt(i)
    BY <1>2, <1>3 DEF Sql!BoundSoFar, v
  <2>2. \A i \in 1..Len(bound') : Sql!ValueAt(i)' = Sql!ValueAt(i)
    BY DEF Sql!ValueAt
  <2> QED
    BY <2>1, <2>2 DEF Sql!BoundSoFar, Sql!Progress
<1>7. Sql!KeptSoFar'
  BY DEF Sql!KeptSoFar, Sql!Wanted, Sql!BehindLimit, Sql!WithinLimit
<1> QED
  BY <1>4, <1>5, <1>6, <1>7

(* A row is kept as its handler wants it, or the call has failed.          *)
LEMMA FetchStep ==
  ASSUME Sql!StatementInv, Sql!Fetch PROVE Sql!StatementInv'
<1> USE StatementAssumption DEF Sql!query
<1> DEFINE m == rownum + 1
           k == Sql!Keeps(m)
<1>1. /\ rownum \in Nat /\ total \in Nat /\ rownum < total /\ total <= MaxRows /\ m \in Nat
      /\ space \in Nat /\ space <= MaxSpace /\ kind \in Sql!Kinds
      /\ kept \in Seq(1..RowSize) /\ Len(kept) \in Nat
      /\ at = "fetch" /\ failed = "no" /\ kind # "change" /\ res = TRUE
  BY DEF Sql!StatementInv, Sql!TypeOK, Sql!Progress, Sql!Fetch
<1>2. /\ k = IF kind = "export" THEN (IF space <= RowSize THEN space ELSE RowSize)
             ELSE IF kind = "none" \/ Sql!BehindLimit(m) THEN 0 ELSE RowSize
      /\ k \in 0..RowSize
  BY <1>1, KeepsOf
<1>3. /\ rownum' = m
      /\ kept' = IF k > 0 THEN Append(kept, k) ELSE kept
      /\ space' = IF kind = "export" THEN space - k ELSE space
      /\ res' = (Sql!Handler(m) >= 0)
      /\ failed' = IF Sql!Handler(m) < 0 THEN "handler" ELSE failed
      /\ at' = IF Sql!Handler(m) # 1 THEN "free" ELSE at
      /\ UNCHANGED <<kind, given, places, total, stmt, bound, count, err>>
  BY DEF Sql!Fetch, Sql!Stops
<1>4. /\ Sql!Handler(m) = IF kind = "row" \/ (kind = "rows" /\ Sql!BehindLimit(m)) THEN 0
                          ELSE IF (kind = "acl" /\ Sql!BehindLimit(m)) \/ (kind = "export" /\ space = 0) THEN -1
                          ELSE 1
      /\ Sql!Handler(m) \in {-1, 0, 1} /\ Sql!BehindLimit(m) \in BOOLEAN
  BY DEF Sql!Handler, Sql!BehindLimit
<1> HIDE DEF k
<1>5. /\ kept' \in Seq(1..RowSize) /\ Len(kept') = IF k > 0 THEN Len(kept) + 1 ELSE Len(kept)
      /\ \A i \in 1..Len(kept) : kept'[i] = kept[i]
      /\ k > 0 => kept'[Len(kept) + 1] = k
  <2>1. CASE k > 0
    <3>1. k \in 1..RowSize /\ kept' = Append(kept, k)
      BY <1>2, <1>3, <2>1
    <3> QED
      BY <1>1, <2>1, <3>1, AppendProperties
  <2>2. CASE ~(k > 0)
    BY <1>1, <1>3, <2>2
  <2> QED
    BY <2>1, <2>2
<1>6. Sql!TypeOK'
  <2>1. space' \in 0..MaxSpace
    BY <1>1, <1>2, <1>3
  <2>2. res' \in BOOLEAN /\ at' \in {"fetch", "free"} /\ failed' \in {"no", "handler"}
    BY <1>1, <1>3
  <2> QED
    BY <1>1, <1>3, <1>5, <2>1, <2>2 DEF Sql!StatementInv, Sql!TypeOK
<1>7. Sql!Progress'
  <2>1. /\ Sql!Handler(m) = 1 => at' = "fetch" /\ failed' = "no"
        /\ Sql!Handler(m) = 0 => at' = "free" /\ failed' = "no"
        /\ Sql!Handler(m) = -1 => at' = "free" /\ failed' = "handler"
    BY <1>1, <1>3
  <2>4. /\ Sql!Handler(m) = 1 => Sql!Handler(m) >= 0
        /\ Sql!Handler(m) = 0 => Sql!Handler(m) >= 0
        /\ Sql!Handler(m) = -1 => ~(Sql!Handler(m) >= 0)
    OBVIOUS
  <2>5. /\ Sql!Handler(m) = 1 => res'
        /\ Sql!Handler(m) = 0 => res'
        /\ Sql!Handler(m) = -1 => ~res'
    BY <1>3, <2>4, Zenon
  <2>2. Sql!Progress
    BY DEF Sql!StatementInv
  <2>3. stmt = "open" /\ ~err /\ count = -1
    BY <1>1, <2>2 DEF Sql!Progress
  <2> QED
    BY <1>1, <1>3, <1>4, <2>1, <2>3, <2>5 DEF Sql!Progress
<1>8. Sql!BoundSoFar'
  BY <1>1, <1>3, <1>4 DEF Sql!StatementInv, Sql!BoundSoFar, Sql!ValueAt
<1>9. Sql!KeptSoFar'
  <2> DEFINE W(j) == IF kind = "rows" THEN (IF j <= RowLimit THEN j ELSE RowLimit)
                     ELSE IF kind = "row" THEN (IF j <= 1 THEN j ELSE 1)
                     ELSE IF kind \in {"acl", "export"} THEN j ELSE 0
  <2>1. Sql!Wanted(rownum) = W(rownum) /\ Sql!Wanted(rownum)' = W(m) /\ Sql!Wanted(total)' = W(total)
    <3>1. Sql!Wanted(rownum)' = Sql!Wanted(m) /\ Sql!Wanted(total)' = Sql!Wanted(total)
      BY <1>3 DEF Sql!Wanted
    <3> QED
      BY <1>1, <3>1, WantedOf
  <2>2. Len(kept) = W(rownum) /\ ~Sql!BehindLimit(rownum) /\ (kind = "row" => rownum = 0)
    BY <1>1, <2>1 DEF Sql!StatementInv, Sql!KeptSoFar
  <2>3. Sql!BehindLimit(rownum)' = Sql!BehindLimit(m)
    BY <1>3 DEF Sql!BehindLimit
  <2>4. failed' # "handler" => Len(kept') = W(m)
    BY <1>1, <1>2, <1>3, <1>4, <1>5, <2>2 DEF Sql!BehindLimit, Sql!Kinds
  <2>5. at' = "free" /\ failed' = "no" => W(m) = W(total)
    BY <1>1, <1>3, <1>4, <2>2 DEF Sql!BehindLimit
  <2>6. at' = "fetch" => ~Sql!BehindLimit(m) /\ kind # "row"
    BY <1>1, <1>3, <1>4 DEF Sql!BehindLimit
  <2>7. \A i \in 1..Len(kept') :
           kept'[i] = RowSize \/ (kind = "export" /\ i = Len(kept') /\ space' = 0)
    <3>1. \A i \in 1..Len(kept) : kept[i] = RowSize \/ (kind = "export" /\ i = Len(kept) /\ space = 0)
      BY DEF Sql!StatementInv, Sql!KeptSoFar
    <3> QED
      BY <1>1, <1>2, <1>3, <1>5, <3>1
  <2>8. Sql!WithinLimit'
    BY <1>1, <1>2, <1>3, <1>5, <2>2 DEF Sql!WithinLimit, Sql!BehindLimit
  <2> QED
    BY <1>1, <1>3, <2>1, <2>3, <2>4, <2>5, <2>6, <2>7, <2>8 DEF Sql!KeptSoFar
<1> QED
  BY <1>6, <1>7, <1>8, <1>9 DEF Sql!StatementInv

(* What the invariant promises of the result.                              *)
LEMMA StatementPromises ==
  ASSUME Sql!StatementInv
  PROVE  Sql!ResultTells /\ Sql!NothingMissing /\ Sql!WithinLimit /\ Sql!AllBound
<1>1. Sql!Result \in Nat \cup {-1} /\ (Sql!Result = -1 <=> ~res)
  BY StatementAssumption DEF Sql!StatementInv, Sql!TypeOK, Sql!Result, Sql!RowCount
<1>6. ASSUME at = "done" PROVE res <=> failed = "no"
  <2>1. at \in {"free", "done"} => (res <=> failed = "no")
    BY Zenon DEF Sql!StatementInv, Sql!Progress
  <2> QED
    BY <1>6, <2>1, Zenon
<1>7. ASSUME at = "done" PROVE err <=> failed \notin {"no", "handler"}
  <2>1. at \in {"free", "done"} => (err <=> failed \notin {"no", "handler"})
    BY Zenon DEF Sql!StatementInv, Sql!Progress
  <2> QED
    BY <1>7, <2>1, Zenon
<1>2. Sql!ResultTells
  <2> SUFFICES ASSUME at = "done"
               PROVE  /\ count = -1 <=> failed # "no"
                      /\ err <=> failed \notin {"no", "handler"}
                      /\ stmt = IF failed = "new" THEN "none" ELSE "freed"
    BY DEF Sql!ResultTells
  <2>1. count = Sql!Result
    BY Zenon DEF Sql!StatementInv, Sql!Progress
  <2>2. stmt = IF failed = "new" THEN "none" ELSE "freed"
    BY DEF Sql!StatementInv, Sql!Progress
  <2> QED
    BY <1>1, <1>6, <1>7, <2>1, <2>2, Zenon
<1>3. Sql!NothingMissing
  <2> SUFFICES ASSUME at = "done", count >= 0
               PROVE  /\ Len(kept) = Sql!Wanted(total)
                      /\ \A i \in 1..Len(kept) - 1 : kept[i] = RowSize
    BY DEF Sql!NothingMissing
  <2>1. failed = "no"
    <3>1. count = Sql!Result
      BY Zenon DEF Sql!StatementInv, Sql!Progress
    <3>2. res <=> failed = "no"
      BY <1>6, Zenon
    <3>3. Sql!Result # -1
      BY <1>1, <3>1
    <3> QED
      BY <1>1, <3>2, <3>3, Zenon
  <2>2. Len(kept) \in Nat
    BY DEF Sql!StatementInv, Sql!TypeOK
  <2> QED
    BY <2>1, <2>2 DEF Sql!StatementInv, Sql!KeptSoFar
<1>4. Sql!WithinLimit
  BY DEF Sql!StatementInv, Sql!KeptSoFar
<1>5. Sql!AllBound
  <2> SUFFICES ASSUME rownum > 0 \/ res
               PROVE  /\ Len(bound) = places
                      /\ \A i \in 1..places : bound[i] = "value" <=> i \in DOMAIN given /\ given[i] = "value"
    BY DEF Sql!AllBound
  <2>1. Len(bound) = places /\ places \in Nat
    BY DEF Sql!StatementInv, Sql!BoundSoFar, Sql!TypeOK
  <2>2. DOMAIN given = 1..Len(given) /\ Len(given) \in Nat /\ \A i \in DOMAIN given : given[i] \in Sql!Values
    BY StatementAssumption DEF Sql!StatementInv, Sql!TypeOK, Sql!SeqsUpTo
  <2>3. ASSUME NEW i \in 1..places PROVE bound[i] = "value" <=> i \in DOMAIN given /\ given[i] = "value"
    <3>1. bound[i] = IF i > Len(given) \/ given[i] = "NULL" THEN "empty" ELSE "value"
      BY <2>1 DEF Sql!StatementInv, Sql!BoundSoFar, Sql!ValueAt
    <3> QED
      BY <2>1, <2>2, <3>1 DEF Sql!Values
  <2> QED
    BY <2>1, <2>3
<1> QED
  BY <1>2, <1>3, <1>4, <1>5

(* The invariant holds throughout a call of sql_execute.                   *)
LEMMA StatementCall == CallsSpec => [](call = "sql_execute" => Sql!StatementInv)
<1>1. CallsInit => (call = "sql_execute" => Sql!StatementInv)
  BY OneStart, StatementInit
<1>2. ASSUME call = "sql_execute" => Sql!StatementInv, [CallsNext]_callsVars
      PROVE  (call = "sql_execute" => Sql!StatementInv)'
  <2> SUFFICES ASSUME call = "sql_execute" PROVE Sql!StatementInv'
    BY <1>2, OneCall
  <2>1. Sql!StatementInv /\ [Sql!Next]_(Sql!vars)
    BY <1>2, OneCall
  <2> QED
    BY <2>1, StatementControl, BindOneStep, FetchStep DEF Sql!Next, Sql!Done
<1> QED
  BY <1>1, <1>2, PTL DEF CallsSpec

(* sql_execute returns -1 exactly when something failed, and any other result *)
(* stands for every row, up to the handler's limit (db_hander.c:56).    *)
THEOREM ResultTellsHolds == CallsSpec => []ResultTells
<1>1. (call = "sql_execute" => Sql!StatementInv) => ResultTells
  BY StatementPromises DEF ResultTells
<1> QED
  BY <1>1, StatementCall, PTL

(* Every placeholder has its own value when the statement is executed      *)
(* (db_hander.c:78).                                                     *)
THEOREM AllBoundHolds == CallsSpec => []AllBound
<1>1. (call = "sql_execute" => Sql!StatementInv) => AllBound
  BY StatementPromises DEF AllBound
<1> QED
  BY <1>1, StatementCall, PTL

-----------------------------------------------------------------------------
(* gen_sql                                                                 *)

(* The invariant holds throughout a call of gen_sql.                       *)
LEMMA ScanCall == CallsSpec => [](call = "gen_sql" => Scan!ScanInv)
<1>1. CallsInit => (call = "gen_sql" => Scan!ScanInv)
  BY OneStart, ScanStart
<1>2. ASSUME call = "gen_sql" => Scan!ScanInv, [CallsNext]_callsVars
      PROVE  (call = "gen_sql" => Scan!ScanInv)'
  <2> SUFFICES ASSUME call = "gen_sql" PROVE Scan!ScanInv'
    BY <1>2, OneCall
  <2>1. Scan!ScanInv /\ [Scan!Next]_(Scan!vars)
    BY <1>2, OneCall
  <2> QED
    BY <2>1, TokenStep, IllegalStep, ScanControl DEF Scan!Next
<1> QED
  BY <1>1, <1>2, PTL DEF CallsSpec

(* gen_sql refuses exactly the malformed texts; in the others the n-th     *)
(* placeholder has become the n-th value, and the rest is kept             *)
(* (gen_sql.c:92).                                                         *)
THEOREM ValuesInPlaceHolds == CallsSpec => []ValuesInPlace
<1>1. (call = "gen_sql" => Scan!ScanInv) => ValuesInPlace
  BY ScanPromises DEF ValuesInPlace
<1> QED
  BY <1>1, ScanCall, PTL

-----------------------------------------------------------------------------
(* json_util_object_to_file and json_util_object_from_file                 *)

(* The text of an object.                                                  *)
LEMMA TextIsSeq ==
  ASSUME NEW v \in Versions
  PROVE  /\ File!Text(v) \in Seq(File!Units) /\ Len(File!Text(v)) = Length[v]
         /\ Length[v] \in Nat /\ Length[v] > 0
         /\ \A k \in 1..Length[v] : File!Text(v)[k] = <<v, k>>
<1>1. Length[v] \in Nat /\ Length[v] > 0
  BY FileAssumption
<1>2. \A k \in 1..Length[v] : <<v, k>> \in File!Units
  BY DEF File!Units
<1> QED
  BY <1>1, <1>2 DEF File!Text

(* A beginning of the text, from none of it to the whole.                  *)
LEMMA BeginningIsSeq ==
  ASSUME NEW v \in Versions, NEW k \in 0..Length[v]
  PROVE  /\ File!Beginning(v, k) \in Seq(File!Units) /\ Len(File!Beginning(v, k)) = k
         /\ \A j \in 1..k : File!Beginning(v, k)[j] = <<v, j>>
         /\ k = Length[v] => File!Beginning(v, k) = File!Text(v)
         /\ k = 0 => File!Beginning(v, k) = <<>>
<1> DEFINE t == File!Text(v)
<1>1. /\ t \in Seq(File!Units) /\ Len(t) = Length[v] /\ Length[v] \in Nat
      /\ \A j \in 1..Length[v] : t[j] = <<v, j>>
  BY TextIsSeq
<1>2. \A j \in 1..k : t[j] \in File!Units
  BY <1>1
<1> HIDE DEF t
<1>3. /\ SubSeq(t, 1, k) \in Seq(File!Units)
      /\ Len(SubSeq(t, 1, k)) = IF 1 <= k THEN k - 1 + 1 ELSE 0
      /\ \A j \in 1..k - 1 + 1 : SubSeq(t, 1, k)[j] = t[1 + j - 1]
  BY <1>1, <1>2, SubSeqProperties
<1>4. SubSeq(t, 1, Len(t)) = t
  BY <1>1, SubSeqFull
<1>5. SubSeq(t, 1, 0) = <<>>
  BY SubSeqEmpty
<1> QED
  BY <1>1, <1>3, <1>4, <1>5 DEF File!Beginning, t

(* Writing the next units behind a beginning makes a longer one.           *)
LEMMA BeginningGrows ==
  ASSUME NEW v \in Versions, NEW k \in 0..Length[v], NEW j \in 0..Length[v] - k
  PROVE  LET f == File!Beginning(v, k)
         IN  SubSeq(f, 1, k) \o SubSeq(File!Text(v), k + 1, k + j) \o SubSeq(f, k + j + 1, Len(f))
               = File!Beginning(v, k + j)
<1> DEFINE f == File!Beginning(v, k)
           t == File!Text(v)
<1>1. t \in Seq(File!Units) /\ Len(t) = Length[v] /\ Length[v] \in Nat
  BY TextIsSeq
<1>2. f \in Seq(File!Units) /\ Len(f) = k
  BY BeginningIsSeq
<1>3. SubSeq(f, 1, k) = f
  BY <1>2, SubSeqFull
<1>4. SubSeq(f, k + j + 1, Len(f)) = <<>>
  BY <1>2, SubSeqEmpty
<1> HIDE DEF t
<1>5. SubSeq(t, 1, k) \o SubSeq(t, k + 1, k + j) = SubSeq(t, 1, k + j)
  BY <1>1, ConcatAdjacentSubSeq
<1>6. k + j \in 0..Length[v]
  BY <1>1
<1>7. f = SubSeq(t, 1, k) /\ File!Beginning(v, k + j) = SubSeq(t, 1, k + j)
  BY DEF File!Beginning, t
<1>8. File!Beginning(v, k + j) \in Seq(File!Units)
  BY <1>6, BeginningIsSeq
<1>9. File!Beginning(v, k + j) \o <<>> = File!Beginning(v, k + j)
  BY <1>8, ConcatEmptySeq
<1> QED
  BY <1>3, <1>4, <1>5, <1>7, <1>9 DEF t

(* There is a beginning without any unit.                                  *)
LEMMA FileInit == File!Init => File!FileInv
<1> SUFFICES ASSUME File!Init PROVE File!FileInv
  OBVIOUS
<1>1. PICK v \in Versions : TRUE
  BY FileAssumption
<1>2. 0 \in 0..Length[v] /\ file = File!Beginning(v, 0)
  BY BeginningIsSeq, TextIsSeq DEF File!Init
<1>3. <<>> \in Seq(File!Units) /\ Len(<<>>) = 0
  OBVIOUS
<1>4. fd \in BOOLEAN /\ ~fd
  BY Zenon DEF File!Init
<1> QED
  BY <1>2, <1>3, <1>4, FileAssumption
     DEF File!Init, File!FileInv, File!TypeOK, File!OneText, File!Saving, File!Loading,
         File!Held, File!NULL, File!NoResult

(* The steps that leave the file, and what is read of it, alone.           *)
LEMMA FileControl ==
  ASSUME File!FileInv,
         \/ File!SaveRefused \/ File!NoText \/ File!Convert \/ File!WriteFails \/ File!Written
         \/ File!Close \/ File!LoadRefused \/ File!ReadFails \/ File!ReadAll \/ File!Parse
         \/ File!Crash \/ UNCHANGED File!vars
  PROVE  File!FileInv'
<1> USE FileAssumption
    DEF File!FileInv, File!TypeOK, File!OneText, File!Saving, File!Loading, File!Held,
        File!NULL, File!NoResult
<1>0. fd' = FALSE => fd' \in BOOLEAN /\ ~fd'
  BY Zenon
<1>1. CASE File!SaveRefused BY <1>1 DEF File!SaveRefused
<1>2. CASE File!NoText BY <1>0, <1>2 DEF File!NoText
<1>3. CASE File!Convert BY <1>3, BeginningIsSeq, TextIsSeq DEF File!Convert
<1>4. CASE File!WriteFails BY <1>4 DEF File!WriteFails, File!WriteError
<1>5. CASE File!Written BY <1>5, BeginningIsSeq, TextIsSeq DEF File!Written
<1>6. CASE File!Close BY <1>0, <1>6 DEF File!Close
<1>7. CASE File!LoadRefused BY <1>7 DEF File!LoadRefused
<1>8. CASE File!ReadFails BY <1>0, <1>8 DEF File!ReadFails, File!BufferFreed
<1>9. CASE File!ReadAll BY <1>0, <1>9, SubSeqFull DEF File!ReadAll
<1>10. CASE File!Parse BY <1>10 DEF File!Parse, File!Parsed
<1>11. CASE File!Crash BY <1>0, <1>11 DEF File!Crash
<1>12. CASE UNCHANGED File!vars BY <1>12 DEF File!vars
<1> QED
  BY <1>1, <1>2, <1>3, <1>4, <1>5, <1>6, <1>7, <1>8, <1>9, <1>10, <1>11, <1>12

(* Opening for a saving cuts the file.                                     *)
LEMMA SaveOpenStep ==
  ASSUME File!FileInv, File!SaveOpen PROVE File!FileInv'
<1>1. PICK v \in Versions : obj' = v /\ file' = <<>>
  BY DEF File!SaveOpen, File!Truncated
<1>2. 0 \in 0..Length[v] /\ file' = File!Beginning(v, 0)
  BY <1>1, BeginningIsSeq, TextIsSeq
<1>3. <<>> \in Seq(File!Units) /\ Len(<<>>) = 0
  OBVIOUS
<1>4. fd' = TRUE /\ fd' \in BOOLEAN
  BY Zenon DEF File!SaveOpen
<1>5. at' = "convert" /\ pos' = 0 /\ UNCHANGED <<mem, got, rc, loaded>> /\ at = "idle"
  BY DEF File!SaveOpen
<1> QED
  BY <1>1, <1>2, <1>3, <1>4, <1>5
     DEF File!FileInv, File!TypeOK, File!OneText, File!Saving, File!Loading, File!Held

(* Opening for a loading starts with an empty buffer.                      *)
LEMMA LoadOpenStep ==
  ASSUME File!FileInv, File!LoadOpen PROVE File!FileInv'
<1>1. <<>> \in Seq(File!Units) /\ Len(<<>>) = 0 /\ SubSeq(file, 1, 0) = <<>>
  BY SubSeqEmpty
<1>2. fd' = TRUE /\ fd' \in BOOLEAN
  BY Zenon DEF File!LoadOpen
<1>3. MaxFile \in Nat /\ Len(file) \in Nat
  BY FileAssumption DEF File!FileInv, File!TypeOK
<1> QED
  BY <1>1, <1>2, <1>3
     DEF File!LoadOpen, File!FileInv, File!TypeOK, File!OneText, File!Saving, File!Loading,
         File!Held

(* A write goes on exactly behind the last one.                            *)
LEMMA WriteStep ==
  ASSUME File!FileInv, File!Write PROVE File!FileInv'
<1>1. /\ at = "write" /\ obj \in Versions /\ pos \in 0..Length[obj] /\ rc = 0
      /\ file = File!Beginning(obj, pos) /\ Length[obj] \in Nat
  BY TextIsSeq DEF File!Write, File!FileInv, File!TypeOK, File!Saving
<1>2. PICK k \in 0..Length[obj] - pos :
        /\ file' = SubSeq(file, 1, pos) \o SubSeq(File!Text(obj), pos + 1, pos + k)
                    \o SubSeq(file, pos + k + 1, Len(file))
        /\ pos' = pos + k
  BY DEF File!Write, File!Advance
<1>3. UNCHANGED <<at, obj, fd, mem, got, rc, loaded>>
  BY DEF File!Write
<1>4. file' = File!Beginning(obj, pos + k)
  BY <1>1, <1>2, BeginningGrows
<1>5. pos + k \in 0..Length[obj]
  BY <1>1, <1>2
<1>6. file' \in Seq(File!Units)
  BY <1>1, <1>4, <1>5, BeginningIsSeq
<1>7. pos' = pos + k /\ pos' \in Nat /\ pos' <= Length[obj]
  BY <1>1, <1>2
<1>8. file' = File!Beginning(obj, pos') /\ pos' \in 0..Length[obj]
  BY <1>4, <1>5, <1>7
<1> QED
  BY <1>1, <1>3, <1>6, <1>7, <1>8
     DEF File!FileInv, File!TypeOK, File!OneText, File!Saving, File!Loading, File!Held

(* A block is appended to those before, and fits when the file does.       *)
LEMMA ReadStep ==
  ASSUME File!FileInv, File!Read PROVE File!FileInv'
<1>1. /\ at = "read" /\ pos \in Nat /\ file \in Seq(File!Units) /\ Len(file) \in Nat
      /\ got \in Seq(File!Units) /\ Len(got) \in Nat /\ Len(got) <= MaxFile
      /\ MaxFile \in Nat
  BY FileAssumption DEF File!Read, File!FileInv, File!TypeOK
<1>2. PICK k \in 1..BlockSize :
        /\ pos + k <= Len(file) /\ pos' = pos + k
        /\ got' = IF File!Full(k) THEN got ELSE got \o SubSeq(file, pos + 1, pos + k)
  BY DEF File!Read
<1>3. k \in Nat /\ k > 0
  BY FileAssumption
<1>4. UNCHANGED <<file, at, obj, fd, mem, rc, loaded>>
  BY DEF File!Read
<1> DEFINE block == SubSeq(file, pos + 1, pos + k)
<1>5. block \in Seq(File!Units) /\ Len(block) = k
  <2>1. \A j \in pos + 1..pos + k : file[j] \in File!Units
    BY <1>1, <1>2, <1>3
  <2> QED
    BY <1>1, <1>3, <2>1, SubSeqProperties
<1> HIDE DEF block
<1>6. got \o block \in Seq(File!Units) /\ Len(got \o block) = Len(got) + k
  BY <1>1, <1>5, ConcatProperties
<1>7. got' \in Seq(File!Units) /\ Len(got') <= MaxFile /\ pos' \in Nat
  BY <1>1, <1>2, <1>3, <1>6 DEF File!Full, block
<1>8. ASSUME Len(file) <= MaxFile PROVE got' = SubSeq(file, 1, pos')
  <2>1. got = SubSeq(file, 1, pos)
    BY <1>1, <1>8 DEF File!FileInv, File!Loading
  <2>2. Len(got) = pos
    <3>1. \A j \in 1..pos : file[j] \in File!Units
      BY <1>1, <1>2, <1>3
    <3> QED
      BY <1>1, <2>1, <3>1, SubSeqProperties
  <2>3. ~File!Full(k)
    BY <1>1, <1>2, <1>3, <1>8, <2>2 DEF File!Full
  <2>4. SubSeq(file, 1, pos) \o SubSeq(file, pos + 1, pos + k) = SubSeq(file, 1, pos + k)
    <3>1. 1 \in 1..Len(file) + 1 /\ pos \in 1 - 1..Len(file) /\ pos + k \in pos..Len(file)
      BY <1>1, <1>2, <1>3
    <3> QED
      BY <1>1, <3>1, ConcatAdjacentSubSeq
  <2> QED
    BY <1>2, <2>1, <2>3, <2>4
<1>9. pos' <= Len(file)
  BY <1>2
<1> QED
  BY <1>1, <1>4, <1>7, <1>8, <1>9
     DEF File!FileInv, File!TypeOK, File!OneText, File!Saving, File!Loading, File!Held

(* The parser finds an object in a beginning of a text only when it is the *)
(* whole text, and that object's.                                          *)
LEMMA ParsedIsWhole ==
  ASSUME File!FileInv, at = "parse", Len(file) <= MaxFile,
         NEW w \in File!Parsed, w \in Versions \cup {"mixed"}
  PROVE  w \in Versions /\ file = File!Text(w)
<1>1. got = file /\ file \in Seq(File!Units)
  BY DEF File!FileInv, File!TypeOK, File!Loading
<1>a. PICK v \in Versions : \E k \in 0..Length[v] : file = File!Beginning(v, k)
  BY DEF File!FileInv, File!OneText
<1>2. PICK k \in 0..Length[v] : file = File!Beginning(v, k)
  BY <1>a
<1>3. Len(file) = k /\ k <= Length[v] /\ \A j \in 1..k : file[j] = <<v, j>>
  BY <1>2, BeginningIsSeq, TextIsSeq
<1>4. File!IsPrefix(got, File!Text(v))
  <2>1. SubSeq(got, 1, Len(got)) = file /\ Len(got) = k
    BY <1>1, <1>3, SubSeqFull
  <2>2. Len(File!Text(v)) = Length[v] /\ SubSeq(File!Text(v), 1, k) = file
    BY <1>2, TextIsSeq DEF File!Beginning
  <2> QED
    BY <1>3, <2>1, <2>2 DEF File!IsPrefix
<1>5. w \in {x \in Versions : File!IsPrefix(File!Text(x), got)} \cup {"NULL"}
  BY <1>2, <1>4 DEF File!Parsed, File!NULL
<1>6. w \in Versions /\ File!IsPrefix(File!Text(w), got)
  BY <1>5, FileAssumption
<1>7. /\ Length[w] \in Nat /\ Length[w] > 0 /\ Length[w] <= k
      /\ SubSeq(file, 1, Length[w]) = File!Text(w)
  <2>1. /\ Len(File!Text(w)) = Length[w] /\ File!Text(w) \in Seq(File!Units)
        /\ Length[w] \in Nat /\ Length[w] > 0
    BY <1>6, TextIsSeq
  <2>2. SubSeq(File!Text(w), 1, Length[w]) = File!Text(w)
    BY <2>1, SubSeqFull
  <2> QED
    BY <1>1, <1>3, <1>6, <2>1, <2>2 DEF File!IsPrefix
<1>8. w = v
  <2>1. SubSeq(file, 1, Length[w])[1] = file[1]
    <3>1. \A j \in 1..Length[w] : file[j] \in File!Units
      BY <1>1, <1>3, <1>7
    <3> QED
      BY <1>7, <3>1, SubSeqProperties
  <2>2. file[1] = <<v, 1>> /\ File!Text(w)[1] = <<w, 1>>
    <3>1. Length[v] \in Nat /\ k \in Nat
      BY TextIsSeq
    <3>2. 1 \in 1..k /\ 1 \in 1..Length[w]
      BY <1>7, <3>1
    <3> QED
      BY <1>3, <1>6, <3>2, TextIsSeq
  <2>3. <<v, 1>> = <<w, 1>>
    BY <1>7, <2>1, <2>2
  <2>4. <<v, 1>>[1] = v /\ <<w, 1>>[1] = w
    OBVIOUS
  <2> QED
    BY <2>3, <2>4, Zenon
<1>9. k = Length[v]
  BY <1>2, <1>7, <1>8
<1> QED
  BY <1>2, <1>6, <1>8, <1>9, BeginningIsSeq

(* The invariant holds throughout savings, loadings and crashes.           *)
LEMMA FileCall == CallsSpec => [](call = "json_util_object" => File!FileInv)
<1>1. CallsInit => (call = "json_util_object" => File!FileInv)
  BY OneStart, FileInit
<1>2. ASSUME call = "json_util_object" => File!FileInv, [CallsNext]_callsVars
      PROVE  (call = "json_util_object" => File!FileInv)'
  <2> SUFFICES ASSUME call = "json_util_object" PROVE File!FileInv'
    BY <1>2, OneCall
  <2>1. File!FileInv /\ [File!Next]_(File!vars)
    BY <1>2, OneCall
  <2> QED
    BY <2>1, FileControl, SaveOpenStep, LoadOpenStep, WriteStep, ReadStep DEF File!Next
<1> QED
  BY <1>1, <1>2, PTL DEF CallsSpec

(* json_util_object_to_file returns 0 only when the file is the whole text, *)
(* and every way out closes the file and frees the buffers (json_ext.c:95). *)
THEOREM SavedIsWholeHolds == CallsSpec => []SavedIsWhole
<1>1. (call = "json_util_object" => File!FileInv) => SavedIsWhole
  BY DEF SavedIsWhole, File!FileInv, File!Saving, File!Held, File!SavedIsWhole, File!NothingHeld
<1> QED
  BY <1>1, FileCall, PTL

(* json_util_object_from_file takes nothing for an object but the whole text *)
(* of one, whatever savings were cut off before (json_ext.c:41).           *)
THEOREM LoadedIsWholeHolds == CallsSpec => LoadedIsWhole
<1> DEFINE Whole == loaded' # loaded /\ loaded' \in Versions \cup {"mixed"} /\ Len(file) <= MaxFile =>
                      loaded' \in Versions /\ file = File!Text(loaded')
<1>1. ASSUME call = "json_util_object" => File!FileInv, [CallsNext]_callsVars
      PROVE  [Whole]_(File!vars)
  <2> SUFFICES ASSUME loaded' # loaded, loaded' \in Versions \cup {"mixed"}, Len(file) <= MaxFile
               PROVE  loaded' \in Versions /\ file = File!Text(loaded')
    OBVIOUS
  <2>1. call = "json_util_object" /\ File!Next
    BY <1>1 DEF CallsNext, callsVars, jsonFile, File!vars
  <2>2. File!Parse
    BY <2>1, FileAssumption
       DEF File!Next, File!SaveRefused, File!SaveOpen, File!NoText, File!Convert, File!Write,
           File!WriteFails, File!Written, File!Close, File!LoadRefused, File!LoadOpen,
           File!Read, File!ReadFails, File!ReadAll, File!Crash, File!NULL
  <2> QED
    BY <1>1, <2>1, <2>2, ParsedIsWhole DEF File!Parse
<1> QED
  BY <1>1, FileCall, PTL DEF CallsSpec, LoadedIsWhole, File!LoadedIsWhole

-----------------------------------------------------------------------------
(* module_export_xls                                                       *)

(* The queries and the rows are as many as the types say.                  *)
LEMMA BookFacts ==
  ASSUME Xls!TypeOK
  PROVE  /\ DOMAIN list = 1..Len(list) /\ Len(list) \in Nat /\ q \in Nat /\ n \in Nat
         /\ \A j \in DOMAIN list : rows[j] \in Nat /\ rows[j] <= MaxRows
BY StatementAssumption, ExportAssumption DEF Xls!TypeOK

(* A step that fetches no row leaves every cell to its row.                *)
LEMMA SameCells ==
  ASSUME Xls!InPlace, UNCHANGED <<list, rows, cells>>, ret' = 0 => ret = 0,
         \A j \in DOMAIN list : \A k \in 1..rows[j] : Xls!Past(j, k)' <=> Xls!Past(j, k)
  PROVE  Xls!InPlace'
<1> SUFFICES ASSUME ret' = 0 PROVE Xls!InPlace'
  BY DEF Xls!InPlace
<1>1. ret = 0
  OBVIOUS
<1> QED
  BY <1>1 DEF Xls!InPlace

(* A call starts without a book.                                           *)
LEMMA BookInit == Xls!Init => Xls!BookInv
<1> SUFFICES ASSUME Xls!Init PROVE Xls!BookInv
  OBVIOUS
<1>1. list \in Seq(Queries) /\ Len(list) \in Nat
  BY ExportAssumption DEF Xls!Init
<1>2. named \in BOOLEAN /\ ~named
  BY Zenon DEF Xls!Init
<1>3. DOMAIN cells = {}
  BY DEF Xls!Init, Xls!Template
<1>4. Xls!TypeOK /\ Xls!BookSteps
  BY <1>1, <1>2, <1>3, StatementAssumption DEF Xls!Init, Xls!TypeOK, Xls!BookSteps
<1>5. Xls!InPlace
  BY <1>1, <1>3 DEF Xls!Init, Xls!InPlace, Xls!Past
<1> QED
  BY <1>4, <1>5 DEF Xls!BookInv

(* The steps that fetch no row.                                            *)
LEMMA BookControl ==
  ASSUME Xls!BookInv,
         \/ Xls!CreateFile \/ Xls!CreateFails \/ Xls!Load \/ Xls!LoadFails \/ Xls!GetSheet
         \/ Xls!NoSheet \/ Xls!FetchEnds \/ Xls!SqlFails \/ Xls!LoopEnds \/ Xls!Save
         \/ Xls!SaveFails \/ Xls!NotSaved \/ Xls!Release \/ UNCHANGED Xls!vars
  PROVE  Xls!BookInv'
<1> USE DEF Xls!TypeOK, Xls!BookSteps
<1>a. Xls!TypeOK /\ Xls!BookSteps /\ Xls!InPlace
  BY DEF Xls!BookInv
<1>b. /\ DOMAIN list = 1..Len(list) /\ Len(list) \in Nat /\ q \in Nat /\ n \in Nat
      /\ \A j \in DOMAIN list : rows[j] \in Nat /\ rows[j] <= MaxRows
  BY <1>a, BookFacts
<1>c. named' = TRUE => named' \in BOOLEAN /\ named'
  BY Zenon
<1>d. MaxRows \in Nat
  BY StatementAssumption
<1> USE <1>a, <1>b, <1>d
<1>1. Xls!TypeOK' /\ Xls!BookSteps'
  <2>1. CASE Xls!CreateFile BY <2>1 DEF Xls!CreateFile, Xls!Truncated
  <2>2. CASE Xls!CreateFails BY <2>2 DEF Xls!CreateFails
  <2>3. CASE Xls!Load BY <2>3 DEF Xls!Load
  <2>4. CASE Xls!LoadFails BY <2>4 DEF Xls!LoadFails
  <2>5. CASE Xls!GetSheet BY <2>5 DEF Xls!GetSheet
  <2>6. CASE Xls!NoSheet BY <2>6 DEF Xls!NoSheet
  <2>7. CASE Xls!FetchEnds BY <2>7 DEF Xls!FetchEnds
  <2>8. CASE Xls!SqlFails BY <2>8 DEF Xls!SqlFails
  <2>9. CASE Xls!LoopEnds BY <2>9 DEF Xls!LoopEnds
  <2>10. CASE Xls!Save BY <2>10, <1>c DEF Xls!Save, Xls!MaySave
  <2>11. CASE Xls!SaveFails BY <2>11 DEF Xls!SaveFails
  <2>12. CASE Xls!NotSaved BY <2>12 DEF Xls!NotSaved, Xls!MaySave
  <2>13. CASE Xls!Release BY <2>13 DEF Xls!Release, Xls!Released
  <2>14. CASE UNCHANGED Xls!vars BY <2>14 DEF Xls!vars
  <2> QED
    BY <2>1, <2>2, <2>3, <2>4, <2>5, <2>6, <2>7, <2>8, <2>9, <2>10, <2>11, <2>12, <2>13, <2>14
<1>2. Xls!InPlace'
  <2>1. CASE Xls!CreateFails \/ Xls!LoadFails \/ Xls!NoSheet \/ Xls!SqlFails \/ Xls!SaveFails
    BY <2>1 DEF Xls!CreateFails, Xls!LoadFails, Xls!NoSheet, Xls!SqlFails, Xls!SaveFails, Xls!InPlace
  <2>2. CASE \/ Xls!CreateFile \/ Xls!Load \/ Xls!GetSheet \/ Xls!FetchEnds \/ Xls!LoopEnds
             \/ Xls!Save \/ Xls!NotSaved \/ Xls!Release \/ UNCHANGED Xls!vars
    BY <2>2, SameCells
       DEF Xls!CreateFile, Xls!Load, Xls!GetSheet, Xls!FetchEnds, Xls!LoopEnds, Xls!Save,
           Xls!NotSaved, Xls!Release, Xls!vars, Xls!Past
  <2> QED
    BY <2>1, <2>2
<1> QED
  BY <1>1, <1>2 DEF Xls!BookInv

(* A restart starts anew, with what the file is by then.                   *)
LEMMA KilledStep ==
  ASSUME Xls!BookInv, Xls!Killed PROVE Xls!BookInv'
<1>1. Xls!TypeOK /\ Xls!BookSteps
  BY DEF Xls!BookInv
<1>2. /\ DOMAIN list = 1..Len(list) /\ Len(list) \in Nat
      /\ \A j \in DOMAIN list : rows[j] \in Nat /\ rows[j] <= MaxRows
  BY <1>1, BookFacts
<1>3. named' \in BOOLEAN /\ ~named'
  BY Zenon DEF Xls!Killed
<1>4. DOMAIN cells' = {} /\ cells' = Xls!Template
  BY DEF Xls!Killed, Xls!Template
<1>5. file'.is \in {"older", "empty", "cut"}
  BY <1>1 DEF Xls!Killed, Xls!TypeOK
<1>6. Xls!TypeOK' /\ Xls!BookSteps'
  BY <1>1, <1>2, <1>3, <1>4, <1>5, StatementAssumption DEF Xls!Killed, Xls!TypeOK, Xls!BookSteps
<1>7. Xls!InPlace'
  BY <1>2, <1>4 DEF Xls!Killed, Xls!InPlace, Xls!Past
<1> QED
  BY <1>6, <1>7 DEF Xls!BookInv

(* The cells of a row are its places that lie in the sheet.                *)
LEMMA CellsAre ==
  ASSUME NEW query \in Queries, NEW k \in Nat, NEW c
  PROVE  c \in Xls!CellsOf(query, k) <=>
           /\ Xls!InSheet(c)
           /\ \E w \in 0..query.width - 1 : c = <<query.sheet, query.row + k - 1, query.col + w>>
<1> DEFINE row == query.row + k - 1
<1>1. query.row \in Int /\ query.col \in Int /\ query.width \in Int
  BY ExportAssumption
<1>2. ASSUME c \in Xls!CellsOf(query, k)
      PROVE  /\ Xls!InSheet(c)
             /\ \E w \in 0..query.width - 1 : c = <<query.sheet, row, query.col + w>>
  <2>1. Xls!InSheet(c) /\ c \in {query.sheet} \X {row} \X (query.col..query.col + query.width - 1)
    BY <1>2 DEF Xls!CellsOf, Xls!RowOf
  <2>2. PICK x \in query.col..query.col + query.width - 1 : c = <<query.sheet, row, x>>
    BY <2>1
  <2>3. x - query.col \in 0..query.width - 1 /\ x = query.col + (x - query.col)
    BY <1>1
  <2> QED
    BY <2>1, <2>2, <2>3
<1>3. ASSUME Xls!InSheet(c), NEW w \in 0..query.width - 1, c = <<query.sheet, row, query.col + w>>
      PROVE  c \in Xls!CellsOf(query, k)
  <2>1. query.col + w \in query.col..query.col + query.width - 1
    BY <1>1
  <2> QED
    BY <1>3, <2>1 DEF Xls!CellsOf, Xls!RowOf
<1> QED
  BY <1>2, <1>3

(* A row takes its cells over from the rows before it, and no other's.     *)
LEMMA FetchRowStep ==
  ASSUME Xls!BookInv, Xls!FetchRow PROVE Xls!BookInv'
<1> DEFINE new == Xls!CellsOf(list[q], n + 1)
<1>1. /\ at = "fill" /\ n < rows[q] /\ n' = n + 1
      /\ cells' = [c \in DOMAIN cells \cup new |-> IF c \in new THEN <<q, n + 1>> ELSE cells[c]]
      /\ UNCHANGED <<list, rows, at, file, book, q, ret, named>>
  BY DEF Xls!FetchRow
<1>2. Xls!TypeOK /\ Xls!BookSteps /\ Xls!InPlace
  BY DEF Xls!BookInv
<1>3. /\ DOMAIN list = 1..Len(list) /\ Len(list) \in Nat /\ q \in Nat /\ n \in Nat
      /\ \A j \in DOMAIN list : rows[j] \in Nat /\ rows[j] <= MaxRows
  BY <1>2, BookFacts
<1>4. /\ ret = 0 /\ q \in DOMAIN list /\ list[q].sheet \in Sheets /\ n + 1 \in 1..rows[q]
      /\ file.is = "empty" /\ n + 1 \in 1..MaxRows /\ list[q] \in Queries /\ MaxRows \in Nat
  <2>1. ret = 0 /\ q <= Len(list) /\ list[q].sheet \in Sheets /\ file.is = "empty"
    BY <1>1, <1>2 DEF Xls!BookSteps
  <2>2. q \in DOMAIN list /\ rows[q] \in Nat /\ rows[q] <= MaxRows
    BY <1>2, <1>3, <2>1 DEF Xls!TypeOK
  <2>3. list[q] \in Queries
    BY <1>2, <1>3, <2>2, ExportAssumption DEF Xls!TypeOK
  <2> QED
    BY <1>1, <1>3, <2>1, <2>2, <2>3, StatementAssumption
<1>5. new \subseteq Sheets \X (0..LastRow) \X (0..LastCol)
  <2> SUFFICES ASSUME NEW c \in new PROVE c \in Sheets \X (0..LastRow) \X (0..LastCol)
    OBVIOUS
  <2>1. PICK w : c = <<list[q].sheet, list[q].row + (n + 1) - 1, list[q].col + w>>
    BY <1>3, <1>4, CellsAre
  <2>2. c[2] \in 0..LastRow /\ c[3] \in 0..LastCol
    BY DEF Xls!CellsOf, Xls!InSheet
  <2> QED
    BY <1>4, <2>1, <2>2
<1> HIDE DEF new
<1>6. DOMAIN cells' = DOMAIN cells \cup new
  BY <1>1
<1>7. \A c \in DOMAIN cells' : cells'[c] = IF c \in new THEN <<q, n + 1>> ELSE cells[c]
  BY <1>1
<1>8. Xls!TypeOK'
  <2>1. \A c \in DOMAIN cells' : cells'[c] \in (DOMAIN list) \X (1..MaxRows)
    <3>1. \A c \in DOMAIN cells : cells[c] \in (DOMAIN list) \X (1..MaxRows)
      BY <1>2 DEF Xls!TypeOK
    <3>2. <<q, n + 1>> \in (DOMAIN list) \X (1..MaxRows)
      BY <1>4
    <3> QED
      BY <1>6, <1>7, <3>1, <3>2
  <2>2. DOMAIN cells' \subseteq Sheets \X (0..LastRow) \X (0..LastCol)
    BY <1>2, <1>5, <1>6 DEF Xls!TypeOK
  <2>3. n' \in 0..MaxRows
    BY <1>1, <1>3, <1>4
  <2> QED
    BY <1>1, <1>2, <1>4, <2>1, <2>2, <2>3 DEF Xls!TypeOK
<1>9. Xls!BookSteps'
  BY <1>1, <1>2, <1>3, <1>4 DEF Xls!BookSteps
<1>10. Xls!InPlace'
  <2>1. \A j \in DOMAIN list : \A k \in 1..rows[j] :
          Xls!Past(j, k)' <=> Xls!Past(j, k) \/ (j = q /\ k = n + 1)
    BY <1>1, <1>3, <1>4 DEF Xls!Past
  <2>2. \A j \in DOMAIN list : \A k \in 1..rows[j] :
          Xls!Past(j, k)' => Xls!CellsOf(list[j], k) \subseteq DOMAIN cells'
    BY <1>2, <1>4, <1>6, <2>1 DEF Xls!InPlace, new
  <2>3. ASSUME NEW c \in DOMAIN cells'
        PROVE  \E j \in DOMAIN list : \E k \in 1..rows[j] :
                 Xls!Past(j, k)' /\ cells'[c] = <<j, k>> /\ c \in Xls!CellsOf(list[j], k)
    <3>1. CASE c \in new
      BY <1>4, <1>7, <2>1, <3>1 DEF new
    <3>2. CASE c \notin new
      <4>1. PICK j \in DOMAIN list : \E k \in 1..rows[j] :
              Xls!Past(j, k) /\ cells[c] = <<j, k>> /\ c \in Xls!CellsOf(list[j], k)
        BY <1>2, <1>4, <1>6, <3>2 DEF Xls!InPlace
      <4> QED
        BY <1>7, <2>1, <3>2, <4>1
    <3> QED
      BY <3>1, <3>2
  <2>4. ASSUME NEW c \in DOMAIN cells', NEW j \in DOMAIN list, NEW k \in 1..rows[j],
               Xls!Past(j, k)', c \in Xls!CellsOf(list[j], k)
        PROVE  j <= cells'[c][1]
    <3>1. CASE c \in new
      <4>1. j <= q
        BY <1>3, <2>1, <2>4 DEF Xls!Past
      <4> QED
        BY <1>7, <3>1, <4>1
    <3>2. CASE c \notin new
      <4>1. Xls!Past(j, k) /\ c \in DOMAIN cells
        BY <1>6, <2>1, <2>4, <3>2 DEF new
      <4> QED
        BY <1>2, <1>4, <1>7, <2>4, <3>2, <4>1 DEF Xls!InPlace
    <3> QED
      BY <3>1, <3>2
  <2>5. UNCHANGED <<list, rows>>
    BY <1>1
  <2> QED
    BY <2>2, <2>3, <2>4, <2>5 DEF Xls!InPlace
<1> QED
  BY <1>8, <1>9, <1>10 DEF Xls!BookInv

(* What the invariant promises of the file that is left.                   *)
LEMMA BookPromises ==
  ASSUME Xls!BookInv PROVE Xls!BookComplete /\ Xls!NoHalfBook /\ Xls!BookReleased
<1>1. Xls!TypeOK /\ Xls!BookSteps /\ Xls!InPlace
  BY DEF Xls!BookInv
<1>2. /\ DOMAIN list = 1..Len(list) /\ Len(list) \in Nat
      /\ \A j \in DOMAIN list : rows[j] \in Nat /\ list[j] \in Queries
  BY <1>1, BookFacts, ExportAssumption DEF Xls!TypeOK
<1>3. Xls!NoHalfBook /\ Xls!BookReleased
  <2>1. at = "done" /\ ret # 0 => file.is # "book" /\ ~named
    BY <1>1 DEF Xls!BookSteps
  <2>2. at \notin {"create", "done"} => file.is # "older"
    <3>1. at = "release" /\ ret = 0 => file.is = "book"
      BY <1>1 DEF Xls!BookSteps
    <3>2. at \in {"load", "sheet", "fill", "save"} => file.is = "empty"
      BY <1>1 DEF Xls!BookSteps
    <3>3. at = "release" /\ ret # 0 => file.is # "older"
      BY <1>1 DEF Xls!BookSteps
    <3>4. at \in {"create", "load", "sheet", "fill", "save", "release", "done"}
      BY <1>1 DEF Xls!TypeOK
    <3> QED
      BY <3>1, <3>2, <3>3, <3>4
  <2> QED
    BY <1>1, <2>1, <2>2 DEF Xls!BookSteps, Xls!NoHalfBook, Xls!BookReleased
<1>4. ASSUME at = "done", ret = 0
      PROVE  /\ file.is = "book" /\ named
             /\ DOMAIN file.cells = {c \in Xls!Covered : Xls!InSheet(c)}
             /\ \A c \in DOMAIN file.cells :
                  /\ file.cells[c] \in Xls!Claims(c)
                  /\ \A e \in Xls!Claims(c) : e[1] <= file.cells[c][1]
  <2>1. file = [is |-> "book", cells |-> cells] /\ named /\ q = Len(list) + 1
    BY <1>1, <1>4 DEF Xls!BookSteps
  <2>2. file.is = "book" /\ file.cells = cells
    BY <2>1
  <2>3. \A j \in DOMAIN list : \A k \in 1..rows[j] : Xls!Past(j, k)
    BY <1>2, <2>1 DEF Xls!Past
  <2>4. ASSUME NEW c, NEW j \in DOMAIN list, NEW k \in 1..rows[j], c \in Xls!CellsOf(list[j], k)
        PROVE  /\ c \in Xls!Covered /\ Xls!InSheet(c)
               /\ <<j, k>> \in Xls!Claims(c)
    <3> DEFINE query == list[j]
    <3>1. query \in Queries /\ k \in Nat
      BY <1>2
    <3> HIDE DEF query
    <3>2. PICK w \in 0..query.width - 1 : c = <<query.sheet, query.row + k - 1, query.col + w>>
      BY <2>4, <3>1, CellsAre DEF query
    <3>3. Xls!InSheet(c)
      BY <2>4 DEF Xls!CellsOf
    <3>4. c \in Xls!Covered
      BY <3>2 DEF Xls!Covered, query
    <3>5. query.col + w \in query.col..query.col + query.width - 1
      BY <3>1, ExportAssumption
    <3>6. c[1] = query.sheet /\ c[2] = query.row + k - 1 /\ c[3] \in query.col..query.col + query.width - 1
      BY <3>2, <3>5
    <3>7. <<j, k>> \in UNION {{i} \X (1..rows[i]) : i \in DOMAIN list}
      OBVIOUS
    <3>8. <<j, k>>[1] = j /\ <<j, k>>[2] = k
      OBVIOUS
    <3> QED
      BY <3>3, <3>4, <3>6, <3>7, <3>8 DEF Xls!Claims, query
  <2>5. ASSUME NEW c \in Xls!Covered, Xls!InSheet(c)
        PROVE  c \in DOMAIN cells
    <3>1. PICK j \in DOMAIN list : \E k \in 1..rows[j] : \E w \in 0..list[j].width - 1 :
            c = <<list[j].sheet, list[j].row + k - 1, list[j].col + w>>
      BY DEF Xls!Covered
    <3>2. PICK k \in 1..rows[j] : \E w \in 0..list[j].width - 1 :
            c = <<list[j].sheet, list[j].row + k - 1, list[j].col + w>>
      BY <3>1
    <3>3. c \in Xls!CellsOf(list[j], k)
      BY <1>2, <2>5, <3>2, CellsAre
    <3> QED
      BY <1>1, <1>4, <2>3, <3>3 DEF Xls!InPlace
  <2>6. ASSUME NEW c \in DOMAIN cells
        PROVE  /\ c \in Xls!Covered /\ Xls!InSheet(c)
               /\ cells[c] \in Xls!Claims(c)
    BY <1>1, <1>4, <2>4 DEF Xls!InPlace
  <2>7. ASSUME NEW c \in DOMAIN cells, NEW e \in Xls!Claims(c)
        PROVE  e[1] <= cells[c][1]
    <3>1. PICK j \in DOMAIN list : \E k \in 1..rows[j] : e = <<j, k>>
      BY DEF Xls!Claims
    <3>2. PICK k \in 1..rows[j] : e = <<j, k>>
      BY <3>1
    <3> DEFINE query == list[j]
    <3>3. query \in Queries /\ k \in Nat
      BY <1>2
    <3>4. /\ c[1] = query.sheet /\ c[2] = query.row + k - 1
          /\ c[3] \in query.col..query.col + query.width - 1
      BY <3>2 DEF Xls!Claims
    <3>5. c \in Sheets \X (0..LastRow) \X (0..LastCol)
      BY <1>1 DEF Xls!TypeOK
    <3>6. c = <<c[1], c[2], c[3]>>
      BY <3>5
    <3>7. c \in Xls!CellsOf(query, k)
      <4>1. c \in {query.sheet} \X {query.row + k - 1} \X (query.col..query.col + query.width - 1)
        BY <3>4, <3>6
      <4> QED
        BY <2>6, <4>1 DEF Xls!CellsOf, Xls!RowOf
    <3>8. j <= cells[c][1]
      BY <1>1, <1>4, <2>3, <3>7 DEF Xls!InPlace
    <3> QED
      BY <3>2, <3>8
  <2>8. DOMAIN cells = {c \in Xls!Covered : Xls!InSheet(c)}
    BY <2>5, <2>6
  <2> QED
    BY <2>1, <2>2, <2>6, <2>7, <2>8
<1> QED
  BY <1>3, <1>4 DEF Xls!BookComplete

(* The invariant holds throughout exports and restarts.                    *)
LEMMA BookCall == CallsSpec => [](call = "module_export_xls" => Xls!BookInv)
<1>1. CallsInit => (call = "module_export_xls" => Xls!BookInv)
  BY OneStart, BookInit
<1>2. ASSUME call = "module_export_xls" => Xls!BookInv, [CallsNext]_callsVars
      PROVE  (call = "module_export_xls" => Xls!BookInv)'
  <2> SUFFICES ASSUME call = "module_export_xls" PROVE Xls!BookInv'
    BY <1>2, OneCall
  <2>1. Xls!BookInv /\ [Xls!Next]_(Xls!vars)
    BY <1>2, OneCall
  <2> QED
    BY <2>1, BookControl, KilledStep, FetchRowStep DEF Xls!Next, Xls!Done
<1> QED
  BY <1>1, <1>2, PTL DEF CallsSpec

(* module_export_xls returns 0 only with every row of every query in its   *)
(* place, leaves no half or older book, and releases the book              *)
(* (process_util.c:1448).                                                  *)
THEOREM WholeBookOrNoneHolds == CallsSpec => []WholeBookOrNone
<1>1. (call = "module_export_xls" => Xls!BookInv) => WholeBookOrNone
  BY BookPromises DEF WholeBookOrNone
<1> QED
  BY <1>1, BookCall, PTL

-----------------------------------------------------------------------------
(* module_select_page                                                      *)

(* A page begins a size before it ends.                                    *)
LEMMA PageBounds ==
  ASSUME Pages!TypeOK
  PROVE  /\ Pages!Before \in Nat /\ page * size \in Nat /\ page * size = Pages!Before + size
         /\ table \in Seq(Rows) /\ Len(table) \in Nat
<1>1. /\ table \in Seq(Rows) /\ Len(table) \in Nat
      /\ page \in Nat /\ page - 1 \in Nat /\ size \in Nat /\ size > 0
  BY PagesAssumption DEF Pages!TypeOK
<1>2. \A a \in Nat, b \in Nat : a * b \in Nat
  OBVIOUS
<1>3. page * size = (page - 1) * size + size
  BY <1>1
<1> QED
  BY <1>1, <1>2, <1>3 DEF Pages!Before

(* The handler's limit cuts nothing off the window of a page.              *)
LEMMA WindowIsPage ==
  ASSUME Pages!TypeOK
  PROVE  /\ Pages!Window \in Seq(Rows)
         /\ Pages!Window =
              SubSeq(table, Pages!Before + 1, Pages!Lesser(page * size, Len(table)))
<1> DEFINE b == Pages!Before
           e == Pages!Lesser(page * size, Len(table))
<1>1. /\ table \in Seq(Rows) /\ Len(table) \in Nat /\ b \in Nat /\ size \in Nat
      /\ e \in Nat /\ e <= b + size /\ e <= Len(table)
  BY PageBounds DEF Pages!Lesser, Pages!TypeOK
<1>2. Pages!InPage = SubSeq(table, b + 1, e)
  BY DEF Pages!InPage
<1> HIDE DEF b, e
<1>3. \A k \in b + 1..e : table[k] \in Rows
  BY <1>1
<1>4. /\ Pages!InPage \in Seq(Rows)
      /\ Len(Pages!InPage) = IF b + 1 <= e THEN e - (b + 1) + 1 ELSE 0
  BY <1>1, <1>2, <1>3, SubSeqProperties
<1>5. Pages!Limit(Len(Pages!InPage)) = Len(Pages!InPage)
  BY <1>1, <1>4 DEF Pages!Limit, Pages!Lesser
<1>6. Pages!Window = Pages!InPage
  BY <1>4, <1>5, SubSeqFull DEF Pages!Window
<1> QED
  BY <1>2, <1>4, <1>6 DEF b, e

(* The rows before a page and those of the page are the rows up to its end, *)
(* behind the end of the table too.                                        *)
LEMMA NextPageJoins ==
  ASSUME Pages!TypeOK
  PROVE  SubSeq(table, 1, Pages!Lesser(Pages!Before, Len(table))) \o Pages!Window
           = SubSeq(table, 1, Pages!Lesser(page * size, Len(table)))
<1> DEFINE b == Pages!Before
           e == Pages!Lesser(page * size, Len(table))
<1>1. /\ table \in Seq(Rows) /\ Len(table) \in Nat /\ b \in Nat /\ size \in Nat
      /\ page * size = b + size /\ page * size \in Nat
  BY PageBounds DEF Pages!TypeOK
<1>2. Pages!Window = SubSeq(table, b + 1, e)
  BY WindowIsPage
<1> HIDE DEF b
<1>3. CASE b <= Len(table)
  <2>1. Pages!Lesser(b, Len(table)) = b
    BY <1>1, <1>3 DEF Pages!Lesser
  <2>2. 1 \in 1..Len(table) + 1 /\ b \in 1 - 1..Len(table) /\ e \in b..Len(table)
    BY <1>1, <1>3 DEF Pages!Lesser
  <2> HIDE DEF e
  <2>3. SubSeq(table, 1, b) \o SubSeq(table, b + 1, e) = SubSeq(table, 1, e)
    BY <1>1, <2>2, ConcatAdjacentSubSeq
  <2> QED
    BY <1>2, <2>1, <2>3 DEF b, e
<1>4. CASE b > Len(table)
  <2>1. Pages!Lesser(b, Len(table)) = Len(table) /\ e = Len(table)
    BY <1>1, <1>4 DEF Pages!Lesser
  <2>2. SubSeq(table, b + 1, e) = <<>>
    BY <1>1, <1>4, <2>1, SubSeqEmpty
  <2>3. SubSeq(table, 1, Len(table)) = table /\ table \o <<>> = table
    BY <1>1, SubSeqFull, ConcatEmptySeq
  <2> QED
    BY <1>2, <2>1, <2>2, <2>3 DEF b, e
<1>5. b <= Len(table) \/ b > Len(table)
  BY <1>1
<1> QED
  BY <1>3, <1>4, <1>5 DEF b

(* Nothing is read before the first page.                                  *)
LEMMA PagesInit == Pages!Init => Pages!PagesInv
<1> SUFFICES ASSUME Pages!Init PROVE Pages!PagesInv
  OBVIOUS
<1>1. table \in Seq(Rows) /\ Len(table) \in Nat /\ SubSeq(table, 1, 0) = <<>>
  BY SubSeqEmpty, PagesAssumption DEF Pages!Init
<1>2. <<>> \in Seq(Rows)
  OBVIOUS
<1> QED
  BY <1>1, <1>2, PagesAssumption
     DEF Pages!Init, Pages!PagesInv, Pages!TypeOK, Pages!InTurn, Pages!Lesser

(* The steps that ask for and read no row.                                 *)
LEMMA PagesControl ==
  ASSUME Pages!PagesInv,
         \/ Pages!CountFails \/ Pages!NoFrom \/ Pages!Count \/ Pages!Change
         \/ UNCHANGED Pages!vars
  PROVE  Pages!PagesInv'
<1>1. table \in Seq(Rows) /\ Len(table) \in Nat
  BY PagesAssumption DEF Pages!PagesInv, Pages!TypeOK
<1> USE <1>1 DEF Pages!PagesInv, Pages!TypeOK, Pages!InTurn
<1>2. CASE Pages!CountFails BY <1>2 DEF Pages!CountFails
<1>3. CASE Pages!NoFrom BY <1>3 DEF Pages!NoFrom
<1>4. CASE Pages!Count BY <1>4 DEF Pages!Count, Pages!Before
<1>5. CASE Pages!Change BY <1>5 DEF Pages!Change
<1>6. CASE UNCHANGED Pages!vars BY <1>6 DEF Pages!vars, Pages!Before
<1> QED
  BY <1>2, <1>3, <1>4, <1>5, <1>6

(* Another page follows the last one, or the pages are not read in turn.   *)
LEMMA AskStep ==
  ASSUME Pages!PagesInv, Pages!Ask PROVE Pages!PagesInv'
<1>1. /\ page' \in Nat \ {0} /\ size' \in Nat \ {0}
      /\ readTo' = IF readTo = (page' - 1) * size' THEN readTo ELSE -1
  BY PagesAssumption DEF Pages!Ask, Pages!Number
<1>2. /\ calls' = calls + 1 /\ calls < MaxCalls /\ at' = "total"
      /\ UNCHANGED <<table, total, rows, ret>>
  BY DEF Pages!Ask
<1>3. readTo' \in Int
  BY <1>1 DEF Pages!PagesInv, Pages!TypeOK
<1>4. Pages!TypeOK'
  BY <1>1, <1>2, <1>3, PagesAssumption DEF Pages!PagesInv, Pages!TypeOK
<1>5. Pages!InTurn'
  <2> SUFFICES ASSUME readTo' # -1
               PROVE  /\ readTo' \in Nat
                      /\ rows' = SubSeq(table', 1, Pages!Lesser(readTo', Len(table')))
                      /\ readTo' = Pages!Before'
    BY <1>2 DEF Pages!InTurn
  <2>1. readTo' = readTo /\ readTo' = (page' - 1) * size'
    BY <1>1
  <2> QED
    BY <1>2, <2>1 DEF Pages!PagesInv, Pages!InTurn, Pages!Before
<1> QED
  BY <1>4, <1>5 DEF Pages!PagesInv

(* A page is joined to those before.                                       *)
LEMMA PageStep ==
  ASSUME Pages!PagesInv, Pages!Fetch PROVE Pages!PagesInv'
<1>1. /\ at = "rows" /\ rows' = rows \o Pages!Window
      /\ readTo' = IF readTo = -1 THEN -1 ELSE page * size
      /\ ret' = 0 /\ at' = "idle" /\ UNCHANGED <<table, page, size, total, calls>>
  BY DEF Pages!Fetch
<1>2. Pages!TypeOK /\ Pages!InTurn
  BY DEF Pages!PagesInv
<1>3. page * size \in Nat
  BY <1>2, PageBounds
<1>4. rows' \in Seq(Rows)
  <2>1. Pages!Window \in Seq(Rows) /\ rows \in Seq(Rows)
    BY <1>2, WindowIsPage DEF Pages!TypeOK
  <2> QED
    BY <1>1, <2>1, ConcatProperties
<1>5. readTo # -1 => rows' = SubSeq(table, 1, Pages!Lesser(page * size, Len(table)))
  BY <1>1, <1>2, NextPageJoins DEF Pages!InTurn
<1>6. Pages!TypeOK'
  BY <1>1, <1>2, <1>3, <1>4 DEF Pages!TypeOK
<1>7. Pages!InTurn'
  BY <1>1, <1>2, <1>3, <1>5 DEF Pages!InTurn
<1> QED
  BY <1>6, <1>7 DEF Pages!PagesInv

(* A page that fails ends the reading in turn.                             *)
LEMMA PageFailsStep ==
  ASSUME Pages!PagesInv, Pages!FetchFails PROVE Pages!PagesInv'
<1>1. PICK k \in 0..Len(Pages!Window) : rows' = rows \o SubSeq(Pages!Window, 1, k)
  BY DEF Pages!FetchFails
<1>2. Pages!TypeOK
  BY DEF Pages!PagesInv
<1>3. rows' \in Seq(Rows)
  <2>1. Pages!Window \in Seq(Rows) /\ rows \in Seq(Rows)
    BY <1>2, WindowIsPage DEF Pages!TypeOK
  <2>2. \A j \in 1..k : Pages!Window[j] \in Rows
    BY <2>1
  <2>3. SubSeq(Pages!Window, 1, k) \in Seq(Rows)
    BY <2>2, SubSeqProperties
  <2> QED
    BY <1>1, <2>1, <2>3, ConcatProperties
<1> QED
  BY <1>2, <1>3 DEF Pages!FetchFails, Pages!PagesInv, Pages!TypeOK, Pages!InTurn

(* The invariant holds throughout the calls of a cycle.                    *)
LEMMA PagesCall == CallsSpec => [](call = "module_select_page" => Pages!PagesInv)
<1>1. CallsInit => (call = "module_select_page" => Pages!PagesInv)
  BY OneStart, PagesInit
<1>2. ASSUME call = "module_select_page" => Pages!PagesInv, [CallsNext]_callsVars
      PROVE  (call = "module_select_page" => Pages!PagesInv)'
  <2> SUFFICES ASSUME call = "module_select_page" PROVE Pages!PagesInv'
    BY <1>2, OneCall
  <2>1. Pages!PagesInv /\ [Pages!Next]_(Pages!vars)
    BY <1>2, OneCall
  <2> QED
    BY <2>1, PagesControl, AskStep, PageStep, PageFailsStep DEF Pages!Next, Pages!Done
<1> QED
  BY <1>1, <1>2, PTL DEF CallsSpec

(* Pages asked for in turn put the table together (process_util.c:393).    *)
THEOREM PagesJoinHolds == CallsSpec => []PagesJoin
<1>1. (call = "module_select_page" => Pages!PagesInv) => PagesJoin
  BY DEF PagesJoin, Pages!PagesInv, Pages!InTurn, Pages!PagesJoin
<1> QED
  BY <1>1, PagesCall, PTL

-----------------------------------------------------------------------------
(* gen_group_where, for every rule                                         *)

(* A text is made of the rule that was given.                              *)
LEMMA RuleInit == ASSUME Where!Init PROVE Where!RuleInv
BY DEF Where!Init, Where!RuleInv

LEMMA RuleStep == ASSUME Where!RuleInv, [Where!Next]_(Where!vars) PROVE Where!RuleInv'
<1>1. CASE Where!Generate
  BY <1>1 DEF Where!Generate, Where!RuleInv
<1>2. CASE UNCHANGED Where!vars
  BY <1>2 DEF Where!vars, Where!RuleInv
<1> QED
  BY <1>1, <1>2 DEF Where!Next

(* The text of a rule has all its conditions, balanced, and can be read    *)
(* when the rule is clean only.                                            *)
LEMMA RuleText ==
  ASSUME NEW r \in RuleLists
  PROVE  LET b == Where!Group(Where!Inner[RuleDepth][r], <<>>)
         IN  /\ b \in Seq(Where!Tokens) /\ Where!Balanced(b)
             /\ Where!Operands(b) <=> r \in Where!Clean[RuleDepth]
             /\ Total(b) = Len(Where!Conditions[RuleDepth][r])
<1> DEFINE x == Where!Inner[RuleDepth][r]
           e == (<<"(">> \o x) \o <<")">>
<1>1. GoodText(x, r \in Where!Clean[RuleDepth], Where!Conditions[RuleDepth][r])
  BY RuleAssumption, LevelTexts
<1>2. /\ x \in Seq(Where!Tokens) /\ Where!Balanced(x)
      /\ Where!Operands(x) <=> r \in Where!Clean[RuleDepth]
      /\ Total(x) = Len(Where!Conditions[RuleDepth][r])
  BY <1>1 DEF GoodText
<1> HIDE DEF x
<1>3. /\ e \in Seq(Where!Tokens) /\ e # <<>>
      /\ e[1] = "(" /\ e[Len(e)] = ")"
      /\ Where!Adjacent(e) <=> Where!Operands(x)
  BY <1>2, OperandsOfGroup
<1>4. "(" \in Where!Begins /\ ")" \in Where!Ends
  BY DEF Where!Begins, Where!Ends
<1>5. Where!Operands(e) <=> Where!Operands(x)
  BY <1>3, <1>4, Zenon DEF Where!Operands
<1>6. Where!Group(x, <<>>) = e
  <2>1. Where!Group(x, <<>>) = e \o <<>>
    BY DEF Where!Group
  <2> HIDE DEF e
  <2> QED
    BY <1>3, <2>1, ConcatEmptySeq
<1>7. Where!Balanced(Where!Group(x, <<>>)) /\ Total(Where!Group(x, <<>>)) = Total(x)
  BY <1>2, Pieces
<1> HIDE DEF e
<1> QED
  BY <1>2, <1>3, <1>5, <1>6, <1>7, Zenon DEF x

(* A rule without entries has no conditions.                               *)
LEMMA EmptyRule ==
  ASSUME <<>> \in RuleLists
  PROVE  Where!Conditions[RuleDepth][<<>>] = <<>>
<1>0. <<>> \in Where!Nested[RuleDepth]
  BY RuleAssumption
<1>1. CASE RuleDepth = 0
  BY <1>1, ConditionsLevels
<1>2. CASE RuleDepth # 0
  <2> DEFINE V == Where!Conditions[RuleDepth - 1]
  <2>1. RuleDepth \in 1..RuleDepth
    BY <1>2, RuleAssumption
  <2>2. Where!Conditions[RuleDepth] = [r \in Where!Nested[RuleDepth] |-> Where!ConditionsWith(r, V)]
    BY <2>1, ConditionsLevels
  <2> HIDE DEF V
  <2>3. Where!Conditions[RuleDepth][<<>>] = Where!ConditionsWith(<<>>, V)
    BY <1>0, <2>2
  <2>4. Where!ConditionsWith(<<>>, V) = <<>>
    BY DEF Where!ConditionsWith, Where!FlattenSeq
  <2> QED
    BY <2>3, <2>4
<1> QED
  BY <1>1, <1>2

(* The invariant gives what gen_group_where promises.                      *)
LEMMA RulePromises ==
  ASSUME Where!RuleInv
  PROVE  Where!TypeOK /\ Where!ReadableIffClean /\ Where!NothingLost
<1>1. CASE buf = Where!NotYet
  BY <1>1 DEF Where!RuleInv, Where!TypeOK, Where!ReadableIffClean, Where!NothingLost
<1>2. CASE rules = <<>> /\ buf = <<>>
  <2>1. rules \in RuleLists
    BY DEF Where!RuleInv
  <2>2. Where!Conditions[RuleDepth][rules] = <<>>
    BY <1>2, <2>1, EmptyRule
  <2>3. buf \in Seq(Where!Tokens)
    BY <1>2
  <2>4. Where!Balanced(buf) /\ Total(buf) = 0
    BY <1>2, BalancedShort, TotalOne
  <2>5. Where!Count(buf, "condition", Len(buf)) = Len(Where!Conditions[RuleDepth][rules])
    BY <2>2, <2>4 DEF Total
  <2>6. Where!NothingLost
    BY <2>4, <2>5 DEF Where!NothingLost
  <2>7. Where!ReadableIffClean
    BY <1>2 DEF Where!ReadableIffClean
  <2> QED
    BY <2>1, <2>3, <2>6, <2>7 DEF Where!TypeOK
<1>3. CASE rules # <<>> /\ buf = Where!Group(Where!Inner[RuleDepth][rules], <<>>)
  <2>1. rules \in RuleLists
    BY DEF Where!RuleInv
  <2>2. /\ buf \in Seq(Where!Tokens) /\ Where!Balanced(buf)
        /\ Where!Operands(buf) <=> rules \in Where!Clean[RuleDepth]
        /\ Total(buf) = Len(Where!Conditions[RuleDepth][rules])
    BY <1>3, <2>1, RuleText
  <2>3. Where!ReadableIffClean
    BY <1>3, <2>2 DEF Where!ReadableIffClean, Where!WellFormed
  <2>4. Where!NothingLost
    BY <2>2 DEF Where!NothingLost, Total
  <2> QED
    BY <2>1, <2>2, <2>3, <2>4 DEF Where!TypeOK
<1> QED
  BY <1>1, <1>2, <1>3 DEF Where!RuleInv

(* The invariant holds throughout a call of gen_group_where.               *)
LEMMA RuleCall == CallsSpec => [](call = "gen_group_where" => Where!RuleInv)
<1>1. CallsInit => (call = "gen_group_where" => Where!RuleInv)
  BY OneStart, RuleInit
<1>2. ASSUME call = "gen_group_where" => Where!RuleInv, [CallsNext]_callsVars
      PROVE  (call = "gen_group_where" => Where!RuleInv)'
  <2> SUFFICES ASSUME call = "gen_group_where" PROVE Where!RuleInv'
    BY <1>2, OneCall
  <2>1. Where!RuleInv /\ [Where!Next]_(Where!vars)
    BY <1>2, OneCall
  <2> QED
    BY <2>1, RuleStep
<1> QED
  BY <1>1, <1>2, PTL DEF CallsSpec

(* A condition has every part of its rule, and can be read exactly when    *)
(* every list of the rule, however deep, ends in an entry the code knows   *)
(* (data_acl.c:62).                                                        *)
THEOREM ReadableIffCleanHolds == CallsSpec => []ReadableIffClean
<1>1. (call = "gen_group_where" => Where!RuleInv) => ReadableIffClean
  BY RulePromises DEF ReadableIffClean
<1> QED
  BY <1>1, RuleCall, PTL

(* The search's invariant holds throughout a call of it.                   *)
LEMMA SearchCall == CallsSpec => [](call = "search_fun_config_min" => TypeOK /\ SearchInv)
<1>1. CallsInit => (call = "search_fun_config_min" => TypeOK /\ SearchInv)
  BY OneStart, SearchInit
<1>2. ASSUME call = "search_fun_config_min" => TypeOK /\ SearchInv, [CallsNext]_callsVars
      PROVE  (call = "search_fun_config_min" => TypeOK /\ SearchInv)'
  <2> SUFFICES ASSUME call = "search_fun_config_min" PROVE TypeOK' /\ SearchInv'
    BY <1>2, OneCall
  <2>1. TypeOK /\ SearchInv /\ [Next]_vars
    BY <1>2, OneCall
  <2> QED
    BY <2>1, SearchType, SearchStep
<1> QED
  BY <1>1, <1>2, PTL DEF CallsSpec
=============================================================================
