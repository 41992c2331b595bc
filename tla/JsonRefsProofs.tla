--------------------------- MODULE JsonRefsProofs ----------------------------
(***************************************************************************)
(* Proofs about the json objects of a cycle, for all steps that agree on   *)
(* the kinds of their members, any number of rows and of jobs.  The        *)
(* invariant RefsInv says that a heap is Fit: the count of each object is  *)
(* exact for what the heap holds and for what c owns outside of it, each   *)
(* object is of its kind, and the entries in F stay where they are.  A put *)
(* frees the least set that can be freed, so it spares all that is Firm:   *)
(* owned outside, or in an entry of F whose holder is firm.  A module pins *)
(* its input, the rows it walks and what it has just made in F while it    *)
(* replaces other members.                                                 *)
(***************************************************************************)
EXTENDS CallsProofs

-----------------------------------------------------------------------------
(* What a heap is, and who holds what                                      *)

(* A heap there can be: finitely many objects, each with a count, whose    *)
(* entries lead to objects or NULL, and NULL itself, which is not spoilt.  *)
Shape(h) ==
  /\ IsFiniteSet(DOMAIN h) /\ DOMAIN h \subseteq Nat /\ Refs!NULL \in DOMAIN h
  /\ h = [p \in DOMAIN h |-> h[p]]
  /\ \A p \in DOMAIN h :
       h[p] = [type |-> h[p].type, refs |-> h[p].refs, kids |-> h[p].kids]
  /\ h[Refs!NULL] = Refs!Null
  /\ \A p \in Refs!Objects(h) :
       /\ h[p].refs \in Nat \ {0} /\ IsFiniteSet(DOMAIN h[p].kids)
       /\ \A k \in DOMAIN h[p].kids : h[p].kids[k] \in DOMAIN h

(* Cardinality is the one of FiniteSets.                                   *)
LEMMA SameCardinality == \A S : Refs!Cardinality(S) = Cardinality(S)
BY DEF Refs!Cardinality, Cardinality

(* Entries are pairs of an object and a key, and there are finitely many.  *)
LEMMA EntryFacts ==
  ASSUME NEW h, NEW D
  PROVE  /\ \A p, k : <<p, k>> \in Refs!Entries(h, D) <=> p \in D /\ k \in DOMAIN h[p].kids
         /\ \A e \in Refs!Entries(h, D) : e = <<e[1], e[2]>>
         /\ \A o, p, k : <<p, k>> \in Refs!Holding(h, D, o) <=>
                           p \in D /\ k \in DOMAIN h[p].kids /\ h[p].kids[k] = o
         /\ \A o : \A e \in Refs!Holding(h, D, o) : e = <<e[1], e[2]>>
<1>1. \A p, k : <<p, k>> \in Refs!Entries(h, D) <=> p \in D /\ k \in DOMAIN h[p].kids
  BY DEF Refs!Entries
<1>2. \A e \in Refs!Entries(h, D) : e = <<e[1], e[2]>>
  BY DEF Refs!Entries
<1> QED
  BY <1>1, <1>2 DEF Refs!Holding, Refs!Held

(* What has the same entries is the same.                                  *)
EntriesOf(T, h, D, o) ==
  /\ \A e \in T : e = <<e[1], e[2]>>
  /\ \A p, k : <<p, k>> \in T <=> p \in D /\ k \in DOMAIN h[p].kids /\ h[p].kids[k] = o
(* What has the same entries is the same.                                  *)
LEMMA HoldingIs ==
  ASSUME NEW h, NEW D, NEW o, NEW T, EntriesOf(T, h, D, o)
  PROVE  Refs!Holding(h, D, o) = T
<1> DEFINE A == Refs!Holding(h, D, o)
<1>1. \A e \in A : e = <<e[1], e[2]>>
  BY EntryFacts
<1>2. \A p, k : <<p, k>> \in A <=> p \in D /\ k \in DOMAIN h[p].kids /\ h[p].kids[k] = o
  BY EntryFacts
<1> HIDE DEF A
<1>3. \A e \in A : e \in T
  BY <1>1, <1>2 DEF EntriesOf
<1>4. \A e \in T : e \in A
  BY <1>2 DEF EntriesOf
<1> QED
  BY <1>3, <1>4 DEF A

(* Objects without members hold nothing.                                   *)
LEMMA SameHolding ==
  ASSUME NEW h, NEW g, NEW D, NEW C, D \subseteq C,
         \A p \in D : g[p].kids = h[p].kids,
         \A p \in C \ D : DOMAIN g[p].kids = {},
         NEW x
  PROVE  Refs!Holding(g, C, x) = Refs!Holding(h, D, x)
<1> DEFINE B == Refs!Holding(h, D, x)
<1>1. \A e \in B : e = <<e[1], e[2]>>
  BY EntryFacts
<1>2. \A p, k : <<p, k>> \in B <=> p \in D /\ k \in DOMAIN h[p].kids /\ h[p].kids[k] = x
  BY EntryFacts
<1>3. ASSUME NEW p, NEW k
      PROVE  (p \in C /\ k \in DOMAIN g[p].kids /\ g[p].kids[k] = x)
             <=> (p \in D /\ k \in DOMAIN h[p].kids /\ h[p].kids[k] = x)
  OBVIOUS
<1> HIDE DEF B
<1>4. \A p, k : <<p, k>> \in B <=> p \in C /\ k \in DOMAIN g[p].kids /\ g[p].kids[k] = x
  BY <1>2, <1>3, Zenon
<1>5. EntriesOf(B, g, C, x)
  BY <1>1, <1>4, Zenon DEF EntriesOf
<1> QED
  BY <1>5, HoldingIs, Zenon DEF B

SameKids(g, h, D) == \A p \in D : g[p].kids = h[p].kids
(* Where the members stay, so does who holds what.                         *)
LEMMA KeptHolding ==
  ASSUME NEW h, NEW g, NEW D, SameKids(g, h, D), NEW x
  PROVE  Refs!Holding(g, D, x) = Refs!Holding(h, D, x)
BY SameHolding DEF SameKids

(* One entry written, or written anew.                                     *)
WrittenIn(g, h, D, o, key, v) ==
  /\ o \in D /\ \A p \in D \ {o} : g[p].kids = h[p].kids
  /\ DOMAIN g[o].kids = DOMAIN h[o].kids \cup {key} /\ g[o].kids[key] = v
  /\ \A k \in DOMAIN h[o].kids \ {key} : g[o].kids[k] = h[o].kids[k]
(* The new value is held once more by this entry, the old one no more.     *)
LEMMA WrittenHolding ==
  ASSUME NEW h, NEW g, NEW D, NEW o, NEW key, NEW v, WrittenIn(g, h, D, o, key, v), NEW x
  PROVE  Refs!Holding(g, D, x) =
           (Refs!Holding(h, D, x) \ {<<o, key>>}) \cup (IF x = v THEN {<<o, key>>} ELSE {})
<1> DEFINE B == Refs!Holding(h, D, x)
           T == (B \ {<<o, key>>}) \cup (IF x = v THEN {<<o, key>>} ELSE {})
<1>1. \A e \in B : e = <<e[1], e[2]>>
  BY EntryFacts
<1>2. \A p, k : <<p, k>> \in B <=> p \in D /\ k \in DOMAIN h[p].kids /\ h[p].kids[k] = x
  BY EntryFacts
<1> HIDE DEF B
<1>3. \A e \in T : e = <<e[1], e[2]>>
  BY <1>1
<1>4. ASSUME NEW p, NEW k
      PROVE  <<p, k>> \in T <=> p \in D /\ k \in DOMAIN g[p].kids /\ g[p].kids[k] = x
  <2>1. CASE p = o /\ k = key
    BY <2>1 DEF WrittenIn
  <2>2. CASE ~(p = o /\ k = key)
    <3>1. <<p, k>> \in T <=> <<p, k>> \in B
      BY <2>2
    <3>2. (p \in D /\ k \in DOMAIN g[p].kids /\ g[p].kids[k] = x)
          <=> (p \in D /\ k \in DOMAIN h[p].kids /\ h[p].kids[k] = x)
      BY <2>2 DEF WrittenIn
    <3> HIDE DEF T
    <3> QED
      BY <1>2, <3>1, <3>2, Zenon
  <2> QED
    BY <2>1, <2>2
<1> HIDE DEF T
<1>5. EntriesOf(T, g, D, x)
  BY <1>3, <1>4, Zenon DEF EntriesOf
<1>6. Refs!Holding(g, D, x) = T
  BY <1>5, HoldingIs, Zenon
<1> QED
  BY <1>6 DEF T, B

(* There are finitely many entries.                                        *)
LEMMA EntriesFinite ==
  ASSUME NEW h, Shape(h), NEW D \in SUBSET Refs!Objects(h)
  PROVE  IsFiniteSet(Refs!Entries(h, D)) /\ \A o : IsFiniteSet(Refs!Holding(h, D, o))
<1> DEFINE T == {{p} \X DOMAIN h[p].kids : p \in D}
<1>1. IsFiniteSet(D)
  BY FS_Subset DEF Shape, Refs!Objects
<1>2. IsFiniteSet(T)
  <2> DEFINE f == [p \in D |-> {p} \X DOMAIN h[p].kids]
  <2>1. f \in Surjection(D, T)
    BY DEF Surjection
  <2> QED
    BY <1>1, <2>1, FS_Surjection
<1>3. ASSUME NEW p \in D PROVE IsFiniteSet({p} \X DOMAIN h[p].kids)
  <2>1. IsFiniteSet({p}) /\ IsFiniteSet(DOMAIN h[p].kids)
    BY FS_Singleton DEF Shape
  <2> QED
    BY <2>1, FS_Product
<1>4. IsFiniteSet(UNION T)
  BY <1>2, <1>3, FS_UNION
<1>5. IsFiniteSet(Refs!Entries(h, D))
  BY <1>4 DEF Refs!Entries
<1> QED
  BY <1>5, FS_Subset DEF Refs!Holding

(* What two disjoint sets of objects hold together.                        *)
LEMMA HoldingParts ==
  ASSUME NEW h, Shape(h), NEW D \in SUBSET Refs!Objects(h), NEW o
  PROVE  /\ Refs!Holding(h, Refs!Objects(h), o) =
              Refs!Holding(h, D, o) \cup Refs!Holding(h, Refs!Objects(h) \ D, o)
         /\ Refs!Holding(h, D, o) \cap Refs!Holding(h, Refs!Objects(h) \ D, o) = {}
<1> DEFINE A == Refs!Holding(h, Refs!Objects(h), o)
           B == Refs!Holding(h, D, o)
           C == Refs!Holding(h, Refs!Objects(h) \ D, o)
<1>1. /\ \A e \in A : e = <<e[1], e[2]>>
      /\ \A p, k : <<p, k>> \in A <=>
                     p \in Refs!Objects(h) /\ k \in DOMAIN h[p].kids /\ h[p].kids[k] = o
  BY EntryFacts, Zenon
<1>2. /\ \A e \in B : e = <<e[1], e[2]>>
      /\ \A p, k : <<p, k>> \in B <=>
                     p \in D /\ k \in DOMAIN h[p].kids /\ h[p].kids[k] = o
  BY EntryFacts, Zenon
<1>3. /\ \A e \in C : e = <<e[1], e[2]>>
      /\ \A p, k : <<p, k>> \in C <=>
                     p \in Refs!Objects(h) \ D /\ k \in DOMAIN h[p].kids /\ h[p].kids[k] = o
  BY EntryFacts, Zenon
<1> HIDE DEF A, B, C
<1>4. A = B \cup C
  BY <1>1, <1>2, <1>3
<1>5. B \cap C = {}
  BY <1>2, <1>3
<1> QED
  BY <1>4, <1>5 DEF A, B, C

-----------------------------------------------------------------------------
(* A put                                                                   *)

(* An object dies when it is put as often as it has owners.                *)
LEMMA DyingFacts ==
  ASSUME NEW h, Shape(h), NEW o, NEW D \in SUBSET Refs!Objects(h)
  PROVE  /\ Refs!Dying(h, o, D) \in SUBSET Refs!Objects(h)
         /\ \A p \in Refs!Objects(h) :
              /\ Refs!Puts(h, o, D, p) \in Nat
              /\ p \in Refs!Dying(h, o, D) <=> h[p].refs <= Refs!Puts(h, o, D, p)
<1>1. ASSUME NEW p \in Refs!Objects(h)
      PROVE  /\ Refs!Puts(h, o, D, p) \in Nat
             /\ p \in Refs!Dying(h, o, D) <=> h[p].refs <= Refs!Puts(h, o, D, p)
  <2>1. Cardinality(Refs!Holding(h, D, p)) \in Nat
    BY EntriesFinite, FS_CardinalityType
  <2>2. Refs!Puts(h, o, D, p) \in Nat
    BY <2>1, SameCardinality DEF Refs!Puts
  <2>3. h[p].refs >= 1 /\ h[p].refs \in Nat
    BY DEF Shape
  <2>4. ASSUME Refs!Puts(h, o, D, p) >= 1, p # o
        PROVE  p \in {Refs!Held(h, e) : e \in Refs!Entries(h, D)}
    <3>1. Cardinality(Refs!Holding(h, D, p)) # 0
      BY <2>1, <2>4, SameCardinality DEF Refs!Puts
    <3>2. Refs!Holding(h, D, p) # {}
      BY <3>1, FS_EmptySet
    <3> QED
      BY <3>2 DEF Refs!Holding
  <2>5. h[p].refs <= Refs!Puts(h, o, D, p) => Refs!Puts(h, o, D, p) >= 1
    BY <2>2, <2>3
  <2> QED
    BY <2>2, <2>4, <2>5 DEF Refs!Dying
<1> QED
  BY <1>1 DEF Refs!Dying

(* The more objects die, the more do.                                      *)
LEMMA DyingGrows ==
  ASSUME NEW h, Shape(h), NEW o, NEW D \in SUBSET Refs!Objects(h), NEW C \in SUBSET D
  PROVE  Refs!Dying(h, o, C) \subseteq Refs!Dying(h, o, D)
<1> SUFFICES ASSUME NEW p \in Refs!Dying(h, o, C) PROVE p \in Refs!Dying(h, o, D)
  OBVIOUS
<1>1. p \in Refs!Objects(h) /\ h[p].refs <= Refs!Puts(h, o, C, p) /\ h[p].refs \in Nat
  BY DyingFacts DEF Shape
<1>2. Refs!Holding(h, C, p) \subseteq Refs!Holding(h, D, p)
  BY DEF Refs!Holding, Refs!Entries
<1>3. /\ Cardinality(Refs!Holding(h, C, p)) \in Nat /\ Cardinality(Refs!Holding(h, D, p)) \in Nat
      /\ Cardinality(Refs!Holding(h, C, p)) <= Cardinality(Refs!Holding(h, D, p))
  BY <1>2, EntriesFinite, FS_Subset, FS_CardinalityType
<1>4. Refs!Puts(h, o, C, p) <= Refs!Puts(h, o, D, p) /\ Refs!Puts(h, o, D, p) \in Nat
      /\ Refs!Puts(h, o, C, p) \in Nat
  BY <1>3, SameCardinality DEF Refs!Puts
<1>5. h[p].refs <= Refs!Puts(h, o, D, p)
  BY <1>1, <1>4
<1> QED
  BY <1>1, <1>5, DyingFacts

(* The rounds in which objects die, one after another.                     *)
Rounds(gone, h, o, N) ==
  /\ gone[0] = {} /\ Refs!Freed(h, o) = gone[N]
  /\ \A i \in 1..N : gone[i] = Refs!Dying(h, o, gone[i - 1])
(* A put that frees goes through such rounds.                              *)
LEMMA FreedRounds ==
  ASSUME NEW h, NEW o, NEW N \in Nat, Cardinality(DOMAIN h) = N
  PROVE  \E gone : Rounds(gone, h, o, N)
<1> DEFINE Turn(f, i) == IF i = 0 THEN {} ELSE Refs!Dying(h, o, f[i - 1])
           P == {k \in Nat : \E f : f = [i \in 0..k |-> Turn(f, i)]}
<1>1. 0 \in P
  <2> DEFINE f == [i \in 0..0 |-> {}]
  <2>1. f = [i \in 0..0 |-> Turn(f, i)]
    OBVIOUS
  <2> QED
    BY <2>1
<1>2. ASSUME NEW k \in Nat, k \in P PROVE k + 1 \in P
  <2>1. PICK g : g = [i \in 0..k |-> Turn(g, i)]
    BY <1>2
  <2> DEFINE f == [i \in 0..k + 1 |-> IF i = k + 1 THEN Turn(g, i) ELSE g[i]]
  <2>2. /\ f = [i \in 0..k + 1 |-> f[i]]
        /\ \A i \in 0..k + 1 : f[i] = IF i = k + 1 THEN Turn(g, i) ELSE g[i]
    OBVIOUS
  <2> HIDE DEF f
  <2>3. ASSUME NEW i \in 0..k + 1 PROVE f[i] = Turn(f, i)
    <3>1. i # 0 => f[i - 1] = g[i - 1]
      BY <2>2
    <3>2. Turn(f, i) = Turn(g, i)
      BY <3>1
    <3> HIDE DEF Turn
    <3>3. i # k + 1 => g[i] = Turn(g, i)
      BY <2>1
    <3> QED
      BY <2>2, <3>2, <3>3
  <2> HIDE DEF Turn
  <2>4. f = [i \in 0..k + 1 |-> Turn(f, i)]
    BY <2>2, <2>3
  <2>5. k + 1 \in Nat
    OBVIOUS
  <2> QED
    BY <2>4, <2>5, Zenon
<1> HIDE DEF P
<1>3. N \in P
  BY <1>1, <1>2, SetInduction
<1>4. \E f : f = [i \in 0..N |-> Turn(f, i)]
  BY <1>3 DEF P
<1> DEFINE G == CHOOSE f : f = [i \in 0..N |-> Turn(f, i)]
<1>5. G = [i \in 0..N |-> Turn(G, i)]
  BY <1>4, Zenon
<1>6. Refs!Freed(h, o) = G[N]
  BY SameCardinality DEF Refs!Freed
<1> HIDE DEF G
<1>7. \A i \in 0..N : G[i] = Turn(G, i)
  BY <1>5
<1>8. 0 \in 0..N /\ \A i \in 1..N : i \in 0..N /\ i # 0
  OBVIOUS
<1>9. G[0] = {} /\ \A i \in 1..N : G[i] = Refs!Dying(h, o, G[i - 1])
  BY <1>7, <1>8, Zenon
<1> QED
  BY <1>6, <1>9 DEF Rounds

(* The last round changes nothing more, and frees no more than it must.    *)
LEMMA FreedFixed ==
  ASSUME NEW h, Shape(h), NEW o
  PROVE  /\ Refs!Freed(h, o) \in SUBSET Refs!Objects(h)
         /\ Refs!Dying(h, o, Refs!Freed(h, o)) = Refs!Freed(h, o)
         /\ \A D \in SUBSET Refs!Objects(h) :
              Refs!Dying(h, o, D) \subseteq D => Refs!Freed(h, o) \subseteq D
<1> DEFINE N == Cardinality(DOMAIN h)
           Obj == Refs!Objects(h)
<1>1. N \in Nat /\ N >= 1 /\ IsFiniteSet(Obj) /\ Cardinality(Obj) = N - 1
  <2>1. IsFiniteSet(DOMAIN h) /\ Refs!NULL \in DOMAIN h
    BY DEF Shape
  <2>2. N \in Nat /\ N # 0
    BY <2>1, FS_CardinalityType, FS_EmptySet
  <2>3. IsFiniteSet(Obj) /\ Cardinality(Obj) = N - 1
    BY <2>1, FS_RemoveElement DEF Refs!Objects
  <2> QED
    BY <2>2, <2>3
<1>a. N \in Nat /\ Cardinality(DOMAIN h) = N
  BY <1>1
<1> HIDE DEF N
<1>b. PICK gone : Rounds(gone, h, o, N)
  BY <1>a, FreedRounds
<1>2. /\ gone[0] = {} /\ Refs!Freed(h, o) = gone[N]
      /\ \A i \in 1..N : gone[i] = Refs!Dying(h, o, gone[i - 1])
  BY <1>b DEF Rounds
<1>3. \A i \in Nat : i + 1 <= N => gone[i + 1] = Refs!Dying(h, o, gone[i])
  <2> SUFFICES ASSUME NEW i \in Nat, i + 1 <= N PROVE gone[i + 1] = Refs!Dying(h, o, gone[i])
    OBVIOUS
  <2>1. i + 1 \in 1..N /\ (i + 1) - 1 = i
    BY <1>1
  <2> QED
    BY <1>2, <2>1
<1>4. \A i \in Nat : i <= N => gone[i] \in SUBSET Obj
  <2> DEFINE T == {i \in Nat : i <= N => gone[i] \in SUBSET Obj}
  <2>1. 0 \in T
    BY <1>2
  <2>2. ASSUME NEW i \in Nat, i \in T PROVE i + 1 \in T
    BY <1>1, <1>3, <2>2, DyingFacts
  <2> HIDE DEF T
  <2>3. Nat \subseteq T
    BY <2>1, <2>2, SetInduction
  <2> QED
    BY <2>3 DEF T
<1>5. \A i \in Nat : i + 1 <= N => gone[i] \subseteq gone[i + 1]
  <2> DEFINE T == {i \in Nat : i + 1 <= N => gone[i] \subseteq gone[i + 1]}
  <2>1. 0 \in T
    BY <1>2
  <2>2. ASSUME NEW i \in Nat, i \in T PROVE i + 1 \in T
    <3> SUFFICES ASSUME (i + 1) + 1 <= N PROVE gone[i + 1] \subseteq gone[(i + 1) + 1]
      OBVIOUS
    <3>1. i + 1 \in Nat /\ i + 1 <= N /\ i <= N
      BY <1>1
    <3>2. gone[i] \subseteq gone[i + 1] /\ gone[i + 1] \in SUBSET Obj
      BY <1>4, <2>2, <3>1
    <3>3. Refs!Dying(h, o, gone[i]) \subseteq Refs!Dying(h, o, gone[i + 1])
      BY <3>2, DyingGrows
    <3> QED
      BY <1>3, <3>1, <3>3
  <2> HIDE DEF T
  <2>3. Nat \subseteq T
    BY <2>1, <2>2, SetInduction
  <2> QED
    BY <2>3 DEF T
<1>6. \A i \in Nat : i <= N => IsFiniteSet(gone[i]) /\ Cardinality(gone[i]) \in Nat
                               /\ Cardinality(gone[i]) <= N - 1
  <2> SUFFICES ASSUME NEW i \in Nat, i <= N
               PROVE  IsFiniteSet(gone[i]) /\ Cardinality(gone[i]) \in Nat
                      /\ Cardinality(gone[i]) <= N - 1
    OBVIOUS
  <2>1. gone[i] \in SUBSET Obj
    BY <1>4
  <2> QED
    BY <1>1, <2>1, FS_Subset, FS_CardinalityType
<1>7. \A i \in Nat : i <= N => \/ Refs!Dying(h, o, gone[i]) = gone[i]
                              \/ Cardinality(gone[i]) >= i
  <2> DEFINE T == {i \in Nat : i <= N => \/ Refs!Dying(h, o, gone[i]) = gone[i]
                                         \/ Cardinality(gone[i]) >= i}
  <2>1. 0 \in T
    BY <1>2, FS_EmptySet
  <2>2. ASSUME NEW i \in Nat, i \in T PROVE i + 1 \in T
    <3> SUFFICES ASSUME i + 1 <= N
                 PROVE  \/ Refs!Dying(h, o, gone[i + 1]) = gone[i + 1]
                        \/ Cardinality(gone[i + 1]) >= i + 1
      OBVIOUS
    <3>1. i + 1 \in Nat /\ i <= N
      BY <1>1
    <3>2. gone[i + 1] = Refs!Dying(h, o, gone[i]) /\ gone[i] \subseteq gone[i + 1]
      BY <1>3, <1>5, <3>1
    <3>3. CASE gone[i] = gone[i + 1]
      BY <3>2, <3>3
    <3>4. CASE gone[i] # gone[i + 1]
      <4>1. Cardinality(gone[i]) >= i
        BY <2>2, <3>1, <3>2, <3>4
      <4>2. /\ Cardinality(gone[i]) <= Cardinality(gone[i + 1])
            /\ Cardinality(gone[i]) # Cardinality(gone[i + 1])
        BY <1>6, <3>1, <3>2, <3>4, FS_Subset
      <4>3. Cardinality(gone[i]) \in Nat /\ Cardinality(gone[i + 1]) \in Nat
        BY <1>6, <3>1
      <4> QED
        BY <4>1, <4>2, <4>3
    <3> QED
      BY <3>3, <3>4
  <2> HIDE DEF T
  <2>3. Nat \subseteq T
    BY <2>1, <2>2, SetInduction
  <2> QED
    BY <2>3 DEF T
<1>8. Refs!Dying(h, o, gone[N]) = gone[N]
  <2>1. N <= N /\ Cardinality(gone[N]) <= N - 1 /\ Cardinality(gone[N]) \in Nat
    BY <1>1, <1>6
  <2> QED
    BY <1>1, <1>7, <2>1
<1>9. ASSUME NEW D \in SUBSET Obj, Refs!Dying(h, o, D) \subseteq D
      PROVE  gone[N] \subseteq D
  <2> DEFINE T == {i \in Nat : i <= N => gone[i] \subseteq D}
  <2>1. 0 \in T
    BY <1>2
  <2>2. ASSUME NEW i \in Nat, i \in T PROVE i + 1 \in T
    <3> SUFFICES ASSUME i + 1 <= N PROVE gone[i + 1] \subseteq D
      OBVIOUS
    <3>1. gone[i] \subseteq D
      BY <1>1, <2>2
    <3>2. Refs!Dying(h, o, gone[i]) \subseteq Refs!Dying(h, o, D)
      BY <3>1, DyingGrows
    <3> QED
      BY <1>3, <1>9, <3>2
  <2> HIDE DEF T
  <2>3. Nat \subseteq T
    BY <2>1, <2>2, SetInduction
  <2> QED
    BY <1>1, <2>3 DEF T
<1>10. gone[N] \in SUBSET Obj
  BY <1>1, <1>4
<1> QED
  BY <1>2, <1>8, <1>9, <1>10

(* Owners besides the entries: c says how many each object has.  X is an   *)
(* entry about to be overwritten, or none; the object o is put.            *)
One(x, o) == IF x = o THEN 1 ELSE 0
Counted(h, X, c, o) ==
  \A x \in Refs!Objects(h) :
    h[x].refs = Cardinality(Refs!Holding(h, Refs!Objects(h), x) \ X) + c[x] + One(x, o)

(* What the objects outside D hold, and the other owners, stay owners.     *)
LEMMA PutsCounted ==
  ASSUME NEW h, Shape(h), NEW o, NEW X, NEW c \in [Nat -> Int], Counted(h, X, c, o),
         NEW D \in SUBSET Refs!Objects(h), \A e \in X : e[1] \notin D,
         NEW x \in Refs!Objects(h)
  PROVE  /\ h[x].refs - Refs!Puts(h, o, D, x)
              = Cardinality(Refs!Holding(h, Refs!Objects(h) \ D, x) \ X) + c[x]
         /\ Cardinality(Refs!Holding(h, Refs!Objects(h) \ D, x) \ X) \in Nat
<1> DEFINE A == Refs!Holding(h, Refs!Objects(h), x)
           B == Refs!Holding(h, D, x)
           C == Refs!Holding(h, Refs!Objects(h) \ D, x)
<1>1. A = B \cup C /\ B \cap C = {}
  BY HoldingParts
<1>2. IsFiniteSet(A) /\ IsFiniteSet(B) /\ IsFiniteSet(C)
  BY EntriesFinite
<1>3. B \cap X = {}
  <2>1. \A e \in B : e[1] \in D
    BY DEF Refs!Holding, Refs!Entries
  <2> QED
    BY <2>1
<1>4. Refs!Puts(h, o, D, x) = Cardinality(B) + One(x, o)
  BY SameCardinality DEF Refs!Puts, One
<1>5. h[x].refs = Cardinality(A \ X) + c[x] + One(x, o)
  BY DEF Counted
<1>6. c[x] \in Int /\ One(x, o) \in Int
  BY DEF One, Shape, Refs!Objects
<1> HIDE DEF A, B, C
<1>7. A \ X = B \cup (C \ X) /\ B \cap (C \ X) = {}
  BY <1>1, <1>3
<1>8. IsFiniteSet(C \ X)
  BY <1>2, FS_Difference
<1>9. Cardinality(A \ X) = Cardinality(B) + Cardinality(C \ X)
  <2>1. Cardinality(B \cap (C \ X)) = 0
    BY <1>7, FS_EmptySet
  <2>2. Cardinality(B) \in Nat /\ Cardinality(C \ X) \in Nat
    BY <1>2, <1>8, FS_CardinalityType
  <2>3. Cardinality(B \cup (C \ X)) = Cardinality(B) + Cardinality(C \ X) - 0
    BY <1>2, <1>8, <2>1, FS_Union
  <2>4. Cardinality(A \ X) = Cardinality(B \cup (C \ X))
    BY <1>7, Zenon
  <2> QED
    BY <2>2, <2>3, <2>4
<1>10. Cardinality(B) \in Nat /\ Cardinality(C \ X) \in Nat
  BY <1>2, <1>8, FS_CardinalityType
<1>11. h[x].refs - Refs!Puts(h, o, D, x) = Cardinality(C \ X) + c[x]
  BY <1>4, <1>5, <1>6, <1>9, <1>10
<1> QED
  BY <1>10, <1>11 DEF C

(* A put keeps the objects S that others own, or that objects of S hold;   *)
(* what it frees nobody else holds, and the others' counts stay exact.     *)
Alive(h, X, c, S) ==
  /\ S \in SUBSET Refs!Objects(h) /\ \A e \in X : e[1] \in S
  /\ \A x \in S : c[x] >= 1 \/ Refs!Holding(h, S, x) \ X # {}
Left(h, X, c, o, S, D) ==
  /\ D \in SUBSET Refs!Objects(h) /\ S \cap D = {}
  /\ \A x \in Refs!Objects(h) \ D :
       /\ h[x].refs - Refs!Puts(h, o, D, x)
             = Cardinality(Refs!Holding(h, Refs!Objects(h) \ D, x) \ X) + c[x]
       /\ h[x].refs - Refs!Puts(h, o, D, x) \in Nat \ {0}
  /\ \A x \in D : c[x] = 0 /\ Refs!Holding(h, Refs!Objects(h) \ D, x) \ X = {}
(* A put frees what it has to, and nothing that is alive.                  *)
LEMMA PutLeaves ==
  ASSUME NEW h, Shape(h), NEW o, NEW X, NEW c \in [Nat -> Nat], Counted(h, X, c, o),
         NEW S, Alive(h, X, c, S)
  PROVE  Left(h, X, c, o, S, Refs!Freed(h, o))
<1> DEFINE Obj == Refs!Objects(h)
           D == Refs!Freed(h, o)
<1>1. D \in SUBSET Obj /\ Refs!Dying(h, o, D) = D
  BY FreedFixed
<1>0. /\ S \in SUBSET Obj /\ \A e \in X : e[1] \in S
      /\ \A x \in S : c[x] >= 1 \/ Refs!Holding(h, S, x) \ X # {}
  BY DEF Alive
<1>2. c \in [Nat -> Int] /\ \A x \in Obj : c[x] \in Nat
  BY DEF Shape, Refs!Objects
<1>3. S \cap D = {}
  <2> DEFINE R == Obj \ S
  <2>1. R \in SUBSET Obj /\ \A e \in X : e[1] \notin R
    BY <1>0
  <2>2. Obj \ R = S
    BY <1>0
  <2>3. ASSUME NEW x \in S, x \in Refs!Dying(h, o, R) PROVE FALSE
    <3>1. h[x].refs <= Refs!Puts(h, o, R, x)
          /\ h[x].refs \in Nat /\ Refs!Puts(h, o, R, x) \in Nat
      BY <2>1, <2>3, DyingFacts DEF Shape
    <3> HIDE DEF R
    <3>2. /\ h[x].refs - Refs!Puts(h, o, R, x) = Cardinality(Refs!Holding(h, S, x) \ X) + c[x]
          /\ Cardinality(Refs!Holding(h, S, x) \ X) \in Nat
      <4>1. /\ h[x].refs - Refs!Puts(h, o, R, x)
                  = Cardinality(Refs!Holding(h, Refs!Objects(h) \ R, x) \ X) + c[x]
            /\ Cardinality(Refs!Holding(h, Refs!Objects(h) \ R, x) \ X) \in Nat
        <5>1. x \in Obj
          BY <1>0
        <5> QED
          BY <1>2, <2>1, <5>1, PutsCounted
      <4> QED
        BY <2>2, <4>1
    <3>3. Cardinality(Refs!Holding(h, S, x) \ X) = 0 /\ c[x] = 0
      <4>1. c[x] \in Nat
        BY <1>0, <1>2
      <4> QED
        BY <3>1, <3>2, <4>1
    <3>4. IsFiniteSet(Refs!Holding(h, S, x) \ X)
      BY <1>0, EntriesFinite, FS_Difference
    <3> QED
      BY <1>0, <2>3, <3>3, <3>4, FS_EmptySet
  <2>4. Refs!Dying(h, o, R) \subseteq R
    BY <2>1, <2>3, DyingFacts
  <2>5. D \subseteq R
    BY <2>1, <2>4, FreedFixed
  <2> QED
    BY <2>5
<1>4. \A e \in X : e[1] \notin D
  BY <1>0, <1>3
<1>5. ASSUME NEW x \in Obj
      PROVE  /\ h[x].refs - Refs!Puts(h, o, D, x)
                  = Cardinality(Refs!Holding(h, Obj \ D, x) \ X) + c[x]
             /\ Cardinality(Refs!Holding(h, Obj \ D, x) \ X) \in Nat
             /\ IsFiniteSet(Refs!Holding(h, Obj \ D, x) \ X)
             /\ h[x].refs \in Nat /\ Refs!Puts(h, o, D, x) \in Nat
             /\ x \in D <=> h[x].refs <= Refs!Puts(h, o, D, x)
  <2>1. /\ h[x].refs - Refs!Puts(h, o, D, x)
                  = Cardinality(Refs!Holding(h, Obj \ D, x) \ X) + c[x]
        /\ Cardinality(Refs!Holding(h, Obj \ D, x) \ X) \in Nat
    BY <1>1, <1>2, <1>4, PutsCounted
  <2>2. Obj \ D \in SUBSET Obj
    OBVIOUS
  <2>3. IsFiniteSet(Refs!Holding(h, Obj \ D, x) \ X)
    BY <2>2, EntriesFinite, FS_Difference
  <2>4. h[x].refs \in Nat
    BY DEF Shape
  <2> QED
    BY <1>1, <2>1, <2>3, <2>4, DyingFacts
<1> HIDE DEF D
<1>6. ASSUME NEW x \in Obj \ D
      PROVE  h[x].refs - Refs!Puts(h, o, D, x) \in Nat \ {0}
  <2>1. h[x].refs \in Nat /\ Refs!Puts(h, o, D, x) \in Nat
    BY <1>5
  <2>2. ~(h[x].refs <= Refs!Puts(h, o, D, x))
    BY <1>5
  <2> QED
    BY <2>1, <2>2
<1>7. ASSUME NEW x \in D
      PROVE  c[x] = 0 /\ Refs!Holding(h, Obj \ D, x) \ X = {}
  <2>1. x \in Obj
    BY <1>1
  <2>2. Cardinality(Refs!Holding(h, Obj \ D, x) \ X) = 0 /\ c[x] = 0
    <3>1. /\ h[x].refs \in Nat /\ Refs!Puts(h, o, D, x) \in Nat /\ c[x] \in Nat
          /\ Cardinality(Refs!Holding(h, Obj \ D, x) \ X) \in Nat
      BY <1>2, <1>5, <2>1
    <3>2. h[x].refs <= Refs!Puts(h, o, D, x)
      BY <1>5, <2>1
    <3>3. h[x].refs - Refs!Puts(h, o, D, x) = Cardinality(Refs!Holding(h, Obj \ D, x) \ X) + c[x]
      BY <1>5, <2>1
    <3> QED
      BY <3>1, <3>2, <3>3
  <2> QED
    BY <1>5, <2>1, <2>2, FS_EmptySet
<1> QED
  BY <1>1, <1>3, <1>5, <1>6, <1>7 DEF D, Left

-----------------------------------------------------------------------------
(* Heaps whose counts are exact                                            *)

(* Each object is of its kind, ty says which: so are its members or rows.  *)
KindsFit(h, ty) ==
  \A p \in Refs!Objects(h) :
    /\ ty[p] \in DOMAIN Schema /\ h[p].type = Refs!Type(ty[p])
    /\ h[p].type = "object" =>
         \A k \in DOMAIN h[p].kids :
           h[p].kids[k] # Refs!NULL =>
             k \in DOMAIN Refs!Parts(ty[p]) /\ ty[h[p].kids[k]] = Refs!Parts(ty[p])[k]
    /\ h[p].type = "array" =>
         /\ h[p].kids \in Seq(Nat \ {Refs!NULL})
         /\ \A k \in DOMAIN h[p].kids : ty[h[p].kids[k]] = Refs!Each(ty[p])
    /\ h[p].type = "string" => h[p].kids = Refs!Nothing

(* c says how many owners an object has outside the heap.                  *)
Good(h, c, ty) ==
  /\ Shape(h) /\ KindsFit(h, ty) /\ c \in [Nat -> Int]
  /\ \A x \in Nat \ Refs!Objects(h) : c[x] = 0
  /\ \A x \in Refs!Objects(h) :
       h[x].refs = Cardinality(Refs!Holding(h, Refs!Objects(h), x)) + c[x]

Plus(c, o) == [x \in Nat |-> IF x = o /\ o # Refs!NULL THEN c[x] + 1 ELSE c[x]]
Minus(c, o) == [x \in Nat |-> IF x = o /\ o # Refs!NULL THEN c[x] - 1 ELSE c[x]]

(* Entries <<p, k, x>> that stay while a module works: the holder of each  *)
(* is owned from outside, or is held by another of them.                   *)
Stays(h, F) ==
  \A e \in F : /\ e[1] \in Refs!Objects(h) /\ e[3] \in Refs!Objects(h)
               /\ e[2] \in DOMAIN h[e[1]].kids /\ h[e[1]].kids[e[2]] = e[3]
Closed(c, F) == \A e \in F : c[e[1]] >= 1 \/ \E d \in F : d[3] = e[1]
Firm(c, F) == {x \in Nat : c[x] >= 1 \/ \E e \in F : e[3] = x}
Fit(h, c, F, ty) == Good(h, c, ty) /\ Stays(h, F) /\ Closed(c, F) /\ c \in [Nat -> Nat]

(* What is firm are objects, the holders of the entries among them.        *)
LEMMA FirmFacts ==
  ASSUME NEW h, NEW c, NEW F, NEW ty, Fit(h, c, F, ty)
  PROVE  /\ Firm(c, F) \subseteq Refs!Objects(h) /\ Refs!NULL \notin Firm(c, F)
         /\ \A e \in F : e[1] \in Firm(c, F) /\ e[3] \in Firm(c, F)
<1>1. Refs!Objects(h) \subseteq Nat /\ Refs!NULL \notin Refs!Objects(h)
  BY DEF Fit, Good, Shape, Refs!Objects
<1>2. Firm(c, F) \subseteq Refs!Objects(h)
  <2> SUFFICES ASSUME NEW x \in Firm(c, F) PROVE x \in Refs!Objects(h)
    OBVIOUS
  <2>1. CASE c[x] >= 1
    BY <2>1 DEF Fit, Good, Firm
  <2>2. CASE \E e \in F : e[3] = x
    BY <2>2 DEF Fit, Stays
  <2> QED
    BY <2>1, <2>2 DEF Firm
<1>3. \A e \in F : e[1] \in Firm(c, F) /\ e[3] \in Firm(c, F)
  BY <1>1 DEF Fit, Stays, Closed, Firm
<1> QED
  BY <1>1, <1>2, <1>3

(* The new number is new: there are too few objects to have them all.      *)
LEMMA NewFresh ==
  ASSUME NEW h, Shape(h)
  PROVE  Refs!NewId(h) \in Nat \ {Refs!NULL} /\ Refs!NewId(h) \notin DOMAIN h
<1> DEFINE N == Cardinality(DOMAIN h)
<1>1. IsFiniteSet(DOMAIN h) /\ N \in Nat /\ 0 \in DOMAIN h
  BY FS_CardinalityType DEF Shape, Refs!NULL
<1> HIDE DEF N
<1>2. \E o \in 1..N : o \notin DOMAIN h
  <2> SUFFICES ASSUME 1..N \subseteq DOMAIN h PROVE FALSE
    OBVIOUS
  <2>1. 0..N \subseteq DOMAIN h
    BY <1>1
  <2>2. Cardinality(0..N) = N + 1
    BY <1>1, FS_Interval
  <2>3. Cardinality(0..N) <= N
    BY <1>1, <2>1, FS_Subset DEF N
  <2> QED
    BY <1>1, <2>2, <2>3
<1>3. Refs!NewId(h) = CHOOSE o \in 1..N : o \notin DOMAIN h
  BY SameCardinality DEF Refs!NewId, N
<1>4. Refs!NewId(h) \in 1..N /\ Refs!NewId(h) \notin DOMAIN h
  BY <1>2, <1>3
<1> QED
  BY <1>1, <1>4 DEF Refs!NULL

(* The objects of g are some of h's, with the same members or rows.        *)
Part(g, h) ==
  /\ Refs!Objects(g) \subseteq Refs!Objects(h)
  /\ \A p \in Refs!Objects(g) : g[p].type = h[p].type /\ g[p].kids = h[p].kids
(* What is left of a heap is of the same kinds.                            *)
LEMMA PartKinds ==
  ASSUME NEW h, NEW ty, KindsFit(h, ty), NEW g, Part(g, h)
  PROVE  KindsFit(g, ty)
BY DEF KindsFit, Part

(* g is h with the object new, which has one owner and nothing in it.      *)
IsNew(g, h, type, new) ==
  /\ DOMAIN g = DOMAIN h \cup {new} /\ Refs!Objects(g) = Refs!Objects(h) \cup {new}
  /\ g = [p \in DOMAIN g |-> g[p]]
  /\ g[new].type = type /\ g[new].refs = 1 /\ g[new].kids = Refs!Nothing
  /\ g[new] = [type |-> g[new].type, refs |-> g[new].refs, kids |-> g[new].kids]
  /\ DOMAIN g[new].kids = {}
  /\ \A p \in DOMAIN h : g[p] = h[p]

(* A new object changes nothing else in the heap.                          *)
LEMMA NewIs ==
  ASSUME NEW h, Shape(h), NEW type, NEW g, g = Refs!New(h, type)
  PROVE  IsNew(g, h, type, Refs!NewId(h))
BY NewFresh DEF IsNew, Refs!New, Refs!Objects, Refs!Nothing

(* A new object has the one owner that made it, and nobody else changes.   *)
LEMMA NewFit ==
  ASSUME NEW h, NEW c, NEW F, NEW ty, Fit(h, c, F, ty), NEW K \in DOMAIN Schema,
         NEW g, g = Refs!New(h, Refs!Type(K)), NEW new, new = Refs!NewId(h)
  PROVE  /\ Fit(g, Plus(c, new), F, [x \in Nat |-> IF x = new THEN K ELSE ty[x]])
         /\ new \in Nat \ {Refs!NULL} /\ c[new] = 0 /\ new \notin Firm(c, F)
         /\ new \in Refs!Objects(g) /\ new \notin Refs!Objects(h)
         /\ g[new].type = Refs!Type(K) /\ DOMAIN g[new].kids = {}
         /\ \A p \in Refs!Objects(h) : g[p] = h[p]
<1> DEFINE tz == [x \in Nat |-> IF x = new THEN K ELSE ty[x]]
           Obj == Refs!Objects(h)
<1>1. Shape(h) /\ new \in Nat \ {Refs!NULL} /\ new \notin DOMAIN h
  BY NewFresh DEF Fit, Good
<1>2. /\ DOMAIN g = DOMAIN h \cup {new} /\ Refs!Objects(g) = Obj \cup {new}
      /\ g = [p \in DOMAIN g |-> g[p]]
      /\ g[new].type = Refs!Type(K) /\ g[new].refs = 1 /\ g[new].kids = Refs!Nothing
      /\ g[new] = [type |-> g[new].type, refs |-> g[new].refs, kids |-> g[new].kids]
      /\ DOMAIN g[new].kids = {}
      /\ \A p \in DOMAIN h : g[p] = h[p]
  <2>1. IsNew(g, h, Refs!Type(K), new)
    BY <1>1, NewIs
  <2> QED
    BY <2>1 DEF IsNew
<1>3. new \notin Obj /\ Obj \subseteq DOMAIN h /\ Obj \subseteq Nat /\ Refs!NULL \notin Obj
  BY <1>1 DEF Refs!Objects, Shape
<1>4. Shape(g)
  <2>1. IsFiniteSet(DOMAIN g)
    BY <1>1, <1>2, FS_AddElement DEF Shape
  <2>2. IsFiniteSet(DOMAIN g[new].kids)
    BY <1>2, FS_EmptySet
  <2>3. Refs!NULL \in DOMAIN h /\ DOMAIN h \subseteq Nat /\ g[Refs!NULL] = Refs!Null
    BY <1>1, <1>2 DEF Shape
  <2>4. \A p \in DOMAIN g : g[p] = [type |-> g[p].type, refs |-> g[p].refs, kids |-> g[p].kids]
    BY <1>1, <1>2 DEF Shape
  <2>5. ASSUME NEW p \in Refs!Objects(g)
        PROVE  /\ g[p].refs \in Nat \ {0} /\ IsFiniteSet(DOMAIN g[p].kids)
               /\ \A k \in DOMAIN g[p].kids : g[p].kids[k] \in DOMAIN g
    <3>1. CASE p = new
      BY <1>2, <2>2, <3>1
    <3>2. CASE p \in Obj
      BY <1>1, <1>2, <1>3, <3>2 DEF Shape
    <3> QED
      BY <1>2, <3>1, <3>2
  <2> QED
    BY <1>1, <1>2, <2>1, <2>3, <2>4, <2>5 DEF Shape
<1>5. KindsFit(g, tz)
  <2> SUFFICES ASSUME NEW p \in Refs!Objects(g)
               PROVE  /\ tz[p] \in DOMAIN Schema /\ g[p].type = Refs!Type(tz[p])
                      /\ g[p].type = "object" =>
                           \A k \in DOMAIN g[p].kids :
                             g[p].kids[k] # Refs!NULL =>
                               /\ k \in DOMAIN Refs!Parts(tz[p])
                               /\ tz[g[p].kids[k]] = Refs!Parts(tz[p])[k]
                      /\ g[p].type = "array" =>
                           /\ g[p].kids \in Seq(Nat \ {Refs!NULL})
                           /\ \A k \in DOMAIN g[p].kids : tz[g[p].kids[k]] = Refs!Each(tz[p])
                      /\ g[p].type = "string" => g[p].kids = Refs!Nothing
    BY DEF KindsFit
  <2>1. CASE p = new
    <3>1. tz[p] = K
      BY <1>1, <2>1
    <3>2. g[p].kids = <<>>
      BY <1>2, <2>1 DEF Refs!Nothing
    <3>3. g[p].kids \in Seq(Nat \ {Refs!NULL})
      BY <3>2
    <3> QED
      BY <1>2, <2>1, <3>1, <3>3
  <2>2. CASE p # new
    <3>1. p \in Obj /\ g[p] = h[p] /\ tz[p] = ty[p]
      BY <1>2, <1>3, <2>2
    <3>2. \A k \in DOMAIN h[p].kids : tz[h[p].kids[k]] = ty[h[p].kids[k]]
      BY <1>1, <1>3, <3>1 DEF Shape
    <3>3. KindsFit(h, ty)
      BY DEF Fit, Good
    <3> HIDE DEF tz
    <3> QED
      BY <3>1, <3>2, <3>3 DEF KindsFit
  <2> QED
    BY <2>1, <2>2
<1>6. ASSUME NEW x
      PROVE  Refs!Holding(g, Refs!Objects(g), x) = Refs!Holding(h, Obj, x)
  <2>1. Obj \subseteq Refs!Objects(g) /\ \A p \in Refs!Objects(g) \ Obj : DOMAIN g[p].kids = {}
    BY <1>2
  <2>2. \A p \in Obj : g[p].kids = h[p].kids
    BY <1>2, <1>3
  <2> QED
    BY <2>1, <2>2, SameHolding
<1>7. c \in [Nat -> Nat] /\ \A x \in Nat \ Obj : c[x] = 0
  BY DEF Fit, Good
<1>8. c[new] = 0 /\ new \notin Firm(c, F)
  <2>1. Firm(c, F) \subseteq Obj
    BY FirmFacts
  <2> QED
    BY <1>1, <1>3, <1>7, <2>1
<1>9. Plus(c, new) \in [Nat -> Nat] /\ Plus(c, new) \in [Nat -> Int]
      /\ \A x \in Nat : Plus(c, new)[x] = IF x = new THEN 1 ELSE c[x]
  BY <1>1, <1>7, <1>8 DEF Plus
<1>10. ASSUME NEW x \in Refs!Objects(g)
       PROVE  g[x].refs = Cardinality(Refs!Holding(g, Refs!Objects(g), x)) + Plus(c, new)[x]
  <2>1. CASE x = new
    <3>1. Refs!Holding(h, Obj, new) = {}
      <4>1. \A e \in Refs!Holding(h, Obj, new) : FALSE
        BY <1>1, <1>3 DEF Refs!Holding, Refs!Held, Refs!Entries, Shape
      <4> QED
        BY <4>1
    <3>2. Cardinality(Refs!Holding(g, Refs!Objects(g), x)) = 0
      BY <1>6, <2>1, <3>1, FS_EmptySet
    <3> QED
      BY <1>1, <1>2, <1>9, <2>1, <3>2
  <2>2. CASE x # new
    <3>1. x \in Obj /\ g[x] = h[x] /\ x \in Nat
      BY <1>2, <1>3, <2>2
    <3>2. h[x].refs = Cardinality(Refs!Holding(h, Obj, x)) + c[x]
      BY <3>1 DEF Fit, Good
    <3> QED
      BY <1>6, <1>9, <2>2, <3>1, <3>2
  <2> QED
    BY <2>1, <2>2
<1>11. Good(g, Plus(c, new), tz)
  BY <1>2, <1>4, <1>5, <1>7, <1>9, <1>10 DEF Good
<1>12. Stays(g, F)
  <2>1. Stays(h, F)
    BY DEF Fit
  <2> QED
    BY <1>2, <1>3, <2>1 DEF Stays
<1>13. Closed(Plus(c, new), F)
  <2>1. \A e \in F : c[e[1]] >= 1 \/ \E d \in F : d[3] = e[1]
    BY DEF Fit, Closed
  <2>2. \A e \in F : e[1] \in Nat /\ e[1] # new
    BY <1>3 DEF Fit, Stays
  <2> QED
    BY <1>9, <2>1, <2>2 DEF Closed
<1> QED
  BY <1>1, <1>2, <1>3, <1>8, <1>9, <1>11, <1>12, <1>13 DEF Fit

(* One more owner is counted as one, whoever it is.                        *)
LEMMA GetGood ==
  ASSUME NEW h, NEW c, NEW ty, Good(h, c, ty), NEW o \in Refs!Objects(h),
         NEW g, g = Refs!Get(h, o)
  PROVE  /\ Good(g, Plus(c, o), ty)
         /\ \A F : Stays(h, F) => Stays(g, F)
         /\ Refs!Objects(g) = Refs!Objects(h)
         /\ \A p \in Refs!Objects(h) : g[p].type = h[p].type /\ g[p].kids = h[p].kids
<1>1. Shape(h) /\ KindsFit(h, ty) /\ o \in Nat /\ o # Refs!NULL /\ o \in DOMAIN h
  BY DEF Good, Shape, Refs!Objects
<1>2. g = [h EXCEPT ![o].refs = @ + 1]
  BY DEF Refs!Get
<1>3. /\ DOMAIN g = DOMAIN h /\ Refs!Objects(g) = Refs!Objects(h)
      /\ g = [p \in DOMAIN g |-> g[p]]
      /\ \A p \in DOMAIN h : p # o => g[p] = h[p]
      /\ g[o] = [type |-> h[o].type, refs |-> h[o].refs + 1, kids |-> h[o].kids]
  <2>1. h = [p \in DOMAIN h |-> h[p]]
    BY <1>1 DEF Shape
  <2>2. h[o] = [type |-> h[o].type, refs |-> h[o].refs, kids |-> h[o].kids]
    BY <1>1 DEF Shape
  <2>3. g[o] = [h[o] EXCEPT !.refs = h[o].refs + 1]
    BY <1>1, <1>2, <2>1
  <2>4. g[o] = [type |-> h[o].type, refs |-> h[o].refs + 1, kids |-> h[o].kids]
    BY <2>2, <2>3
  <2> QED
    BY <1>1, <1>2, <2>1, <2>4 DEF Refs!Objects
<1>4. \A p \in DOMAIN h : /\ g[p].type = h[p].type /\ g[p].kids = h[p].kids
                          /\ g[p].refs = IF p = o THEN h[p].refs + 1 ELSE h[p].refs
                          /\ g[p] = [type |-> g[p].type, refs |-> g[p].refs, kids |-> g[p].kids]
  BY <1>1, <1>3 DEF Shape
<1>6. \A p \in Refs!Objects(h) : p \in DOMAIN h
  BY DEF Refs!Objects
<1>5. Shape(g)
  <2>1. /\ IsFiniteSet(DOMAIN g) /\ DOMAIN g \subseteq Nat /\ Refs!NULL \in DOMAIN g
        /\ g[Refs!NULL] = Refs!Null
    BY <1>1, <1>3 DEF Shape
  <2>2. ASSUME NEW p \in Refs!Objects(g)
        PROVE  /\ g[p].refs \in Nat \ {0} /\ IsFiniteSet(DOMAIN g[p].kids)
               /\ \A k \in DOMAIN g[p].kids : g[p].kids[k] \in DOMAIN g
    <3>1. p \in DOMAIN h /\ p \in Refs!Objects(h)
      BY <1>3, <1>6
    <3>2. h[p].refs \in Nat \ {0}
      BY <1>1, <3>1 DEF Shape
    <3>3. g[p].refs \in Nat \ {0}
      <4>1. g[p].refs = IF p = o THEN h[p].refs + 1 ELSE h[p].refs
        BY <1>4, <3>1
      <4> QED
        BY <3>2, <4>1
    <3>4. /\ IsFiniteSet(DOMAIN h[p].kids)
          /\ \A k \in DOMAIN h[p].kids : h[p].kids[k] \in DOMAIN h
      BY <1>1, <3>1 DEF Shape
    <3> QED
      BY <1>3, <1>4, <3>1, <3>3, <3>4
  <2> QED
    BY <1>3, <1>4, <2>1, <2>2 DEF Shape
<1>7. KindsFit(g, ty)
  BY <1>1, <1>3, <1>4, <1>6 DEF KindsFit
<1>8. ASSUME NEW x
      PROVE  Refs!Holding(g, Refs!Objects(g), x) = Refs!Holding(h, Refs!Objects(h), x)
  BY <1>3, <1>4, <1>6, SameHolding
<1>9. /\ Plus(c, o) \in [Nat -> Int] /\ c \in [Nat -> Int]
      /\ \A x \in Nat : Plus(c, o)[x] = IF x = o THEN c[x] + 1 ELSE c[x]
  BY <1>1 DEF Plus, Good
<1>10. ASSUME NEW x \in Refs!Objects(g)
       PROVE  g[x].refs = Cardinality(Refs!Holding(g, Refs!Objects(g), x)) + Plus(c, o)[x]
  <2>1. x \in Refs!Objects(h) /\ x \in Nat /\ x \in DOMAIN h /\ c[x] \in Int
    BY <1>1, <1>3, <1>6, <1>9 DEF Shape
  <2>2. h[x].refs = Cardinality(Refs!Holding(h, Refs!Objects(h), x)) + c[x]
    BY <2>1 DEF Good
  <2>3. Cardinality(Refs!Holding(h, Refs!Objects(h), x)) \in Nat
    BY <1>1, EntriesFinite, FS_CardinalityType
  <2>4. Cardinality(Refs!Holding(g, Refs!Objects(g), x))
          = Cardinality(Refs!Holding(h, Refs!Objects(h), x))
    BY <1>8, Zenon
  <2>5. g[x].refs = IF x = o THEN h[x].refs + 1 ELSE h[x].refs
    BY <1>4, <2>1
  <2>6. Plus(c, o)[x] = IF x = o THEN c[x] + 1 ELSE c[x]
    BY <1>9, <2>1
  <2> QED
    BY <2>1, <2>2, <2>3, <2>4, <2>5, <2>6
<1>11. \A x \in Nat \ Refs!Objects(g) : Plus(c, o)[x] = 0
  BY <1>3, <1>9 DEF Good
<1>12. Good(g, Plus(c, o), ty)
  BY <1>5, <1>7, <1>9, <1>10, <1>11 DEF Good
<1>13. \A F : Stays(h, F) => Stays(g, F)
  BY <1>3, <1>4, <1>6 DEF Stays
<1> QED
  BY <1>3, <1>4, <1>6, <1>12, <1>13

(* What a put leaves: the objects that are not freed, with their members.  *)
PutOf(g, h, o, D) ==
  /\ D \in SUBSET Refs!Objects(h)
  /\ DOMAIN g = DOMAIN h \ D /\ Refs!Objects(g) = Refs!Objects(h) \ D
  /\ g = [p \in DOMAIN g |-> g[p]] /\ Refs!NULL \in DOMAIN g
  /\ g[Refs!NULL] = h[Refs!NULL]
  /\ \A p \in Refs!Objects(h) \ D :
       /\ g[p].type = h[p].type /\ g[p].kids = h[p].kids
       /\ g[p].refs = h[p].refs - Refs!Puts(h, o, D, p)
       /\ g[p] = [type |-> g[p].type, refs |-> g[p].refs, kids |-> g[p].kids]
(* A put leaves just that.                                                 *)
LEMMA PutIs ==
  ASSUME NEW h, Shape(h), NEW o
  PROVE  PutOf(Refs!Put(h, o), h, o, Refs!Freed(h, o))
<1> DEFINE D == Refs!Freed(h, o)
           g == Refs!Put(h, o)
<1>1. D \in SUBSET Refs!Objects(h)
  BY FreedFixed
<1>2. g = [p \in DOMAIN h \ D |->
             IF p = Refs!NULL THEN h[p] ELSE [h[p] EXCEPT !.refs = @ - Refs!Puts(h, o, D, p)]]
  BY DEF Refs!Put, Refs!PutFreeing
<1> HIDE DEF D, g
<1>3. ASSUME NEW p \in Refs!Objects(h) \ D
      PROVE  /\ g[p].type = h[p].type /\ g[p].kids = h[p].kids
             /\ g[p].refs = h[p].refs - Refs!Puts(h, o, D, p)
             /\ g[p] = [type |-> g[p].type, refs |-> g[p].refs, kids |-> g[p].kids]
  <2>1. p \in DOMAIN h \ D /\ p # Refs!NULL
    BY DEF Refs!Objects
  <2>2. g[p] = [h[p] EXCEPT !.refs = @ - Refs!Puts(h, o, D, p)]
    BY <1>2, <2>1
  <2>3. h[p] = [type |-> h[p].type, refs |-> h[p].refs, kids |-> h[p].kids]
    BY <2>1 DEF Shape
  <2>4. g[p] = [type |-> h[p].type, refs |-> h[p].refs - Refs!Puts(h, o, D, p),
                kids |-> h[p].kids]
    BY <2>2, <2>3
  <2> QED
    BY <2>4
<1>4. Refs!NULL \in DOMAIN h \ D
  BY <1>1 DEF Shape, Refs!Objects
<1>5. PutOf(g, h, o, D)
  BY <1>1, <1>2, <1>3, <1>4 DEF Refs!Objects, PutOf
<1> QED
  BY <1>5 DEF D, g

(* A heap like h with the objects of D gone, and one entry written anew:   *)
(* X is that entry, or nothing, and v its value.  What h and c counted for *)
(* it is still counted.                                                    *)
Settled(g, h, X, c, v, D) ==
  /\ D \in SUBSET Refs!Objects(h) /\ v \in Nat
  /\ \A x \in D : c[x] = 0 /\ Refs!Holding(h, Refs!Objects(h) \ D, x) \ X = {}
  /\ Refs!Objects(g) = Refs!Objects(h) \ D
  /\ v = Refs!NULL \/ v \in Refs!Objects(g)
  /\ X = {} => v = Refs!NULL
  /\ \A e \in X : e = <<e[1], e[2]>> /\ X = {e}
  /\ \A x \in Refs!Objects(g) :
       /\ g[x].refs = Cardinality(Refs!Holding(h, Refs!Objects(h) \ D, x) \ X) + c[x]
       /\ Refs!Holding(g, Refs!Objects(g), x) =
            (Refs!Holding(h, Refs!Objects(h) \ D, x) \ X) \cup (IF x = v THEN X ELSE {})
(* Then the counts are exact for the other owners.                         *)
LEMMA SettledGood ==
  ASSUME NEW h, NEW ty, Shape(h), NEW c \in [Nat -> Nat],
         \A x \in Nat \ Refs!Objects(h) : c[x] = 0,
         NEW g, Shape(g), KindsFit(g, ty),
         NEW X, NEW v, NEW D, Settled(g, h, X, c, v, D)
  PROVE  Good(g, Minus(c, v), ty)
<1> DEFINE Obj == Refs!Objects(h)
<1>1. Obj \subseteq Nat /\ Refs!NULL \notin Obj /\ Obj \ D \in SUBSET Obj
  BY DEF Shape, Refs!Objects
<1>0. /\ D \in SUBSET Obj /\ v \in Nat /\ Refs!Objects(g) = Obj \ D
      /\ \A x \in D : c[x] = 0
      /\ v = Refs!NULL \/ v \in Refs!Objects(g)
      /\ X = {} => v = Refs!NULL
  BY DEF Settled
<1>2. /\ Minus(c, v) \in [Nat -> Int] /\ c \in [Nat -> Int]
      /\ \A x \in Nat : Minus(c, v)[x] = IF x = v /\ v # Refs!NULL THEN c[x] - 1 ELSE c[x]
  BY DEF Minus
<1>3. ASSUME NEW x \in Nat \ Refs!Objects(g) PROVE Minus(c, v)[x] = 0
  <2>1. ~(x = v /\ v # Refs!NULL)
    BY <1>0
  <2>2. c[x] = 0
    BY <1>0
  <2> QED
    BY <1>2, <2>1, <2>2
<1>4. ASSUME NEW x \in Refs!Objects(g)
      PROVE  g[x].refs = Cardinality(Refs!Holding(g, Refs!Objects(g), x)) + Minus(c, v)[x]
  <2> DEFINE Rest == Refs!Holding(h, Obj \ D, x) \ X
             Now == Refs!Holding(g, Refs!Objects(g), x)
  <2>1. x \in Obj /\ x \in Nat /\ x # Refs!NULL /\ c[x] \in Nat
    BY <1>0, <1>1
  <2>2. IsFiniteSet(Rest) /\ Cardinality(Rest) \in Nat
    BY <1>1, EntriesFinite, FS_Difference, FS_CardinalityType
  <2>3. g[x].refs = Cardinality(Rest) + c[x]
    BY DEF Settled
  <2>4. Now = Rest \cup (IF x = v THEN X ELSE {}) /\ Rest \cap X = {}
    BY DEF Settled
  <2>5. Minus(c, v)[x] = IF x = v THEN c[x] - 1 ELSE c[x]
    BY <1>2, <2>1
  <2> HIDE DEF Rest, Now
  <2>6. CASE x = v
    <3>1. PICK e \in X : X = {e}
      BY <1>0, <2>1, <2>6 DEF Settled
    <3>2. Now = Rest \cup {e} /\ e \notin Rest
      BY <2>4, <2>6, <3>1
    <3>3. Cardinality(Rest \cup {e}) = Cardinality(Rest) + 1
      BY <2>2, <3>2, FS_AddElement
    <3>4. Cardinality(Now) = Cardinality(Rest \cup {e})
      BY <3>2, Zenon
    <3>5. g[x].refs = Cardinality(Now) + Minus(c, v)[x]
      BY <2>1, <2>2, <2>3, <2>5, <2>6, <3>3, <3>4
    <3> QED
      BY <3>5 DEF Now
  <2>7. CASE x # v
    <3>1. Now = Rest
      BY <2>4, <2>7
    <3>2. Minus(c, v)[x] = c[x]
      BY <2>5, <2>7
    <3>3. g[x].refs = Cardinality(Now) + Minus(c, v)[x]
      BY <2>3, <3>1, <3>2
    <3> QED
      BY <3>3 DEF Now
  <2> QED
    BY <2>6, <2>7
<1> QED
  BY <1>2, <1>3, <1>4 DEF Good

(* A put of what c owns: its kinds and its members stay with what is left, *)
(* and all that is firm without this owner is left.                        *)
LEMMA PutFit ==
  ASSUME NEW h, NEW c, NEW F, NEW ty, Fit(h, c, F, ty), NEW o \in Nat, c[o] >= 1,
         Closed(Minus(c, o), F), NEW g, g = Refs!Put(h, o)
  PROVE  /\ Fit(g, Minus(c, o), F, ty) /\ Part(g, h)
         /\ Firm(Minus(c, o), F) \subseteq Refs!Objects(g)
<1> DEFINE Obj == Refs!Objects(h)
           D == Refs!Freed(h, o)
           b == Minus(c, o)
           S == Firm(b, F)
<1>1. /\ Shape(h) /\ KindsFit(h, ty) /\ c \in [Nat -> Nat] /\ Stays(h, F)
      /\ \A x \in Nat \ Obj : c[x] = 0
      /\ \A x \in Obj : h[x].refs = Cardinality(Refs!Holding(h, Obj, x)) + c[x]
  BY DEF Fit, Good
<1>2. Obj \subseteq Nat /\ Refs!NULL \notin Obj /\ o \in Obj /\ Obj \subseteq DOMAIN h
      /\ Refs!NULL \in Nat
  BY <1>1 DEF Shape, Refs!Objects, Refs!NULL
<1>3. /\ b \in [Nat -> Nat]
      /\ \A x \in Nat : b[x] = IF x = o THEN c[x] - 1 ELSE c[x]
      /\ \A x \in Nat \ Obj : b[x] = 0
  BY <1>1, <1>2 DEF Minus
<1> HIDE DEF b
<1>4. S \in SUBSET Obj /\ \A e \in F : e[1] \in S /\ e[3] \in S
  <2>1. \A x \in S : x \in Obj
    BY <1>1, <1>3 DEF Firm, Stays
  <2>2. \A e \in F : b[e[1]] >= 1 \/ \E d \in F : d[3] = e[1]
    BY DEF Closed, b
  <2>3. \A e \in F : e[1] \in Nat /\ e[3] \in Nat
    BY <1>1, <1>2 DEF Stays
  <2>4. \A e \in F : e[1] \in S /\ e[3] \in S
    BY <2>2, <2>3 DEF Firm
  <2> QED
    BY <2>1, <2>4
<1>5. Counted(h, {}, b, o)
  <2> SUFFICES ASSUME NEW x \in Obj
               PROVE  h[x].refs = Cardinality(Refs!Holding(h, Obj, x) \ {}) + b[x] + One(x, o)
    BY DEF Counted
  <2>1. Refs!Holding(h, Obj, x) \ {} = Refs!Holding(h, Obj, x)
    OBVIOUS
  <2>2. Cardinality(Refs!Holding(h, Obj, x) \ {}) = Cardinality(Refs!Holding(h, Obj, x))
    BY <2>1, Zenon
  <2>3. Cardinality(Refs!Holding(h, Obj, x)) \in Nat
    BY <1>1, EntriesFinite, FS_CardinalityType
  <2>4. x \in Nat /\ c[x] \in Nat /\ b[x] = IF x = o THEN c[x] - 1 ELSE c[x]
    BY <1>1, <1>2, <1>3
  <2>5. h[x].refs = Cardinality(Refs!Holding(h, Obj, x)) + c[x]
    BY <1>1
  <2> QED
    BY <2>2, <2>3, <2>4, <2>5 DEF One
<1>6. Alive(h, {}, b, S)
  <2> SUFFICES ASSUME NEW x \in S, ~(b[x] >= 1) PROVE Refs!Holding(h, S, x) \ {} # {}
    BY <1>4 DEF Alive
  <2>1. PICK e \in F : e[3] = x
    BY DEF Firm
  <2>2. e[1] \in S /\ e[2] \in DOMAIN h[e[1]].kids /\ h[e[1]].kids[e[2]] = x
    BY <1>1, <1>4, <2>1 DEF Stays
  <2>3. <<e[1], e[2]>> \in Refs!Holding(h, S, x)
    BY <2>2, EntryFacts
  <2> QED
    BY <2>3
<1> DEFINE Held(x) == Refs!Holding(h, Obj \ D, x) \ {}
<1> HIDE DEF S
<1>7. Left(h, {}, b, o, S, D)
  BY <1>1, <1>3, <1>5, <1>6, PutLeaves
<1>8. PutOf(g, h, o, D)
  BY <1>1, PutIs
<1> HIDE DEF D
<1>9. Part(g, h) /\ SameKids(g, h, Obj \ D)
  BY <1>8 DEF PutOf, Part, SameKids
<1>10. ASSUME NEW p \in Obj \ D, NEW k \in DOMAIN h[p].kids PROVE h[p].kids[k] \notin D
  <2> SUFFICES ASSUME h[p].kids[k] \in D PROVE FALSE
    OBVIOUS
  <2> DEFINE x == h[p].kids[k]
  <2> HIDE DEF x
  <2>1. \A a, b1, b2 : <<b1, b2>> \in Refs!Holding(h, Obj \ D, a) <=>
                   b1 \in Obj \ D /\ b2 \in DOMAIN h[b1].kids /\ h[b1].kids[b2] = a
    BY EntryFacts
  <2>2. <<p, k>> \in Refs!Holding(h, Obj \ D, x)
    BY <2>1, Zenon DEF x
  <2>3. x \in D
    BY DEF x
  <2>4. Refs!Holding(h, Obj \ D, x) \ {} = {}
    BY <1>7, <2>3 DEF Left
  <2> QED
    BY <2>2, <2>4
<1>11. Shape(g)
  <2>1. IsFiniteSet(DOMAIN g)
    BY <1>1, <1>8, FS_Subset DEF Shape, PutOf
  <2>2. DOMAIN g \subseteq Nat /\ g[Refs!NULL] = Refs!Null
    BY <1>1, <1>8 DEF Shape, PutOf
  <2>3. ASSUME NEW p \in DOMAIN g
        PROVE  g[p] = [type |-> g[p].type, refs |-> g[p].refs, kids |-> g[p].kids]
    <3>1. CASE p = Refs!NULL
      BY <2>2, <3>1 DEF Refs!Null
    <3>2. CASE p # Refs!NULL
      <4>1. p \in Obj \ D
        BY <1>8, <3>2 DEF Refs!Objects, PutOf
      <4> QED
        BY <1>8, <4>1 DEF PutOf
    <3> QED
      BY <3>1, <3>2
  <2>4. ASSUME NEW p \in Refs!Objects(g)
        PROVE  /\ g[p].refs \in Nat \ {0} /\ IsFiniteSet(DOMAIN g[p].kids)
               /\ \A k \in DOMAIN g[p].kids : g[p].kids[k] \in DOMAIN g
    <3>1. p \in Obj \ D /\ g[p].kids = h[p].kids
      BY <1>8 DEF PutOf
    <3>2. g[p].refs = h[p].refs - Refs!Puts(h, o, D, p)
      BY <1>8, <3>1 DEF PutOf
    <3>3. g[p].refs \in Nat \ {0}
      BY <1>7, <3>1, <3>2 DEF Left
    <3>4. IsFiniteSet(DOMAIN h[p].kids) /\ \A k \in DOMAIN h[p].kids : h[p].kids[k] \in DOMAIN h
      BY <1>1, <3>1 DEF Shape
    <3>5. DOMAIN g = DOMAIN h \ D
      BY <1>8 DEF PutOf
    <3> QED
      BY <1>10, <3>1, <3>3, <3>4, <3>5
  <2> QED
    BY <1>8, <2>1, <2>2, <2>3, <2>4 DEF Shape, PutOf
<1>12. KindsFit(g, ty)
  BY <1>1, <1>9, PartKinds
<1>13. ASSUME NEW x \in Refs!Objects(g)
       PROVE  /\ g[x].refs = Cardinality(Refs!Holding(h, Obj \ D, x) \ {}) + b[x]
              /\ Refs!Holding(g, Refs!Objects(g), x) =
                   (Refs!Holding(h, Obj \ D, x) \ {}) \cup (IF x = Refs!NULL THEN {} ELSE {})
  <2>1. Refs!Holding(g, Obj \ D, x) = Refs!Holding(h, Obj \ D, x)
    BY <1>9, KeptHolding
  <2>2. Refs!Objects(g) = Obj \ D /\ x \in Obj \ D
    BY <1>8 DEF PutOf
  <2>3. Refs!Holding(g, Refs!Objects(g), x) = Refs!Holding(h, Obj \ D, x)
    BY <2>1, <2>2, Zenon
  <2>4. g[x].refs = h[x].refs - Refs!Puts(h, o, D, x)
    BY <1>8, <2>2 DEF PutOf
  <2> QED
    BY <1>7, <2>2, <2>3, <2>4 DEF Left
<1>14. Good(g, Minus(b, Refs!NULL), ty)
  <2>1. \A e \in {} : e = <<e[1], e[2]>> /\ {} = {e}
    OBVIOUS
  <2>2. Refs!NULL \in Nat /\ Refs!Objects(g) = Obj \ D /\ D \in SUBSET Obj
    BY <1>2, <1>8 DEF PutOf
  <2>3. \A x \in D : b[x] = 0 /\ Refs!Holding(h, Obj \ D, x) \ {} = {}
    BY <1>7 DEF Left
  <2>4. Settled(g, h, {}, b, Refs!NULL, D)
    BY <1>13, <2>1, <2>2, <2>3 DEF Settled
  <2>5. \A x \in Nat \ Obj : b[x] = 0
    BY <1>3
  <2> QED
    BY <1>1, <1>3, <1>11, <1>12, <2>4, <2>5, SettledGood
<1>15. Minus(b, Refs!NULL) = b
  BY <1>3 DEF Minus
<1>16. S \subseteq Refs!Objects(g)
  BY <1>4, <1>7, <1>8 DEF Left, PutOf
<1>17. Stays(g, F)
  <2> SUFFICES ASSUME NEW e \in F
               PROVE  /\ e[1] \in Refs!Objects(g) /\ e[3] \in Refs!Objects(g)
                      /\ e[2] \in DOMAIN g[e[1]].kids /\ g[e[1]].kids[e[2]] = e[3]
    BY DEF Stays
  <2>1. e[1] \in Refs!Objects(g) /\ e[3] \in Refs!Objects(g)
    BY <1>4, <1>16
  <2>2. e[2] \in DOMAIN h[e[1]].kids /\ h[e[1]].kids[e[2]] = e[3]
    BY <1>1 DEF Stays
  <2>3. g[e[1]].kids = h[e[1]].kids
    BY <1>9, <2>1 DEF Part
  <2> QED
    BY <2>1, <2>2, <2>3
<1>18. Good(g, b, ty) /\ Closed(b, F)
  BY <1>14, <1>15 DEF b
<1>19. Fit(g, b, F, ty)
  BY <1>3, <1>17, <1>18 DEF Fit
<1> QED
  BY <1>9, <1>16, <1>19 DEF b, S

(* What a heap is when one object has got, or changed, a member.           *)
AddOf(g, f, o, key, v) ==
  /\ DOMAIN g = DOMAIN f /\ g = [p \in DOMAIN g |-> g[p]]
  /\ \A p \in DOMAIN f : p # o => g[p] = f[p]
  /\ g[o].type = f[o].type /\ g[o].refs = f[o].refs
  /\ g[o] = [type |-> g[o].type, refs |-> g[o].refs, kids |-> g[o].kids]
  /\ DOMAIN g[o].kids = DOMAIN f[o].kids \cup {key} /\ g[o].kids[key] = v
  /\ \A k \in DOMAIN f[o].kids : k # key => g[o].kids[k] = f[o].kids[k]
(* A member that is written is such a change.                              *)
LEMMA WithIs ==
  ASSUME NEW f, f = [p \in DOMAIN f |-> f[p]], NEW o \in DOMAIN f,
         f[o] = [type |-> f[o].type, refs |-> f[o].refs, kids |-> f[o].kids],
         NEW key, NEW v, NEW g, g = Refs!WithMember(f, o, key, v)
  PROVE  AddOf(g, f, o, key, v)
<1> DEFINE new == [k \in DOMAIN f[o].kids \cup {key} |-> IF k = key THEN v ELSE f[o].kids[k]]
<1>1. g = [f EXCEPT ![o].kids = new]
  BY DEF Refs!WithMember
<1>2. /\ DOMAIN new = DOMAIN f[o].kids \cup {key} /\ new[key] = v
      /\ \A k \in DOMAIN f[o].kids : k # key => new[k] = f[o].kids[k]
  OBVIOUS
<1> HIDE DEF new
<1>3. g = [p \in DOMAIN f |-> IF p = o THEN [f[o] EXCEPT !.kids = new] ELSE f[p]]
  BY <1>1
<1>4. g[o] = [f[o] EXCEPT !.kids = new]
  BY <1>3
<1>5. g[o] = [type |-> f[o].type, refs |-> f[o].refs, kids |-> new]
  BY <1>4
<1>6. DOMAIN g = DOMAIN f /\ g = [p \in DOMAIN g |-> g[p]]
      /\ \A p \in DOMAIN f : p # o => g[p] = f[p]
  BY <1>3
<1> QED
  BY <1>2, <1>5, <1>6 DEF AddOf

(* What the caller of json_object_object_add sees to: the object is firm,  *)
(* the value too and of the kind that belongs there, and the entry it      *)
(* replaces is not one that has to stay.                                   *)
CanAdd(c, F, ty, o, key, v) ==
  /\ o \in Firm(c, F) /\ Refs!Type(ty[o]) = "object"
  /\ \/ v = Refs!NULL
     \/ v \in Firm(c, F) /\ key \in DOMAIN Refs!Parts(ty[o]) /\ ty[v] = Refs!Parts(ty[o])[key]
  /\ \A e \in F : ~(e[1] = o /\ e[2] = key)
Added(g, c, F, ty, o, key, v) ==
  /\ Good(g, Minus(c, v), ty) /\ Stays(g, F)
  /\ v # Refs!NULL => Stays(g, {<<o, key, v>>})

(* Adding a member takes one owner of the value over.                      *)
LEMMA AddGood ==
  ASSUME NEW h, NEW c, NEW F, NEW ty, Fit(h, c, F, ty), NEW o, NEW key, NEW v,
         CanAdd(c, F, ty, o, key, v), NEW g, g = Refs!ObjectAdd(h, o, key, v)
  PROVE  Added(g, c, F, ty, o, key, v)
<1> DEFINE Obj == Refs!Objects(h)
           old == Refs!Member(h, o, key)
           f == Refs!Put(h, old)
           D == Refs!Freed(h, old)
           X == {<<o, key>>}
           S == Firm(c, F)
<1>1. /\ Shape(h) /\ KindsFit(h, ty) /\ c \in [Nat -> Nat] /\ Stays(h, F)
      /\ \A x \in Nat \ Obj : c[x] = 0
      /\ \A x \in Obj : h[x].refs = Cardinality(Refs!Holding(h, Obj, x)) + c[x]
  BY DEF Fit, Good
<1>2. Obj \subseteq Nat /\ Refs!NULL \notin Obj /\ Obj \subseteq DOMAIN h /\ Refs!NULL \in Nat
  BY <1>1 DEF Shape, Refs!Objects, Refs!NULL
<1>3. S \in SUBSET Obj /\ \A e \in F : e[1] \in S /\ e[3] \in S
  BY FirmFacts
<1>4. o \in Obj /\ o \in S /\ h[o].type = "object"
  BY <1>1, <1>3 DEF CanAdd, KindsFit
<1>5. old = IF key \in DOMAIN h[o].kids THEN h[o].kids[key] ELSE Refs!NULL
  BY <1>4 DEF Refs!Member, Refs!Has, Refs!Is
<1>6. g = Refs!WithMember(f, o, key, v)
  BY <1>4 DEF Refs!ObjectAdd, Refs!Is
<1> HIDE DEF old, f, S
<1>7. Counted(h, X, c, old)
  <2> SUFFICES ASSUME NEW x \in Obj
               PROVE  h[x].refs = Cardinality(Refs!Holding(h, Obj, x) \ X) + c[x] + One(x, old)
    BY DEF Counted
  <2> DEFINE A == Refs!Holding(h, Obj, x)
  <2>1. IsFiniteSet(A) /\ Cardinality(A) \in Nat
    BY <1>1, EntriesFinite, FS_CardinalityType
  <2>2. h[x].refs = Cardinality(A) + c[x] /\ c[x] \in Nat
    BY <1>1, <1>2
  <2>3. \A q1, k : <<q1, k>> \in A <=> q1 \in Obj /\ k \in DOMAIN h[q1].kids /\ h[q1].kids[k] = x
    BY EntryFacts
  <2>4. x # Refs!NULL
    BY <1>2
  <2> HIDE DEF A
  <2>5. <<o, key>> \in A <=> old = x
    BY <1>4, <1>5, <2>3, <2>4
  <2>6. CASE old = x
    <3>1. Cardinality(A \ {<<o, key>>}) = Cardinality(A) - 1
      BY <2>1, <2>5, <2>6, FS_RemoveElement
    <3>2. One(x, old) = 1
      BY <2>6 DEF One
    <3>3. h[x].refs = Cardinality(A \ X) + c[x] + One(x, old)
      BY <2>1, <2>2, <3>1, <3>2
    <3> QED
      BY <3>3 DEF A
  <2>7. CASE old # x
    <3>1. A \ X = A
      BY <2>5, <2>7
    <3>2. One(x, old) = 0
      BY <2>7 DEF One
    <3>3. Cardinality(A \ X) = Cardinality(A)
      BY <3>1, Zenon
    <3>4. h[x].refs = Cardinality(A \ X) + c[x] + One(x, old)
      BY <2>1, <2>2, <3>2, <3>3
    <3> QED
      BY <3>4 DEF A
  <2> QED
    BY <2>6, <2>7
<1>8. Alive(h, X, c, S)
  <2> SUFFICES ASSUME NEW x \in S, ~(c[x] >= 1) PROVE Refs!Holding(h, S, x) \ X # {}
    BY <1>3, <1>4 DEF Alive
  <2>1. PICK e \in F : e[3] = x
    BY DEF Firm, S
  <2>2. e[1] \in S /\ e[2] \in DOMAIN h[e[1]].kids /\ h[e[1]].kids[e[2]] = x
    BY <1>1, <1>3, <2>1 DEF Stays
  <2>3. <<e[1], e[2]>> \in Refs!Holding(h, S, x)
    <3>1. \A a, b1, b2 : <<b1, b2>> \in Refs!Holding(h, S, a) <=>
                           b1 \in S /\ b2 \in DOMAIN h[b1].kids /\ h[b1].kids[b2] = a
      BY EntryFacts
    <3> QED
      BY <2>2, <3>1, Zenon
  <2>4. <<e[1], e[2]>> # <<o, key>>
    BY DEF CanAdd
  <2> QED
    BY <2>3, <2>4
<1>9. Left(h, X, c, old, S, D)
  BY <1>1, <1>7, <1>8, PutLeaves
<1>10. PutOf(f, h, old, D)
  BY <1>1, PutIs DEF f
<1> HIDE DEF D
<1>11. o \in Obj \ D /\ S \subseteq Obj \ D /\ Refs!Objects(f) = Obj \ D
  BY <1>3, <1>4, <1>9, <1>10 DEF Left, PutOf
<1>12. AddOf(g, f, o, key, v)
  <2>1. f = [p \in DOMAIN f |-> f[p]]
    BY <1>10 DEF PutOf
  <2>2. o \in DOMAIN f
    BY <1>11 DEF Refs!Objects
  <2>3. f[o] = [type |-> f[o].type, refs |-> f[o].refs, kids |-> f[o].kids]
    BY <1>10, <1>11 DEF PutOf
  <2> QED
    BY <1>6, <2>1, <2>2, <2>3, WithIs
<1>13. /\ DOMAIN g = DOMAIN h \ D /\ Refs!Objects(g) = Obj \ D
       /\ g = [p \in DOMAIN g |-> g[p]] /\ g[Refs!NULL] = Refs!Null
       /\ Refs!NULL \in DOMAIN g
       /\ \A p \in Obj \ D :
            /\ g[p].type = h[p].type /\ g[p].refs = h[p].refs - Refs!Puts(h, old, D, p)
            /\ g[p] = [type |-> g[p].type, refs |-> g[p].refs, kids |-> g[p].kids]
            /\ p # o => g[p].kids = h[p].kids
       /\ DOMAIN g[o].kids = DOMAIN h[o].kids \cup {key} /\ g[o].kids[key] = v
       /\ \A k \in DOMAIN h[o].kids : k # key => g[o].kids[k] = h[o].kids[k]
  <2>1. DOMAIN g = DOMAIN h \ D /\ Refs!NULL \in DOMAIN g /\ g = [p \in DOMAIN g |-> g[p]]
    BY <1>10, <1>12 DEF AddOf, PutOf
  <2>2. Refs!Objects(g) = Obj \ D
    BY <2>1 DEF Refs!Objects
  <2>3. g[Refs!NULL] = Refs!Null
    <3>1. Refs!NULL # o /\ Refs!NULL \in DOMAIN f /\ f[Refs!NULL] = h[Refs!NULL]
      BY <1>2, <1>4, <1>10 DEF PutOf
    <3> QED
      BY <1>1, <1>12, <3>1 DEF AddOf, Shape
  <2>4. ASSUME NEW p \in Obj \ D
        PROVE  /\ g[p].type = h[p].type /\ g[p].refs = h[p].refs - Refs!Puts(h, old, D, p)
               /\ g[p] = [type |-> g[p].type, refs |-> g[p].refs, kids |-> g[p].kids]
               /\ p # o => g[p].kids = h[p].kids
    <3>1. /\ f[p].type = h[p].type /\ f[p].refs = h[p].refs - Refs!Puts(h, old, D, p)
          /\ f[p] = [type |-> f[p].type, refs |-> f[p].refs, kids |-> f[p].kids]
          /\ f[p].kids = h[p].kids /\ p \in DOMAIN f
      BY <1>10 DEF PutOf, Refs!Objects
    <3>2. CASE p = o
      BY <1>12, <3>1, <3>2 DEF AddOf
    <3>3. CASE p # o
      <4>1. g[p] = f[p]
        BY <1>12, <3>1, <3>3 DEF AddOf
      <4> QED
        BY <3>1, <4>1
    <3> QED
      BY <3>2, <3>3
  <2>5. f[o].kids = h[o].kids
    BY <1>10, <1>11 DEF PutOf
  <2>6. DOMAIN g[o].kids = DOMAIN h[o].kids \cup {key} /\ g[o].kids[key] = v
        /\ \A k \in DOMAIN h[o].kids : k # key => g[o].kids[k] = h[o].kids[k]
    BY <1>12, <2>5 DEF AddOf
  <2> QED
    BY <2>1, <2>2, <2>3, <2>4, <2>6
<1>14. WrittenIn(g, h, Obj \ D, o, key, v)
  BY <1>11, <1>13 DEF WrittenIn
<1>15. ASSUME NEW p \in Obj \ D, NEW k \in DOMAIN h[p].kids, ~(p = o /\ k = key)
       PROVE  h[p].kids[k] \in DOMAIN g
  <2> DEFINE x == h[p].kids[k]
  <2>1. x \in DOMAIN h
    BY <1>1 DEF Shape
  <2>2. x \notin D
    <3> SUFFICES ASSUME x \in D PROVE FALSE
      OBVIOUS
    <3> HIDE DEF x
    <3>1. \A a, b1, b2 : <<b1, b2>> \in Refs!Holding(h, Obj \ D, a) <=>
                           b1 \in Obj \ D /\ b2 \in DOMAIN h[b1].kids /\ h[b1].kids[b2] = a
      BY EntryFacts
    <3>2. <<p, k>> \in Refs!Holding(h, Obj \ D, x)
      BY <3>1, Zenon DEF x
    <3>3. Refs!Holding(h, Obj \ D, x) \ X = {}
      BY <1>9 DEF Left
    <3>4. <<p, k>> # <<o, key>>
      BY <1>15
    <3> QED
      BY <3>2, <3>3, <3>4
  <2> QED
    BY <1>13, <2>1, <2>2
<1>16. v \in DOMAIN g /\ v \in Nat /\ (v # Refs!NULL => v \in Obj \ D /\ v \in S)
  <2>1. v = Refs!NULL \/ v \in S
    BY DEF CanAdd, S
  <2>2. \A p \in Obj \ D : p \in DOMAIN g
    BY <1>13 DEF Refs!Objects
  <2> QED
    BY <1>2, <1>11, <1>13, <2>1, <2>2
<1>17. Shape(g)
  <2>1. IsFiniteSet(DOMAIN g)
    BY <1>1, <1>13, FS_Subset DEF Shape
  <2>2. DOMAIN g \subseteq Nat
    BY <1>1, <1>13 DEF Shape
  <2>3. ASSUME NEW p \in DOMAIN g
        PROVE  g[p] = [type |-> g[p].type, refs |-> g[p].refs, kids |-> g[p].kids]
    <3>1. CASE p = Refs!NULL
      BY <1>13, <3>1 DEF Refs!Null
    <3>2. CASE p # Refs!NULL
      <4>1. p \in Obj \ D
        BY <1>13, <3>2 DEF Refs!Objects
      <4> QED
        BY <1>13, <4>1
    <3> QED
      BY <3>1, <3>2
  <2>4. ASSUME NEW p \in Refs!Objects(g)
        PROVE  /\ g[p].refs \in Nat \ {0} /\ IsFiniteSet(DOMAIN g[p].kids)
               /\ \A k \in DOMAIN g[p].kids : g[p].kids[k] \in DOMAIN g
    <3>1. p \in Obj \ D /\ IsFiniteSet(DOMAIN h[p].kids)
      BY <1>1, <1>13 DEF Shape
    <3>2. g[p].refs \in Nat \ {0}
      <4>1. g[p].refs = h[p].refs - Refs!Puts(h, old, D, p)
        BY <1>13, <3>1
      <4>2. h[p].refs - Refs!Puts(h, old, D, p) \in Nat \ {0}
        BY <1>9, <3>1 DEF Left
      <4> QED
        BY <4>1, <4>2
    <3>3. CASE p = o
      <4>1. IsFiniteSet(DOMAIN g[p].kids)
        <5>1. DOMAIN g[p].kids = DOMAIN h[p].kids \cup {key}
          BY <1>13, <3>3
        <5>2. IsFiniteSet(DOMAIN h[p].kids \cup {key})
          BY <3>1, FS_AddElement, Zenon
        <5> QED
          BY <5>1, <5>2
      <4>2. ASSUME NEW k \in DOMAIN g[p].kids PROVE g[p].kids[k] \in DOMAIN g
        <5>1. CASE k = key
          BY <1>13, <1>16, <3>3, <5>1
        <5>2. CASE k # key
          <6>1. k \in DOMAIN h[p].kids /\ g[p].kids[k] = h[p].kids[k]
            BY <1>13, <3>3, <5>2
          <6> QED
            BY <1>15, <3>1, <5>2, <6>1
        <5> QED
          BY <5>1, <5>2
      <4> QED
        BY <3>2, <4>1, <4>2
    <3>4. CASE p # o
      <4>1. g[p].kids = h[p].kids
        BY <1>13, <3>1, <3>4
      <4> QED
        BY <1>15, <3>1, <3>2, <3>4, <4>1
    <3> QED
      BY <3>3, <3>4
  <2> QED
    BY <1>13, <2>1, <2>2, <2>3, <2>4 DEF Shape
<1>18. KindsFit(g, ty)
  <2> SUFFICES ASSUME NEW p \in Refs!Objects(g)
               PROVE  /\ ty[p] \in DOMAIN Schema /\ g[p].type = Refs!Type(ty[p])
                      /\ g[p].type = "object" =>
                           \A k \in DOMAIN g[p].kids :
                             g[p].kids[k] # Refs!NULL =>
                               /\ k \in DOMAIN Refs!Parts(ty[p])
                               /\ ty[g[p].kids[k]] = Refs!Parts(ty[p])[k]
                      /\ g[p].type = "array" =>
                           /\ g[p].kids \in Seq(Nat \ {Refs!NULL})
                           /\ \A k \in DOMAIN g[p].kids : ty[g[p].kids[k]] = Refs!Each(ty[p])
                      /\ g[p].type = "string" => g[p].kids = Refs!Nothing
    BY DEF KindsFit
  <2>1. p \in Obj \ D /\ g[p].type = h[p].type
    BY <1>13
  <2>2. CASE p # o
    <3>1. g[p].kids = h[p].kids
      BY <1>13, <2>1, <2>2
    <3> QED
      BY <1>1, <2>1, <3>1 DEF KindsFit
  <2>3. CASE p = o
    <3>1. g[p].type = "object" /\ ty[p] \in DOMAIN Schema /\ g[p].type = Refs!Type(ty[p])
      BY <1>1, <1>4, <2>1, <2>3 DEF KindsFit
    <3>2. ASSUME NEW k \in DOMAIN g[p].kids, g[p].kids[k] # Refs!NULL
          PROVE  k \in DOMAIN Refs!Parts(ty[p]) /\ ty[g[p].kids[k]] = Refs!Parts(ty[p])[k]
      <4>1. CASE k = key
        <5>1. g[p].kids[k] = v
          BY <1>13, <2>3, <4>1
        <5> QED
          BY <2>3, <3>2, <4>1, <5>1 DEF CanAdd
      <4>2. CASE k # key
        <5>1. k \in DOMAIN h[p].kids /\ g[p].kids[k] = h[p].kids[k]
          BY <1>13, <2>3, <4>2
        <5> QED
          BY <1>1, <1>4, <2>3, <3>2, <5>1 DEF KindsFit
      <4> QED
        BY <4>1, <4>2
    <3> QED
      BY <3>1, <3>2
  <2> QED
    BY <2>2, <2>3
<1>19. ASSUME NEW x \in Refs!Objects(g)
       PROVE  /\ g[x].refs = Cardinality(Refs!Holding(h, Obj \ D, x) \ X) + c[x]
              /\ Refs!Holding(g, Refs!Objects(g), x) =
                   (Refs!Holding(h, Obj \ D, x) \ X) \cup (IF x = v THEN X ELSE {})
  <2>1. Refs!Holding(g, Obj \ D, x) =
          (Refs!Holding(h, Obj \ D, x) \ X) \cup (IF x = v THEN X ELSE {})
    BY <1>14, WrittenHolding
  <2>2. Refs!Objects(g) = Obj \ D /\ x \in Obj \ D
    BY <1>13
  <2>3. g[x].refs = h[x].refs - Refs!Puts(h, old, D, x)
    BY <1>13, <2>2
  <2>4. h[x].refs - Refs!Puts(h, old, D, x)
          = Cardinality(Refs!Holding(h, Obj \ D, x) \ X) + c[x]
    BY <1>9, <2>2 DEF Left
  <2> QED
    BY <2>1, <2>2, <2>3, <2>4, Zenon
<1>20. Good(g, Minus(c, v), ty)
  <2>1. \A e \in X : e = <<e[1], e[2]>> /\ X = {e}
    OBVIOUS
  <2>2. Refs!Objects(g) = Obj \ D /\ D \in SUBSET Obj /\ X # {}
    BY <1>10, <1>13 DEF PutOf
  <2>3. \A x \in D : c[x] = 0 /\ Refs!Holding(h, Obj \ D, x) \ X = {}
    BY <1>9 DEF Left
  <2>4. v \in Nat /\ (v = Refs!NULL \/ v \in Refs!Objects(g))
    BY <1>13, <1>16
  <2> HIDE DEF X
  <2>5. Settled(g, h, X, c, v, D)
    BY <1>19, <2>1, <2>2, <2>3, <2>4 DEF Settled
  <2> QED
    BY <1>1, <1>17, <1>18, <2>5, SettledGood
<1>21. Stays(g, F)
  <2> SUFFICES ASSUME NEW e \in F
               PROVE  /\ e[1] \in Refs!Objects(g) /\ e[3] \in Refs!Objects(g)
                      /\ e[2] \in DOMAIN g[e[1]].kids /\ g[e[1]].kids[e[2]] = e[3]
    BY DEF Stays
  <2>1. e[1] \in Obj \ D /\ e[3] \in Obj \ D /\ Refs!Objects(g) = Obj \ D
    BY <1>3, <1>11, <1>13
  <2>2. e[2] \in DOMAIN h[e[1]].kids /\ h[e[1]].kids[e[2]] = e[3]
    BY <1>1 DEF Stays
  <2>3. ~(e[1] = o /\ e[2] = key)
    BY DEF CanAdd
  <2> QED
    BY <1>13, <2>1, <2>2, <2>3
<1>22. v # Refs!NULL => Stays(g, {<<o, key, v>>})
  BY <1>11, <1>13, <1>16 DEF Stays
<1> QED
  BY <1>20, <1>21, <1>22 DEF Added

(* A row more at the end.                                                  *)
RowMore(r, t, x) ==
  /\ DOMAIN r = DOMAIN t \cup {Len(t) + 1} /\ r[Len(t) + 1] = x
  /\ \A k \in DOMAIN t : r[k] = t[k]
(* A row more is appended.                                                 *)
LEMMA AppendRow ==
  ASSUME NEW T, NEW t \in Seq(T), NEW x \in T
  PROVE  Append(t, x) \in Seq(T) /\ RowMore(Append(t, x), t, x)
BY DEF RowMore

(* A new row takes one owner of the value over, too.                       *)
LEMMA AppendGood ==
  ASSUME NEW h, NEW c, NEW F, NEW ty, Fit(h, c, F, ty),
         NEW a \in Firm(c, F), Refs!Type(ty[a]) = "array",
         NEW v \in Firm(c, F), ty[v] = Refs!Each(ty[a]), NEW g, g = Refs!ArrayAdd(h, a, v)
  PROVE  Good(g, Minus(c, v), ty) /\ Stays(g, F)
<1> DEFINE Obj == Refs!Objects(h)
           row == Len(h[a].kids) + 1
           X == {<<a, row>>}
<1>1. /\ Shape(h) /\ KindsFit(h, ty) /\ c \in [Nat -> Nat] /\ Stays(h, F)
      /\ \A x \in Nat \ Obj : c[x] = 0
      /\ \A x \in Obj : h[x].refs = Cardinality(Refs!Holding(h, Obj, x)) + c[x]
  BY DEF Fit, Good
<1>2. Obj \subseteq Nat /\ Refs!NULL \notin Obj /\ Obj \subseteq DOMAIN h /\ Refs!NULL \in Nat
      /\ \A x \in DOMAIN h : x = Refs!NULL \/ x \in Obj
  BY <1>1 DEF Shape, Refs!Objects, Refs!NULL
<1>3. a \in Obj /\ v \in Obj /\ \A e \in F : e[1] \in Obj /\ e[3] \in Obj
  BY FirmFacts
<1>4. h[a].type = "array" /\ h[a].kids \in Seq(Nat \ {Refs!NULL})
  BY <1>1, <1>3 DEF KindsFit
<1>5. AddOf(g, h, a, row, v) /\ g[a].kids = Append(h[a].kids, v)
  <2> DEFINE new == Append(h[a].kids, v)
  <2>1. g = [h EXCEPT ![a].kids = new]
    BY <1>3, <1>4 DEF Refs!ArrayAdd, Refs!Is
  <2>2. /\ DOMAIN new = DOMAIN h[a].kids \cup {row} /\ new[row] = v
        /\ \A k \in DOMAIN h[a].kids : k # row => new[k] = h[a].kids[k]
    <3>1. v \in Nat \ {Refs!NULL}
      BY <1>2, <1>3
    <3>2. h[a].kids \in Seq(Nat \ {Refs!NULL})
      BY <1>4
    <3>3. RowMore(new, h[a].kids, v)
      BY <3>1, <3>2, AppendRow
    <3> HIDE DEF new
    <3> QED
      BY <3>3 DEF RowMore
  <2> HIDE DEF new, row
  <2>3. h = [p \in DOMAIN h |-> h[p]]
        /\ h[a] = [type |-> h[a].type, refs |-> h[a].refs, kids |-> h[a].kids]
    BY <1>1, <1>2, <1>3 DEF Shape
  <2>4. g = [p \in DOMAIN h |-> IF p = a THEN [h[a] EXCEPT !.kids = new] ELSE h[p]]
    BY <2>1, <2>3
  <2>5. g[a] = [h[a] EXCEPT !.kids = new]
    BY <1>2, <1>3, <2>4
  <2>6. g[a] = [type |-> h[a].type, refs |-> h[a].refs, kids |-> new]
    BY <2>3, <2>5
  <2>7. DOMAIN g = DOMAIN h /\ g = [p \in DOMAIN g |-> g[p]]
        /\ \A p \in DOMAIN h : p # a => g[p] = h[p]
    BY <2>4
  <2>8. AddOf(g, h, a, row, v)
    BY <2>2, <2>6, <2>7 DEF AddOf
  <2> QED
    BY <2>6, <2>8 DEF new
<1>6. row \notin DOMAIN h[a].kids
  BY <1>4
<1> HIDE DEF row
<1>7. /\ DOMAIN g = DOMAIN h /\ Refs!Objects(g) = Obj /\ g = [p \in DOMAIN g |-> g[p]]
      /\ \A p \in DOMAIN h : p # a => g[p] = h[p]
      /\ \A p \in DOMAIN h : g[p].type = h[p].type /\ g[p].refs = h[p].refs
      /\ DOMAIN g[a].kids = DOMAIN h[a].kids \cup {row} /\ g[a].kids[row] = v
      /\ \A k \in DOMAIN h[a].kids : g[a].kids[k] = h[a].kids[k]
  BY <1>5, <1>6 DEF AddOf, Refs!Objects
<1>8. Shape(g)
  <2>1. DOMAIN g \subseteq Nat /\ IsFiniteSet(DOMAIN g) /\ Refs!NULL \in DOMAIN g
        /\ g[Refs!NULL] = Refs!Null
    BY <1>1, <1>2, <1>3, <1>7 DEF Shape
  <2>2. ASSUME NEW p \in DOMAIN g
        PROVE  g[p] = [type |-> g[p].type, refs |-> g[p].refs, kids |-> g[p].kids]
    <3>1. CASE p = a
      BY <1>5, <3>1 DEF AddOf
    <3>2. CASE p # a
      <4>1. g[p] = h[p] /\ p \in DOMAIN h
        BY <1>7, <3>2
      <4> QED
        BY <1>1, <4>1 DEF Shape
    <3> QED
      BY <3>1, <3>2
  <2>3. ASSUME NEW p \in Refs!Objects(g)
        PROVE  /\ g[p].refs \in Nat \ {0} /\ IsFiniteSet(DOMAIN g[p].kids)
               /\ \A k \in DOMAIN g[p].kids : g[p].kids[k] \in DOMAIN g
    <3>1. p \in Obj /\ IsFiniteSet(DOMAIN h[p].kids) /\ h[p].refs \in Nat \ {0}
          /\ \A k \in DOMAIN h[p].kids : h[p].kids[k] \in DOMAIN h
      BY <1>1, <1>7 DEF Shape
    <3>2. g[p].refs = h[p].refs
      BY <1>2, <1>7, <3>1
    <3>3. CASE p = a
      <4>1. IsFiniteSet(DOMAIN g[p].kids)
        BY <1>7, <3>1, <3>3, FS_AddElement
      <4>2. v \in DOMAIN h
        BY <1>2, <1>3
      <4> QED
        BY <1>7, <3>1, <3>2, <3>3, <4>1, <4>2
    <3>4. CASE p # a
      <4>1. g[p] = h[p]
        BY <1>2, <1>7, <3>1, <3>4
      <4> QED
        BY <1>7, <3>1, <3>2, <4>1
    <3> QED
      BY <3>3, <3>4
  <2> QED
    BY <1>7, <2>1, <2>2, <2>3 DEF Shape
<1>9. KindsFit(g, ty)
  <2> SUFFICES ASSUME NEW p \in Refs!Objects(g)
               PROVE  /\ ty[p] \in DOMAIN Schema /\ g[p].type = Refs!Type(ty[p])
                      /\ g[p].type = "object" =>
                           \A k \in DOMAIN g[p].kids :
                             g[p].kids[k] # Refs!NULL =>
                               /\ k \in DOMAIN Refs!Parts(ty[p])
                               /\ ty[g[p].kids[k]] = Refs!Parts(ty[p])[k]
                      /\ g[p].type = "array" =>
                           /\ g[p].kids \in Seq(Nat \ {Refs!NULL})
                           /\ \A k \in DOMAIN g[p].kids : ty[g[p].kids[k]] = Refs!Each(ty[p])
                      /\ g[p].type = "string" => g[p].kids = Refs!Nothing
    BY DEF KindsFit
  <2>1. p \in Obj /\ p \in DOMAIN h /\ g[p].type = h[p].type
    BY <1>2, <1>7
  <2>2. CASE p # a
    <3>1. g[p] = h[p]
      BY <1>7, <2>1, <2>2
    <3> QED
      BY <1>1, <2>1, <3>1 DEF KindsFit
  <2>3. CASE p = a
    <3>1. g[p].type = "array" /\ ty[p] \in DOMAIN Schema /\ g[p].type = Refs!Type(ty[p])
      BY <1>1, <1>4, <2>1, <2>3 DEF KindsFit
    <3>2. g[p].kids \in Seq(Nat \ {Refs!NULL})
      <4>1. v \in Nat \ {Refs!NULL}
        BY <1>2, <1>3
      <4>2. h[a].kids \in Seq(Nat \ {Refs!NULL})
        BY <1>4
      <4>3. Append(h[a].kids, v) \in Seq(Nat \ {Refs!NULL})
        BY <4>1, <4>2, AppendRow
      <4> QED
        BY <1>5, <2>3, <4>3
    <3>3. ASSUME NEW k \in DOMAIN g[p].kids PROVE ty[g[p].kids[k]] = Refs!Each(ty[p])
      <4>1. CASE k = row
        BY <1>7, <2>3, <4>1
      <4>2. CASE k # row
        <5>1. k \in DOMAIN h[p].kids /\ g[p].kids[k] = h[p].kids[k]
          BY <1>7, <2>3, <4>2
        <5> QED
          BY <1>1, <1>4, <2>1, <2>3, <5>1 DEF KindsFit
      <4> QED
        BY <4>1, <4>2
    <3> QED
      BY <3>1, <3>2, <3>3
  <2> QED
    BY <2>2, <2>3
<1>10. WrittenIn(g, h, Obj, a, row, v)
  BY <1>2, <1>3, <1>7 DEF WrittenIn
<1>11. ASSUME NEW x \in Refs!Objects(g)
       PROVE  /\ g[x].refs = Cardinality(Refs!Holding(h, Obj \ {}, x) \ X) + c[x]
              /\ Refs!Holding(g, Refs!Objects(g), x) =
                   (Refs!Holding(h, Obj \ {}, x) \ X) \cup (IF x = v THEN X ELSE {})
  <2>1. Refs!Holding(g, Obj, x) =
          (Refs!Holding(h, Obj, x) \ X) \cup (IF x = v THEN X ELSE {})
    BY <1>10, WrittenHolding
  <2>2. Obj \ {} = Obj /\ x \in Obj /\ x \in DOMAIN h /\ Refs!Objects(g) = Obj
    BY <1>2, <1>7
  <2>3. <<a, row>> \notin Refs!Holding(h, Obj, x)
    <3>1. \A t, b1, b2 : <<b1, b2>> \in Refs!Holding(h, Obj, t) <=>
                           b1 \in Obj /\ b2 \in DOMAIN h[b1].kids /\ h[b1].kids[b2] = t
      BY EntryFacts
    <3> QED
      BY <1>6, <3>1, Zenon
  <2>4. Refs!Holding(h, Obj, x) \ X = Refs!Holding(h, Obj, x)
    BY <2>3
  <2>5. Refs!Holding(h, Obj \ {}, x) \ X = Refs!Holding(h, Obj, x)
    BY <2>2, <2>4, Zenon
  <2>6. h[x].refs = Cardinality(Refs!Holding(h, Obj, x)) + c[x] /\ g[x].refs = h[x].refs
    BY <1>1, <1>7, <2>2
  <2>7. g[x].refs = Cardinality(Refs!Holding(h, Obj \ {}, x) \ X) + c[x]
    BY <2>5, <2>6, Zenon
  <2> QED
    BY <2>1, <2>2, <2>4, <2>5, <2>7, Zenon
<1>12. Good(g, Minus(c, v), ty)
  <2>1. \A e \in X : e = <<e[1], e[2]>> /\ X = {e}
    OBVIOUS
  <2>2. Refs!Objects(g) = Obj \ {} /\ {} \in SUBSET Obj /\ X # {}
    BY <1>7
  <2>3. v \in Nat /\ v \in Refs!Objects(g)
    BY <1>2, <1>3, <1>7
  <2> HIDE DEF X
  <2>4. Settled(g, h, X, c, v, {})
    BY <1>11, <2>1, <2>2, <2>3 DEF Settled
  <2> QED
    BY <1>1, <1>8, <1>9, <2>4, SettledGood
<1>13. Stays(g, F)
  <2> SUFFICES ASSUME NEW e \in F
               PROVE  /\ e[1] \in Refs!Objects(g) /\ e[3] \in Refs!Objects(g)
                      /\ e[2] \in DOMAIN g[e[1]].kids /\ g[e[1]].kids[e[2]] = e[3]
    BY DEF Stays
  <2>1. e[1] \in Obj /\ e[3] \in Obj /\ e[1] \in DOMAIN h
    BY <1>2, <1>3
  <2>2. e[2] \in DOMAIN h[e[1]].kids /\ h[e[1]].kids[e[2]] = e[3]
    BY <1>1 DEF Stays
  <2> QED
    BY <1>7, <2>1, <2>2
<1> QED
  BY <1>12, <1>13

(* Owners that come and go.                                                *)
LEMMA OwnerFacts ==
  ASSUME NEW c \in [Nat -> Int], NEW o \in Nat
  PROVE  /\ Plus(c, o) \in [Nat -> Int] /\ Minus(c, o) \in [Nat -> Int]
         /\ Minus(Plus(c, o), o) = c /\ Plus(Minus(c, o), o) = c
         /\ Plus(c, Refs!NULL) = c /\ Minus(c, Refs!NULL) = c
<1>1. \A x \in Nat : /\ Plus(c, o)[x] = IF x = o /\ o # Refs!NULL THEN c[x] + 1 ELSE c[x]
                     /\ Minus(c, o)[x] = IF x = o /\ o # Refs!NULL THEN c[x] - 1 ELSE c[x]
  BY DEF Plus, Minus
<1>2. Plus(c, o) \in [Nat -> Int] /\ Minus(c, o) \in [Nat -> Int]
  BY DEF Plus, Minus
<1>3. Minus(Plus(c, o), o) = [x \in Nat |-> c[x]]
  BY <1>1 DEF Minus
<1>4. Plus(Minus(c, o), o) = [x \in Nat |-> c[x]]
  BY <1>1 DEF Plus
<1>5. c = [x \in Nat |-> c[x]]
  OBVIOUS
<1>6. Plus(c, Refs!NULL) = [x \in Nat |-> c[x]] /\ Minus(c, Refs!NULL) = [x \in Nat |-> c[x]]
  BY DEF Plus, Minus
<1> QED
  BY <1>2, <1>3, <1>4, <1>5, <1>6

(* With fewer entries that have to stay, less is firm.                     *)
LEMMA FewerFit ==
  ASSUME NEW h, NEW c, NEW G, NEW ty, Fit(h, c, G, ty), NEW F \in SUBSET G, Closed(c, F)
  PROVE  Fit(h, c, F, ty) /\ Firm(c, F) \subseteq Firm(c, G)
BY DEF Fit, Stays, Firm

(* One more owner of a firm object, or of nothing.                         *)
LEMMA GetFit ==
  ASSUME NEW h, NEW c, NEW F, NEW ty, Fit(h, c, F, ty),
         NEW o, o = Refs!NULL \/ o \in Firm(c, F), NEW g, g = Refs!Get(h, o)
  PROVE  Fit(g, Plus(c, o), F, ty) /\ Firm(c, F) \subseteq Firm(Plus(c, o), F)
<1>1. c \in [Nat -> Nat] /\ c \in [Nat -> Int] /\ Good(h, c, ty) /\ Stays(h, F) /\ Closed(c, F)
  BY DEF Fit
<1>2. CASE o = Refs!NULL
  <2>1. g = h
    BY <1>2 DEF Refs!Get, Refs!Objects
  <2>2. Plus(c, o) = c
    BY <1>1, <1>2 DEF Plus
  <2> QED
    BY <2>1, <2>2
<1>3. CASE o \in Firm(c, F)
  <2>1. o \in Refs!Objects(h)
    BY <1>3, FirmFacts
  <2>2. Good(g, Plus(c, o), ty) /\ Stays(g, F)
    BY <1>1, <2>1, GetGood
  <2>3. /\ Plus(c, o) \in [Nat -> Nat]
        /\ \A x \in Nat : c[x] >= 1 => Plus(c, o)[x] >= 1
    BY <1>1 DEF Plus
  <2>4. \A e \in F : e[1] \in Nat
    BY FirmFacts DEF Firm
  <2>5. Closed(Plus(c, o), F)
    BY <1>1, <2>3, <2>4 DEF Closed
  <2>6. Firm(c, F) \subseteq Firm(Plus(c, o), F)
    BY <2>3 DEF Firm
  <2> QED
    BY <2>2, <2>3, <2>5, <2>6 DEF Fit
<1> QED
  BY <1>2, <1>3

(* A member is shared: it has an owner more before it is added, or after.  *)
LEMMA ShareFit ==
  ASSUME NEW h, NEW c, NEW F, NEW ty, Fit(h, c, F, ty), NEW o, NEW key, NEW v,
         CanAdd(c, F, ty, o, key, v)
  PROVE  /\ Fit(Refs!Keep(Refs!ObjectAdd(h, o, key, v), v), c, F, ty)
         /\ Fit(Refs!ObjectAdd(Refs!Get(h, v), o, key, v), c, F, ty)
<1>1. c \in [Nat -> Nat] /\ c \in [Nat -> Int] /\ Closed(c, F)
  BY DEF Fit
<1>2. v \in Nat /\ (v = Refs!NULL \/ v \in Firm(c, F))
  BY DEF CanAdd, Firm, Refs!NULL
<1>3. Minus(Plus(c, v), v) = c /\ Plus(Minus(c, v), v) = c /\ Minus(c, Refs!NULL) = c
  BY <1>1, <1>2, OwnerFacts
<1>4. Fit(Refs!Keep(Refs!ObjectAdd(h, o, key, v), v), c, F, ty)
  <2> DEFINE f == Refs!ObjectAdd(h, o, key, v)
             g == Refs!Get(f, v)
  <2>1. Added(f, c, F, ty, o, key, v)
    BY AddGood
  <2> HIDE DEF f
  <2>2. Good(f, Minus(c, v), ty) /\ Stays(f, F)
    BY <2>1 DEF Added
  <2>3. Good(g, c, ty) /\ Stays(g, F)
    <3>1. CASE v = Refs!NULL
      <4>1. g = f
        BY <3>1 DEF Refs!Get, Refs!Objects
      <4> QED
        BY <1>3, <2>2, <3>1, <4>1
    <3>2. CASE v # Refs!NULL
      <4>1. v \in Refs!Objects(f)
        BY <2>1, <3>2 DEF Added, Stays
      <4>2. Good(g, Plus(Minus(c, v), v), ty) /\ Stays(g, F)
        BY <2>2, <4>1, GetGood
      <4> QED
        BY <1>3, <4>2
    <3> QED
      BY <3>1, <3>2
  <2> QED
    BY <1>1, <2>3 DEF Fit, Refs!Keep, f
<1>5. Fit(Refs!ObjectAdd(Refs!Get(h, v), o, key, v), c, F, ty)
  <2> DEFINE f == Refs!Get(h, v)
             g == Refs!ObjectAdd(f, o, key, v)
             b == Plus(c, v)
  <2>1. Fit(f, b, F, ty) /\ Firm(c, F) \subseteq Firm(b, F)
    BY <1>2, GetFit
  <2> HIDE DEF f, b
  <2>2. CanAdd(b, F, ty, o, key, v)
    BY <2>1 DEF CanAdd
  <2>3. Added(g, b, F, ty, o, key, v)
    BY <2>1, <2>2, AddGood
  <2>4. Good(g, c, ty) /\ Stays(g, F)
    BY <1>3, <2>3 DEF Added, b
  <2> QED
    BY <1>1, <2>4 DEF Fit, f
<1> QED
  BY <1>4, <1>5

(* The kinds of what was firm stay, those of new objects are added.        *)
Same(tz, ty, c, F) == \A x \in Firm(c, F) : tz[x] = ty[x]
Follows(g, c, F, ty, tz) == Fit(g, c, F, tz) /\ Same(tz, ty, c, F)

(* A new object as a member, in the place of an older one.                 *)
CanMake(c, F, ty, o, key, K) ==
  /\ o \in Firm(c, F) /\ Refs!Type(ty[o]) = "object" /\ key \in DOMAIN Refs!Parts(ty[o])
  /\ K = Refs!Parts(ty[o])[key] /\ \A e \in F : ~(e[1] = o /\ e[2] = key)
Made(g, c, F, ty, o, key, new, K, tz) ==
  /\ Fit(g, c, F \cup {<<o, key, new>>}, tz) /\ Same(tz, ty, c, F)
  /\ tz[new] = K /\ new \in Firm(c, F \cup {<<o, key, new>>}) /\ new \notin Firm(c, F)
  /\ Follows(g, c, F, ty, tz)
(* The new object has the kind of its place, and stays there.              *)
LEMMA MakeMember ==
  ASSUME NEW h, NEW c, NEW F, NEW ty, Fit(h, c, F, ty), NEW o, NEW key, NEW K,
         CanMake(c, F, ty, o, key, K), NEW new, new = Refs!NewId(h),
         NEW g, g = Refs!ObjectAdd(Refs!New(h, Refs!Type(K)), o, key, new)
  PROVE  \E tz : Made(g, c, F, ty, o, key, new, K, tz)
<1> DEFINE f == Refs!New(h, Refs!Type(K))
           b == Plus(c, new)
           tz == [x \in Nat |-> IF x = new THEN K ELSE ty[x]]
           G == F \cup {<<o, key, new>>}
<1>1. K \in DOMAIN Schema
  <2>1. o \in Refs!Objects(h) /\ ty[o] \in DOMAIN Schema
    BY FirmFacts DEF CanMake, Fit, Good, KindsFit
  <2> QED
    BY <2>1, ObjectsAssumption DEF CanMake, Refs!KindsInOrder
<1>2. /\ Fit(f, b, F, tz) /\ new \in Nat \ {Refs!NULL} /\ c[new] = 0 /\ new \notin Firm(c, F)
  BY <1>1, NewFit
<1>3. c \in [Nat -> Nat] /\ c \in [Nat -> Int] /\ Closed(c, F) /\ Firm(c, F) \subseteq Nat
  BY DEF Fit, Firm
<1>4. Firm(c, F) \subseteq Firm(b, F) /\ new \in Firm(b, F)
  <2>1. b[new] >= 1 /\ \A x \in Nat : c[x] >= 1 => b[x] >= 1
    BY <1>2, <1>3 DEF Plus
  <2> QED
    BY <1>2, <2>1 DEF Firm
<1>5. tz[new] = K /\ Same(tz, ty, c, F)
  BY <1>2, <1>3 DEF Same
<1>6. Minus(b, new) = c
  BY <1>2, <1>3, OwnerFacts
<1> HIDE DEF f, b, tz
<1>7. CanAdd(b, F, tz, o, key, new)
  <2>1. tz[o] = ty[o] /\ o \in Firm(b, F)
    BY <1>4, <1>5 DEF CanMake, Same
  <2> QED
    BY <1>4, <1>5, <2>1 DEF CanMake, CanAdd
<1>8. g = Refs!ObjectAdd(f, o, key, new)
  BY DEF f
<1>9. Added(g, b, F, tz, o, key, new)
  BY <1>2, <1>7, <1>8, AddGood
<1>10. Good(g, c, tz) /\ Stays(g, F) /\ Stays(g, {<<o, key, new>>})
  BY <1>2, <1>6, <1>9 DEF Added
<1>11. Stays(g, G)
  BY <1>10 DEF Stays
<1>12. Closed(c, G)
  BY <1>3 DEF CanMake, Closed, Firm
<1>13. Fit(g, c, G, tz) /\ Fit(g, c, F, tz)
  BY <1>3, <1>10, <1>11, <1>12 DEF Fit
<1>14. new \in Firm(c, G)
  <2>1. <<o, key, new>> \in G /\ <<o, key, new>>[3] = new /\ new \in Nat
    BY <1>2
  <2> QED
    BY <2>1, Zenon DEF Firm
<1> QED
  BY <1>2, <1>5, <1>13, <1>14 DEF Made, Follows

(* A member that is a new string.                                          *)
LEMMA AddStringFit ==
  ASSUME NEW h, NEW c, NEW F, NEW ty, Fit(h, c, F, ty), NEW o, NEW key, NEW K,
         CanMake(c, F, ty, o, key, K), Refs!Type(K) = "string",
         NEW g, g = Refs!AddString(h, o, key)
  PROVE  \E tz : Follows(g, c, F, ty, tz)
<1>1. Refs!Is(h, o, "object")
  BY FirmFacts DEF CanMake, Fit, Good, KindsFit, Refs!Is
<1>2. g = Refs!ObjectAdd(Refs!New(h, Refs!Type(K)), o, key, Refs!NewId(h))
  BY <1>1 DEF Refs!AddString
<1>3. PICK tz : Made(g, c, F, ty, o, key, Refs!NewId(h), K, tz)
  BY <1>2, MakeMember
<1> QED
  BY <1>3 DEF Made

(* The heap is as it should be, and what was firm has the kinds it had.    *)
Leads(g, c, F, ty) == \E tz : Follows(g, c, F, ty, tz)

(* Two steps in a row, as good as one.                                     *)
LEMMA LeadsOn ==
  ASSUME NEW h, NEW g, NEW c, NEW F, NEW ty, NEW tz, Follows(h, c, F, ty, tz), Leads(g, c, F, tz)
  PROVE  Leads(g, c, F, ty)
BY DEF Leads, Follows, Same

(* What keeps more entries keeps fewer, too.                               *)
LEMMA LeadsFewer ==
  ASSUME NEW g, NEW c, NEW G, NEW ty, Leads(g, c, G, ty), NEW F \in SUBSET G, Closed(c, F)
  PROVE  Leads(g, c, F, ty)
<1>1. PICK tz : Follows(g, c, G, ty, tz)
  BY DEF Leads
<1>2. Fit(g, c, G, tz)
  BY <1>1 DEF Follows
<1>3. Fit(g, c, F, tz) /\ Firm(c, F) \subseteq Firm(c, G)
  BY <1>2, FewerFit
<1>4. Follows(g, c, F, ty, tz)
  BY <1>1, <1>3 DEF Follows, Same
<1> QED
  BY <1>4 DEF Leads

(* Doing nothing keeps the heap as it should be.                           *)
LEMMA LeadsHere ==
  ASSUME NEW h, NEW c, NEW F, NEW ty, Fit(h, c, F, ty)
  PROVE  Follows(h, c, F, ty, ty) /\ Leads(h, c, F, ty)
BY DEF Leads, Follows, Same

(* A new object goes to the end of an array, where its maker leaves it.    *)
LEMMA AppendFit ==
  ASSUME NEW h, NEW b, NEW c, NEW F, NEW ty, Fit(h, b, F, ty), c \in [Nat -> Nat], Closed(c, F),
         NEW v, b = Plus(c, v), v \in Firm(b, F),
         NEW a, a \in Firm(b, F), Refs!Type(ty[a]) = "array", ty[v] = Refs!Each(ty[a])
  PROVE  Fit(Refs!ArrayAdd(h, a, v), c, F, ty)
<1>1. c \in [Nat -> Int] /\ v \in Nat
  BY DEF Firm
<1>2. Minus(b, v) = c
  BY <1>1, OwnerFacts
<1>3. Good(Refs!ArrayAdd(h, a, v), Minus(b, v), ty) /\ Stays(Refs!ArrayAdd(h, a, v), F)
  BY AppendGood
<1> QED
  BY <1>2, <1>3 DEF Fit

(* What a fetch handler needs: the object or the array is firm and of the  *)
(* kind that belongs there.                                                *)
CanFetch(c, F, ty, handler, o) ==
  /\ o \in Firm(c, F)
  /\ \/ handler = "row" /\ Refs!IsRow(ty[o]) /\ \A e \in F : ~(e[1] = o /\ e[2] = "col")
     \/ handler = "rows" /\ Refs!Type(ty[o]) = "array" /\ Refs!IsRow(Refs!Each(ty[o]))
     \/ handler = "column" /\ Refs!Type(ty[o]) = "array" /\ Refs!Type(Refs!Each(ty[o])) = "string"

(* A kind's parts have kinds, too.                                         *)
LEMMA KindFacts ==
  ASSUME NEW K \in DOMAIN Schema
  PROVE  /\ Refs!Type(K) \in {"object", "array", "string"}
         /\ \A key \in DOMAIN Refs!Parts(K) :
              Refs!Parts(K)[key] \in DOMAIN Schema \ {"request", "response"}
         /\ Refs!Type(K) = "array" => /\ Refs!Each(K) = Refs!Parts(K)["each"]
                                      /\ Refs!Each(K) \in DOMAIN Schema \ {"request", "response"}
BY ObjectsAssumption DEF Refs!KindsInOrder, Refs!Each

(* What is firm is an object of its kind.                                  *)
LEMMA FirmKind ==
  ASSUME NEW h, NEW c, NEW F, NEW ty, Fit(h, c, F, ty), NEW o \in Firm(c, F)
  PROVE  ty[o] \in DOMAIN Schema /\ h[o].type = Refs!Type(ty[o]) /\ o \in Refs!Objects(h)
BY FirmFacts DEF Fit, Good, KindsFit

(* A fetch handler keeps the heap as it should be.                         *)
LEMMA AddRowFit ==
  ASSUME NEW h, NEW c, NEW F, NEW ty, Fit(h, c, F, ty), NEW handler, NEW o,
         CanFetch(c, F, ty, handler, o)
  PROVE  Leads(Refs!AddRow(h, handler, o), c, F, ty)
<1> DEFINE g == Refs!AddRow(h, handler, o)
           new == Refs!NewId(h)
           b == Plus(c, new)
<1>1. o \in Firm(c, F) /\ ty[o] \in DOMAIN Schema /\ c \in [Nat -> Nat] /\ Closed(c, F)
  BY FirmKind DEF CanFetch, Fit
<1>2. CASE handler = "row"
  <2> DEFINE K == Refs!Parts(ty[o])["col"]
  <2>1. Refs!IsRow(ty[o]) /\ \A e \in F : ~(e[1] = o /\ e[2] = "col")
    BY <1>2 DEF CanFetch
  <2>2. CanMake(c, F, ty, o, "col", K) /\ Refs!Type(K) = "string"
    BY <1>1, <2>1 DEF CanMake, Refs!IsRow, Refs!HasPart
  <2>3. g = Refs!AddString(h, o, "col")
    BY <1>2 DEF Refs!AddRow
  <2> HIDE DEF K, g
  <2>4. \E tz : Follows(g, c, F, ty, tz)
    BY <2>2, <2>3, AddStringFit
  <2> QED
    BY <2>4 DEF Leads, g
<1>3. ASSUME Refs!Type(ty[o]) = "array", NEW type, type = Refs!Type(Refs!Each(ty[o]))
      PROVE  \E tz : /\ Fit(Refs!New(h, type), b, F, tz) /\ Same(tz, ty, c, F)
                     /\ tz[new] = Refs!Each(ty[o]) /\ new \in Firm(b, F)
                     /\ Firm(c, F) \subseteq Firm(b, F) /\ \A e \in F : e[1] # new
  <2> DEFINE K == Refs!Each(ty[o])
             tz == [x \in Nat |-> IF x = new THEN K ELSE ty[x]]
             f == Refs!New(h, type)
  <2>1. K \in DOMAIN Schema
    BY <1>1, <1>3, KindFacts
  <2>2. f = Refs!New(h, Refs!Type(K))
    BY <1>3
  <2> HIDE DEF K, f
  <2>3. /\ Fit(f, b, F, tz)
        /\ new \in Nat \ {Refs!NULL} /\ c[new] = 0 /\ new \notin Firm(c, F)
    BY <2>1, <2>2, NewFit
  <2>4. Firm(c, F) \subseteq Nat /\ Firm(c, F) \subseteq Firm(b, F) /\ new \in Firm(b, F)
    <3>1. b[new] >= 1 /\ \A x \in Nat : c[x] >= 1 => b[x] >= 1
      BY <1>1, <2>3 DEF Plus
    <3> QED
      BY <2>3, <3>1 DEF Firm
  <2>5. \A e \in F : e[1] # new
    BY <2>3, FirmFacts
  <2>6. tz[new] = K /\ Same(tz, ty, c, F)
    BY <2>3, <2>4 DEF Same
  <2> HIDE DEF tz, b
  <2> QED
    BY <2>3, <2>4, <2>5, <2>6 DEF K, f
<1> HIDE DEF b
<1>4. CASE handler = "column"
  <2>1. Refs!Type(ty[o]) = "array" /\ "string" = Refs!Type(Refs!Each(ty[o]))
    BY <1>4 DEF CanFetch
  <2>2. PICK tz : /\ Fit(Refs!New(h, "string"), b, F, tz) /\ Same(tz, ty, c, F)
                  /\ tz[new] = Refs!Each(ty[o]) /\ new \in Firm(b, F)
                  /\ Firm(c, F) \subseteq Firm(b, F) /\ \A e \in F : e[1] # new
    BY <1>3, <2>1
  <2>3. g = Refs!ArrayAdd(Refs!New(h, "string"), o, new)
    BY <1>4 DEF Refs!AddRow
  <2>4. tz[o] = ty[o] /\ o \in Firm(b, F)
    BY <1>1, <2>2 DEF Same
  <2> HIDE DEF new, g
  <2>5. Fit(g, c, F, tz)
    BY <1>1, <2>1, <2>2, <2>3, <2>4, AppendFit DEF b
  <2>6. Follows(g, c, F, ty, tz)
    BY <2>2, <2>5 DEF Follows
  <2> QED
    BY <2>6 DEF Leads, g
<1>5. CASE handler = "rows"
  <2> DEFINE K == Refs!Each(ty[o])
             S == Refs!Parts(K)["col"]
  <2>1. Refs!Type(ty[o]) = "array" /\ Refs!IsRow(K)
    BY <1>5 DEF CanFetch
  <2>2. "object" = Refs!Type(K) /\ "col" \in DOMAIN Refs!Parts(K) /\ Refs!Type(S) = "string"
    BY <2>1 DEF Refs!IsRow, Refs!HasPart
  <2>3. PICK tz : /\ Fit(Refs!New(h, "object"), b, F, tz) /\ Same(tz, ty, c, F)
                  /\ tz[new] = K /\ new \in Firm(b, F)
                  /\ Firm(c, F) \subseteq Firm(b, F) /\ \A e \in F : e[1] # new
    BY <1>3, <2>1, <2>2
  <2> DEFINE f == Refs!AddString(Refs!New(h, "object"), new, "col")
  <2>4. g = Refs!ArrayAdd(f, o, new)
    BY <1>5 DEF Refs!AddRow
  <2>5. CanMake(b, F, tz, new, "col", S)
    BY <2>2, <2>3 DEF CanMake
  <2> HIDE DEF K, S, f, new, g
  <2>6. PICK tw : Follows(f, b, F, tz, tw)
    BY <2>2, <2>3, <2>5, AddStringFit DEF f
  <2>7. Fit(f, b, F, tw) /\ Same(tw, tz, b, F)
    BY <2>6 DEF Follows
  <2>8. tw[new] = K /\ tw[o] = ty[o] /\ o \in Firm(b, F)
    BY <1>1, <2>3, <2>7 DEF Same
  <2>9. Fit(g, c, F, tw)
    BY <1>1, <2>1, <2>3, <2>4, <2>7, <2>8, AppendFit DEF b, K
  <2>10. Same(tw, ty, c, F)
    BY <2>3, <2>7 DEF Same
  <2>11. Follows(g, c, F, ty, tw)
    BY <2>9, <2>10 DEF Follows
  <2> QED
    BY <2>11 DEF Leads, g
<1> QED
  BY <1>2, <1>4, <1>5 DEF CanFetch

(* The heaps after each row of a select.                                   *)
FetchRounds(after, h, k, handler, o) ==
  /\ after[0] = h /\ \A i \in 1..k : after[i] = Refs!AddRow(after[i - 1], handler, o)
  /\ \A g \in Refs!Fetched(h, k, handler, o) : \E i \in 0..k : g.heap = after[i]
(* A select goes through such rounds.                                      *)
LEMMA FetchedRounds ==
  ASSUME NEW h, NEW N \in Nat, NEW handler, NEW o
  PROVE  \E after : FetchRounds(after, h, N, handler, o)
<1> DEFINE Turn(f, i) == IF i = 0 THEN h ELSE Refs!AddRow(f[i - 1], handler, o)
           P == {k \in Nat : \E f : f = [i \in 0..k |-> Turn(f, i)]}
<1>1. 0 \in P
  <2> DEFINE f == [i \in 0..0 |-> h]
  <2>1. f = [i \in 0..0 |-> Turn(f, i)]
    OBVIOUS
  <2> QED
    BY <2>1
<1>2. ASSUME NEW k \in Nat, k \in P PROVE k + 1 \in P
  <2>1. PICK g : g = [i \in 0..k |-> Turn(g, i)]
    BY <1>2
  <2> DEFINE f == [i \in 0..k + 1 |-> IF i = k + 1 THEN Turn(g, i) ELSE g[i]]
  <2>2. /\ f = [i \in 0..k + 1 |-> f[i]]
        /\ \A i \in 0..k + 1 : f[i] = IF i = k + 1 THEN Turn(g, i) ELSE g[i]
    OBVIOUS
  <2> HIDE DEF f
  <2>3. ASSUME NEW i \in 0..k + 1 PROVE f[i] = Turn(f, i)
    <3>1. i # 0 => f[i - 1] = g[i - 1]
      BY <2>2
    <3>2. Turn(f, i) = Turn(g, i)
      BY <3>1
    <3> HIDE DEF Turn
    <3>3. i # k + 1 => g[i] = Turn(g, i)
      BY <2>1
    <3> QED
      BY <2>2, <3>2, <3>3
  <2> HIDE DEF Turn
  <2>4. f = [i \in 0..k + 1 |-> Turn(f, i)]
    BY <2>2, <2>3
  <2>5. k + 1 \in Nat
    OBVIOUS
  <2> QED
    BY <2>4, <2>5, Zenon
<1> HIDE DEF P
<1>3. N \in P
  BY <1>1, <1>2, SetInduction
<1>4. \E f : f = [i \in 0..N |-> Turn(f, i)]
  BY <1>3 DEF P
<1> DEFINE G == CHOOSE f : f = [i \in 0..N |-> Turn(f, i)]
<1>5. G = [i \in 0..N |-> Turn(G, i)]
  BY <1>4, Zenon
<1>6. Refs!Fetched(h, N, handler, o) = {Refs!Result(G[i], ok) : i \in 0..N, ok \in BOOLEAN}
  BY DEF Refs!Fetched
<1> HIDE DEF G
<1>7. \A i \in 0..N : G[i] = Turn(G, i)
  BY <1>5
<1>8. 0 \in 0..N /\ \A i \in 1..N : i \in 0..N /\ i # 0
  OBVIOUS
<1>9. G[0] = h /\ \A i \in 1..N : G[i] = Refs!AddRow(G[i - 1], handler, o)
  BY <1>7, <1>8, Zenon
<1>10. \A g \in Refs!Fetched(h, N, handler, o) : \E i \in 0..N : g.heap = G[i]
  BY <1>6 DEF Refs!Result
<1>11. FetchRounds(G, h, N, handler, o)
  BY <1>9, <1>10 DEF FetchRounds
<1> QED
  BY <1>11

(* Every end of a select leads on.                                         *)
LEMMA FetchedFit ==
  ASSUME NEW h, NEW c, NEW F, NEW ty, Fit(h, c, F, ty), NEW handler, NEW o,
         CanFetch(c, F, ty, handler, o), NEW N \in Nat, NEW g \in Refs!Fetched(h, N, handler, o)
  PROVE  Leads(g.heap, c, F, ty)
<1>1. PICK after : FetchRounds(after, h, N, handler, o)
  BY FetchedRounds
<1> DEFINE T == {i \in Nat : i <= N => Leads(after[i], c, F, ty)}
<1>2. 0 \in T
  BY <1>1, LeadsHere DEF FetchRounds
<1>3. ASSUME NEW i \in Nat, i \in T PROVE i + 1 \in T
  <2> SUFFICES ASSUME i + 1 <= N PROVE Leads(after[i + 1], c, F, ty)
    OBVIOUS
  <2>1. Leads(after[i], c, F, ty)
    BY <1>3
  <2>2. PICK tz : Follows(after[i], c, F, ty, tz)
    BY <2>1 DEF Leads
  <2>3. Fit(after[i], c, F, tz) /\ Same(tz, ty, c, F)
    BY <2>2 DEF Follows
  <2>4. CanFetch(c, F, tz, handler, o)
    <3>1. o \in Firm(c, F) /\ tz[o] = ty[o]
      BY <2>3 DEF CanFetch, Same
    <3> QED
      BY <3>1 DEF CanFetch
  <2>5. Leads(Refs!AddRow(after[i], handler, o), c, F, tz)
    BY <2>3, <2>4, AddRowFit
  <2>6. after[i + 1] = Refs!AddRow(after[i], handler, o)
    <3>1. i + 1 \in 1..N /\ (i + 1) - 1 = i
      OBVIOUS
    <3> QED
      BY <1>1, <3>1 DEF FetchRounds
  <2>7. Leads(after[i + 1], c, F, tz)
    BY <2>5, <2>6
  <2> QED
    BY <2>2, <2>7, LeadsOn
<1> HIDE DEF T
<1>4. Nat \subseteq T
  BY <1>2, <1>3, SetInduction
<1>5. PICK i \in 0..N : g.heap = after[i]
  BY <1>1 DEF FetchRounds
<1>6. i \in Nat /\ i <= N
  OBVIOUS
<1> QED
  BY <1>4, <1>5, <1>6 DEF T

(* The two roots of a cycle.                                               *)
Rooted(c, F, ty) ==
  /\ request \in Firm(c, F) /\ response \in Firm(c, F) /\ request # response
  /\ ty[request] = "request" /\ ty[response] = "response"
  /\ c[request] >= 1 /\ c[response] >= 1

(* A module's input: nothing that stays is in it; what stays is in the     *)
(* request, or in an array.                                                *)
Ready(c, F, ty, in) ==
  /\ Rooted(c, F, ty) /\ in \in Firm(c, F)
  /\ \A e \in F : e[1] # in /\ (e[1] = request \/ Refs!Type(ty[e[1]]) = "array")

(* The two roots have two kinds, and both are objects.                     *)
LEMMA RootFacts ==
  /\ {"request", "response"} \subseteq DOMAIN Schema
  /\ Refs!Type("request") = "object" /\ Refs!Type("response") = "object"
  /\ "request" # "response"
BY ObjectsAssumption DEF Refs!KindsInOrder

(* Nothing that stays is in the input or in the response.                  *)
LEMMA ReadyFacts ==
  ASSUME NEW c, NEW F, NEW ty, NEW in, Ready(c, F, ty, in)
  PROVE  /\ Rooted(c, F, ty) /\ in \in Firm(c, F) /\ \A e \in F : e[1] # in
         /\ \A e \in F : e[1] # response
BY RootFacts DEF Ready, Rooted

(* A member that is there is what it should be, and can be made to stay.   *)
LEMMA MemberFit ==
  ASSUME NEW h, NEW c, NEW F, NEW ty, Fit(h, c, F, ty), NEW o \in Firm(c, F), NEW key,
         NEW v, v = Refs!Member(h, o, key), v # Refs!NULL
  PROVE  /\ Fit(h, c, F \cup {<<o, key, v>>}, ty)
         /\ v \in Firm(c, F \cup {<<o, key, v>>})
         /\ Refs!Type(ty[o]) = "object" /\ key \in DOMAIN Refs!Parts(ty[o])
         /\ ty[v] = Refs!Parts(ty[o])[key]
<1>1. Refs!Has(h, o, key) /\ v = h[o].kids[key]
  BY DEF Refs!Member
<1>2. o \in Refs!Objects(h) /\ h[o].type = "object" /\ key \in DOMAIN h[o].kids
  BY <1>1 DEF Refs!Has, Refs!Is
<1>3. Shape(h) /\ KindsFit(h, ty) /\ Stays(h, F) /\ Closed(c, F) /\ c \in [Nat -> Nat]
      /\ Good(h, c, ty)
  BY DEF Fit, Good
<1>4. v \in DOMAIN h
  BY <1>1, <1>2, <1>3 DEF Shape
<1>5. v \in Refs!Objects(h) /\ v \in Nat
  BY <1>3, <1>4 DEF Shape, Refs!Objects
<1>6. Stays(h, F \cup {<<o, key, v>>})
  BY <1>1, <1>2, <1>3, <1>5 DEF Stays
<1>7. Closed(c, F \cup {<<o, key, v>>})
  BY <1>3 DEF Closed, Firm
<1>8. v \in Firm(c, F \cup {<<o, key, v>>})
  <2>1. <<o, key, v>> \in F \cup {<<o, key, v>>} /\ <<o, key, v>>[3] = v
    OBVIOUS
  <2> QED
    BY <1>5, <2>1, Zenon DEF Firm
<1> QED
  BY <1>1, <1>2, <1>3, <1>6, <1>7, <1>8 DEF Fit, KindsFit

(* A new list, and what a select puts into it.                             *)
CanList(K, key, handler) ==
  /\ Refs!HasPart(K, key, "array")
  /\ \/ handler = "rows" /\ Refs!IsRow(Refs!Each(Refs!Parts(K)[key]))
     \/ handler = "column" /\ Refs!Type(Refs!Each(Refs!Parts(K)[key])) = "string"
(* A list and its rows keep the heap as it should be.                      *)
LEMMA NewListFit ==
  ASSUME NEW h, NEW c, NEW F, NEW ty, Fit(h, c, F, ty), NEW o \in Firm(c, F),
         \A e \in F : e[1] # o, NEW handler, NEW step, CanList(ty[o], step.key, handler),
         NEW N \in Nat,
         NEW g \in Refs!Fetched(Refs!NewArray(h, o, step), N, handler, Refs!NewId(h))
  PROVE  Leads(g.heap, c, F, ty)
<1> DEFINE K == Refs!Parts(ty[o])[step.key]
           new == Refs!NewId(h)
           f == Refs!NewArray(h, o, step)
           G == F \cup {<<o, step.key, new>>}
<1>1. CanMake(c, F, ty, o, step.key, K) /\ Refs!Type(K) = "array"
  BY DEF CanList, Refs!HasPart, CanMake
<1>2. f = Refs!ObjectAdd(Refs!New(h, Refs!Type(K)), o, step.key, new)
  BY <1>1 DEF Refs!NewArray
<1> HIDE DEF K, f, new
<1>3. PICK tz : Made(f, c, F, ty, o, step.key, new, K, tz)
  BY <1>1, <1>2, MakeMember DEF new
<1>4. /\ Fit(f, c, G, tz) /\ tz[new] = K /\ new \in Firm(c, G) /\ Follows(f, c, F, ty, tz)
  BY <1>3 DEF Made
<1>5. CanFetch(c, G, tz, handler, new)
  BY <1>1, <1>4 DEF CanFetch, CanList, K
<1>6. Leads(g.heap, c, G, tz)
  BY <1>4, <1>5, FetchedFit DEF f, new
<1>7. Closed(c, F)
  BY DEF Fit
<1>8. Leads(g.heap, c, F, tz)
  BY <1>6, <1>7, LeadsFewer
<1> QED
  BY <1>4, <1>8, LeadsOn

(* select_list and select_column_list do, for the target they choose.      *)
LEMMA SelectListFit ==
  ASSUME NEW h, NEW c, NEW F, NEW ty, Fit(h, c, F, ty), NEW in, Ready(c, F, ty, in), NEW step,
         NEW handler \in {"rows", "column"},
         CanList(Refs!TargetKind(ty[in], step), step.key, handler),
         NEW g, \/ handler = "rows" /\ g \in Refs!SelectList(h, in, step)
                \/ handler = "column" /\ g \in Refs!SelectColumnList(h, in, step)
  PROVE  Leads(g.heap, c, F, ty)
<1> DEFINE o == Refs!Target(in, step)
<1>1. o \in Firm(c, F) /\ \A e \in F : e[1] # o
  BY ReadyFacts DEF Refs!Target, Rooted
<1>2. ty[o] = Refs!TargetKind(ty[in], step)
  BY ReadyFacts DEF Refs!Target, Rooted, Refs!TargetKind
<1>3. g \in Refs!Fetched(Refs!NewArray(h, o, step), MaxFetched, handler, Refs!NewId(h))
  BY DEF Refs!SelectList, Refs!SelectColumnList, Refs!FetchRows, Refs!FetchColumn
<1> HIDE DEF o
<1>4. MaxFetched \in Nat /\ CanList(ty[o], step.key, handler)
  BY <1>2, ObjectsAssumption
<1> QED
  BY <1>1, <1>3, <1>4, NewListFit

(* Columns of one row can be added to an object that is firm.              *)
LEMMA FetchRowFit ==
  ASSUME NEW h, NEW c, NEW F, NEW ty, Fit(h, c, F, ty), NEW o \in Firm(c, F),
         \A e \in F : e[1] # o, Refs!IsRow(ty[o]), NEW g \in Refs!FetchRow(h, o)
  PROVE  Leads(g.heap, c, F, ty)
<1>1. CanFetch(c, F, ty, "row", o)
  BY DEF CanFetch
<1>2. g \in Refs!Fetched(h, 1, "row", o) /\ 1 \in Nat
  BY DEF Refs!FetchRow
<1> QED
  BY <1>1, <1>2, FetchedFit

(* select_one keeps the heap as it should be, member found or made.        *)
LEMMA SelectOneFit ==
  ASSUME NEW h, NEW c, NEW F, NEW ty, Fit(h, c, F, ty), NEW in, Ready(c, F, ty, in), NEW step,
         Refs!SelectOneAgrees(ty[in], step), NEW g \in Refs!SelectOne(h, in, step)
  PROVE  Leads(g.heap, c, F, ty)
<1> DEFINE found == Refs!Member(h, response, step.key)
           new == Refs!NewId(h)
           made == Refs!ObjectAdd(Refs!New(h, "object"), response, step.key, new)
           K == Refs!Parts("response")[step.key]
<1>1. Rooted(c, F, ty) /\ in \in Firm(c, F) /\ \A e \in F : e[1] # in /\ e[1] # response
  BY ReadyFacts
<1>2. Closed(c, F)
  BY DEF Fit
<1>3. CASE step.to = "request"
  <2>1. g \in Refs!FetchRow(h, in) /\ Refs!IsRow(ty[in])
    BY <1>3 DEF Refs!SelectOne, Refs!SelectOneAgrees
  <2> QED
    BY <1>1, <2>1, FetchRowFit
<1>4. ASSUME step.to # "request"
      PROVE  /\ Refs!Type(K) = "object" /\ Refs!IsRow(K) /\ K # "request"
             /\ step.key \in DOMAIN Refs!Parts("response")
  <2>1. Refs!Type(K) = "object" /\ Refs!IsRow(K) /\ step.key \in DOMAIN Refs!Parts("response")
    BY <1>4 DEF Refs!SelectOneAgrees, Refs!HasPart
  <2> QED
    BY <2>1, RootFacts, KindFacts
<1> HIDE DEF K
<1>5. CASE step.to # "request" /\ found # Refs!NULL
  <2> DEFINE G == F \cup {<<response, step.key, found>>}
  <2>1. g \in Refs!FetchRow(h, found)
    BY <1>5 DEF Refs!SelectOne
  <2> HIDE DEF found
  <2>2. /\ Fit(h, c, G, ty) /\ found \in Firm(c, G)
        /\ ty[found] = Refs!Parts(ty[response])[step.key]
    BY <1>1, <1>5, MemberFit DEF Rooted, found
  <2>3. ty[found] = K /\ Refs!IsRow(ty[found]) /\ Refs!Type(ty[found]) = "object"
        /\ ty[found] # "request" /\ ty[found] # "response"
    BY <1>1, <1>4, <1>5, <2>2, RootFacts, KindFacts DEF Rooted, K
  <2>4. ASSUME NEW e \in G PROVE e[1] # found
    <3>1. CASE e \in F
      BY <2>3, <3>1 DEF Ready, Rooted
    <3>2. CASE e = <<response, step.key, found>>
      <4>1. e[1] = response
        BY <3>2
      <4> QED
        BY <1>1, <2>3, <4>1 DEF Rooted
    <3> QED
      BY <3>1, <3>2
  <2>5. Leads(g.heap, c, G, ty)
    BY <2>1, <2>2, <2>3, <2>4, FetchRowFit
  <2> QED
    BY <1>2, <2>5, LeadsFewer
<1>6. CASE step.to # "request" /\ found = Refs!NULL
  <2> DEFINE G == F \cup {<<response, step.key, new>>}
  <2>1. g \in Refs!FetchRow(made, new)
    BY <1>6 DEF Refs!SelectOne
  <2>2. CanMake(c, F, ty, response, step.key, K)
    BY <1>1, <1>4, <1>6, RootFacts DEF Rooted, CanMake, K
  <2>3. made = Refs!ObjectAdd(Refs!New(h, Refs!Type(K)), response, step.key, new)
    BY <1>4, <1>6
  <2> HIDE DEF made, new
  <2>4. PICK tz : Made(made, c, F, ty, response, step.key, new, K, tz)
    BY <2>2, <2>3, MakeMember DEF new
  <2>5. /\ Fit(made, c, G, tz) /\ tz[new] = K /\ new \in Firm(c, G) /\ new \notin Firm(c, F)
        /\ Follows(made, c, F, ty, tz)
    BY <2>4 DEF Made
  <2>6. ASSUME NEW e \in G PROVE e[1] # new
    <3>1. CASE e \in F
      <4>1. e[1] \in Firm(c, F)
        BY <3>1, FirmFacts
      <4> QED
        BY <2>5, <4>1
    <3>2. CASE e = <<response, step.key, new>>
      BY <1>1, <2>5, <3>2 DEF Rooted
    <3> QED
      BY <3>1, <3>2
  <2>7. Refs!IsRow(tz[new])
    BY <1>4, <1>6, <2>5
  <2>8. Leads(g.heap, c, G, tz)
    BY <2>1, <2>5, <2>6, <2>7, FetchRowFit
  <2>9. Leads(g.heap, c, F, tz)
    BY <1>2, <2>8, LeadsFewer
  <2> QED
    BY <2>5, <2>9, LeadsOn
<1> QED
  BY <1>3, <1>5, <1>6

(* An output parameter keeps the heap as it should be.                     *)
LEMMA CallProcFit ==
  ASSUME NEW h, NEW c, NEW F, NEW ty, Fit(h, c, F, ty), NEW in \in Firm(c, F),
         \A e \in F : e[1] # in, NEW step, Refs!CallProcAgrees(ty[in], step),
         NEW g \in Refs!CallProc(h, in, step)
  PROVE  Leads(g.heap, c, F, ty)
<1>1. CASE g.heap = h
  BY <1>1, LeadsHere
<1>2. CASE g.heap = Refs!AddString(h, in, step.key)
  <2> DEFINE K == Refs!Parts(ty[in])[step.key]
             f == Refs!AddString(h, in, step.key)
  <2>1. CanMake(c, F, ty, in, step.key, K) /\ Refs!Type(K) = "string"
    BY DEF CanMake, Refs!CallProcAgrees, Refs!HasPart
  <2> HIDE DEF K
  <2>2. \E tz : Follows(f, c, F, ty, tz)
    BY <2>1, AddStringFit
  <2> QED
    BY <1>2, <2>2 DEF Leads
<1> QED
  BY <1>1, <1>2 DEF Refs!CallProc, Refs!Failed, Refs!Passed, Refs!Result

(* The wrapper of a row has one owner, and gives the row back.             *)
LEMMA CallProcRowFit ==
  ASSUME NEW h, NEW c, NEW F, NEW ty, Fit(h, c, F, ty), NEW row \in Firm(c, F),
         \A e \in F : e[1] # row, NEW step, Refs!CallProcRowAgrees(ty[row], step),
         NEW g \in Refs!CallProcRow(h, row, step)
  PROVE  Leads(g.heap, c, F, ty)
<1>1. ty[row] \in DOMAIN Schema /\ h[row].type = Refs!Type(ty[row]) /\ row \in Refs!Objects(h)
  BY FirmKind
<1>2. CASE h[row].type = "object"
  <2>1. g \in Refs!CallProc(h, row, step)
    BY <1>1, <1>2 DEF Refs!CallProcRow, Refs!Is
  <2>2. Refs!CallProcAgrees(ty[row], step)
    BY <1>1, <1>2 DEF Refs!CallProcRowAgrees
  <2> QED
    BY <2>1, <2>2, CallProcFit
<1>3. CASE h[row].type # "object"
  <2> DEFINE temp == Refs!NewId(h)
             f == Refs!New(h, "object")
             wrapped == Refs!Keep(Refs!ObjectAdd(f, temp, step.input, row), row)
             b == Plus(c, temp)
  <2>1. PICK W \in DOMAIN Schema \ {"request", "response"} :
          /\ Refs!HasPart(W, step.input, Refs!Type(ty[row]))
          /\ Refs!Parts(W)[step.input] = ty[row] /\ Refs!CallProcAgrees(W, step)
    BY <1>1, <1>3 DEF Refs!CallProcRowAgrees
  <2>2. PICK u1 \in Refs!CallProc(wrapped, temp, step) :
          g = Refs!Result(Refs!Put(u1.heap, temp), u1.ok)
    BY <1>3 DEF Refs!CallProcRow, Refs!Is
  <2> DEFINE tz == [x \in Nat |-> IF x = temp THEN W ELSE ty[x]]
  <2>3. f = Refs!New(h, Refs!Type(W)) /\ Refs!Type(W) = "object"
        /\ step.input \in DOMAIN Refs!Parts(W)
    BY <2>1 DEF Refs!HasPart
  <2> HIDE DEF f
  <2>4. /\ Fit(f, b, F, tz) /\ temp \in Nat \ {Refs!NULL} /\ c[temp] = 0
        /\ temp \notin Firm(c, F)
    BY <2>3, NewFit
  <2>5. c \in [Nat -> Nat] /\ c \in [Nat -> Int] /\ Closed(c, F)
    BY DEF Fit
  <2>6. /\ Firm(c, F) \subseteq Nat /\ Firm(c, F) \subseteq Firm(b, F) /\ temp \in Firm(b, F)
        /\ b[temp] >= 1
    <3>1. b[temp] >= 1 /\ \A x \in Nat : c[x] >= 1 => b[x] >= 1
      BY <2>4, <2>5 DEF Plus
    <3> QED
      BY <2>4, <3>1 DEF Firm
  <2>7. tz[temp] = W /\ Same(tz, ty, c, F)
    BY <2>4, <2>6 DEF Same
  <2>8. \A e \in F : e[1] # temp
    BY <2>4, FirmFacts
  <2>9. Minus(b, temp) = c
    BY <2>4, <2>5, OwnerFacts
  <2> HIDE DEF tz, b, temp
  <2>10. CanAdd(b, F, tz, temp, step.input, row)
    <3>1. tz[row] = ty[row] /\ row \in Firm(b, F)
      BY <2>6, <2>7 DEF Same
    <3> QED
      BY <2>1, <2>3, <2>6, <2>7, <2>8, <3>1 DEF CanAdd
  <2>11. Fit(wrapped, b, F, tz)
    BY <2>4, <2>10, ShareFit
  <2> HIDE DEF wrapped
  <2>12. Leads(u1.heap, b, F, tz)
    <3>1. Refs!CallProcAgrees(tz[temp], step)
      BY <2>1, <2>7
    <3> QED
      BY <2>2, <2>6, <2>8, <2>11, <3>1, CallProcFit
  <2>13. PICK tw : Follows(u1.heap, b, F, tz, tw)
    BY <2>12 DEF Leads
  <2>14. Fit(u1.heap, b, F, tw) /\ Same(tw, tz, b, F)
    BY <2>13 DEF Follows
  <2>15. Fit(Refs!Put(u1.heap, temp), c, F, tw)
    <3>1. temp \in Nat /\ Closed(Minus(b, temp), F)
      BY <2>4, <2>5, <2>9
    <3> QED
      BY <2>6, <2>9, <2>14, <3>1, PutFit
  <2>16. Same(tw, ty, c, F)
    BY <2>6, <2>7, <2>14 DEF Same
  <2>17. g.heap = Refs!Put(u1.heap, temp)
    BY <2>2 DEF Refs!Result
  <2>18. Follows(g.heap, c, F, ty, tw)
    BY <2>15, <2>16, <2>17 DEF Follows
  <2> QED
    BY <2>18 DEF Leads
<1> QED
  BY <1>2, <1>3

(* A row that gets the shared member keeps the heap as it should be.       *)
LEMMA CopyRowFit ==
  ASSUME NEW h, NEW c, NEW F, NEW ty, Fit(h, c, F, ty), NEW row \in Firm(c, F),
         NEW step, NEW value,
         Refs!Type(ty[row]) = "object" => CanAdd(c, F, ty, row, step.newkey, value),
         NEW g \in Refs!CopyRow(h, row, step, value)
  PROVE  Leads(g.heap, c, F, ty)
<1>1. h[row].type = Refs!Type(ty[row]) /\ row \in Refs!Objects(h)
  BY FirmKind
<1>2. CASE Refs!Type(ty[row]) = "object"
  <2>1. g.heap = Refs!Keep(Refs!ObjectAdd(h, row, step.newkey, value), value)
    BY <1>1, <1>2 DEF Refs!CopyRow, Refs!Is, Refs!Passed, Refs!Result
  <2>2. Fit(g.heap, c, F, ty)
    BY <1>2, <2>1, ShareFit
  <2> QED
    BY <2>2, LeadsHere
<1>3. CASE Refs!Type(ty[row]) # "object"
  <2>1. g.heap = h
    BY <1>1, <1>3 DEF Refs!CopyRow, Refs!Is, Refs!Failed, Refs!Result
  <2> QED
    BY <2>1, LeadsHere
<1> QED
  BY <1>2, <1>3

(* What each call on a row needs, whatever the earlier ones did.           *)
RowReady(c, F, ty, row, step, value) ==
  /\ row \in Firm(c, F)
  /\ IF step.module = "batch_copy"
     THEN Refs!Type(ty[row]) = "object" => CanAdd(c, F, ty, row, step.newkey, value)
     ELSE /\ step.module \in Refs!Batches /\ Refs!RowAgrees(ty[row], step)
          /\ Ready(c, F, ty, row)

(* Every call on one row keeps the heap as it should be.                   *)
LEMMA EachRowFit ==
  ASSUME NEW h, NEW c, NEW F, NEW ty, Fit(h, c, F, ty), NEW row, NEW step, NEW value,
         RowReady(c, F, ty, row, step, value), NEW g \in Refs!EachRow(h, row, step, value)
  PROVE  Leads(g.heap, c, F, ty)
<1>1. row \in Firm(c, F)
  BY DEF RowReady
<1>2. CASE step.module = "batch_copy"
  <2>1. g \in Refs!CopyRow(h, row, step, value)
    BY <1>2 DEF Refs!EachRow
  <2> QED
    BY <1>1, <1>2, <2>1, CopyRowFit DEF RowReady
<1>3. ASSUME step.module # "batch_copy"
      PROVE  /\ Refs!RowAgrees(ty[row], step) /\ Ready(c, F, ty, row)
             /\ \A e \in F : e[1] # row
             /\ step.module \in Refs!Batches
  BY <1>3 DEF RowReady, Ready
<1>4. CASE g \in Refs!Passed(h)
  BY <1>4, LeadsHere DEF Refs!Passed, Refs!Result
<1>5. CASE step.module = "batch_select_one" /\ g \notin Refs!Passed(h)
  <2>1. g \in Refs!SelectOne(h, row, step)
    BY <1>5 DEF Refs!EachRow
  <2>2. Refs!SelectOneAgrees(ty[row], step)
    BY <1>3, <1>5 DEF Refs!RowAgrees
  <2> QED
    BY <1>3, <1>5, <2>1, <2>2, SelectOneFit
<1>6. CASE step.module = "batch_select_list" /\ g \notin Refs!Passed(h)
  <2>1. g \in Refs!SelectList(h, row, step)
    BY <1>6 DEF Refs!EachRow
  <2>2. CanList(Refs!TargetKind(ty[row], step), step.key, "rows")
    BY <1>3, <1>6 DEF Refs!RowAgrees, Refs!HasRows, CanList
  <2> QED
    BY <1>3, <1>6, <2>1, <2>2, SelectListFit
<1>7. CASE step.module = "batch_select_column_list" /\ g \notin Refs!Passed(h)
  <2>1. g \in Refs!SelectColumnList(h, row, step)
    BY <1>7 DEF Refs!EachRow
  <2>2. CanList(Refs!TargetKind(ty[row], step), step.key, "column")
    BY <1>3, <1>7 DEF Refs!RowAgrees, Refs!HasColumn, CanList
  <2> QED
    BY <1>3, <1>7, <2>1, <2>2, SelectListFit
<1>8. CASE step.module = "batch_insert" /\ g \notin Refs!Passed(h)
  <2>1. g \in Refs!FetchRow(h, row)
    BY <1>8 DEF Refs!EachRow, Refs!Insert
  <2>2. Refs!IsRow(ty[row])
    BY <1>3, <1>8 DEF Refs!RowAgrees
  <2> QED
    BY <1>1, <1>3, <1>8, <2>1, <2>2, FetchRowFit
<1>9. CASE step.module = "batch_callproc" /\ g \notin Refs!Passed(h)
  <2>1. g \in Refs!CallProcRow(h, row, step)
    BY <1>9 DEF Refs!EachRow
  <2>2. Refs!CallProcRowAgrees(ty[row], step)
    BY <1>3, <1>9 DEF Refs!RowAgrees
  <2> QED
    BY <1>1, <1>3, <1>9, <2>1, <2>2, CallProcRowFit
<1> QED
  BY <1>2, <1>3, <1>4, <1>5, <1>6, <1>7, <1>8, <1>9 DEF Refs!Batches

(* The outcomes after each row of an array.                                *)
BatchRounds(after, h, members, step, value) ==
  /\ after[0] = Refs!Passed(h)
  /\ \A i \in 1..Len(members) :
       after[i] = UNION {IF g.ok THEN Refs!EachRow(g.heap, members[i], step, value) ELSE {g} :
                           g \in after[i - 1]}
(* A batch goes through such rounds.                                       *)
LEMMA BatchedRounds ==
  ASSUME NEW h, NEW array, NEW step, NEW value, Refs!Is(h, array, "array"),
         Len(h[array].kids) \in Nat
  PROVE  \E after : /\ BatchRounds(after, h, h[array].kids, step, value)
                    /\ Refs!Batch(h, array, step, value) = after[Len(h[array].kids)]
<1> DEFINE members == h[array].kids
           N == Len(members)
           Round(f, i) ==
             UNION {IF g.ok THEN Refs!EachRow(g.heap, members[i], step, value) ELSE {g} :
                      g \in f[i - 1]}
           Turn(f, i) == IF i = 0 THEN Refs!Passed(h) ELSE Round(f, i)
           P == {k \in Nat : \E f : f = [i \in 0..k |-> Turn(f, i)]}
<1>0. N \in Nat
  OBVIOUS
<1>1. 0 \in P
  <2> DEFINE f == [i \in 0..0 |-> Refs!Passed(h)]
  <2> HIDE DEF Round, N
  <2>1. f = [i \in 0..0 |-> Turn(f, i)]
    OBVIOUS
  <2> QED
    BY <2>1
<1>2. ASSUME NEW k \in Nat, k \in P PROVE k + 1 \in P
  <2>1. PICK r : r = [i \in 0..k |-> Turn(r, i)]
    BY <1>2
  <2> DEFINE f == [i \in 0..k + 1 |-> IF i = k + 1 THEN Turn(r, i) ELSE r[i]]
  <2>2. /\ f = [i \in 0..k + 1 |-> f[i]]
        /\ \A i \in 0..k + 1 : f[i] = IF i = k + 1 THEN Turn(r, i) ELSE r[i]
    OBVIOUS
  <2> HIDE DEF f
  <2>3. ASSUME NEW i \in 0..k + 1 PROVE f[i] = Turn(f, i)
    <3>1. i # 0 => f[i - 1] = r[i - 1]
      BY <2>2
    <3>2. i # 0 => Round(f, i) = Round(r, i)
      BY <3>1
    <3> HIDE DEF Round
    <3>3. Turn(f, i) = Turn(r, i)
      BY <3>2
    <3> HIDE DEF Turn
    <3>4. i # k + 1 => r[i] = Turn(r, i)
      BY <2>1
    <3> QED
      BY <2>2, <3>3, <3>4
  <2> HIDE DEF Turn
  <2>4. f = [i \in 0..k + 1 |-> Turn(f, i)]
    BY <2>2, <2>3
  <2>5. k + 1 \in Nat
    OBVIOUS
  <2> QED
    BY <2>4, <2>5, Zenon
<1> HIDE DEF P
<1>3. N \in P
  BY <1>0, <1>1, <1>2, SetInduction
<1>4. \E f : f = [i \in 0..N |-> Turn(f, i)]
  BY <1>3 DEF P
<1> DEFINE G == CHOOSE f : f = [i \in 0..N |-> Turn(f, i)]
<1>5. G = [i \in 0..N |-> Turn(G, i)]
  BY <1>4, Zenon
<1>6. Refs!Batch(h, array, step, value) = G[N]
  BY DEF Refs!Batch
<1> HIDE DEF G
<1>7. \A i \in 0..N : G[i] = Turn(G, i)
  BY <1>5
<1>8. 0 \in 0..N /\ \A i \in 1..N : i \in 0..N /\ i # 0
  BY <1>0
<1>9. G[0] = Refs!Passed(h) /\ \A i \in 1..N : G[i] = Round(G, i)
  BY <1>7, <1>8, Zenon
<1>10. BatchRounds(G, h, members, step, value)
  BY <1>9 DEF BatchRounds
<1> QED
  BY <1>6, <1>10

(* A batch leads on when each of its calls does.                           *)
LEMMA BatchFit ==
  ASSUME NEW h, NEW c, NEW F, NEW ty, Fit(h, c, F, ty), NEW array, NEW step, NEW value,
         Refs!Is(h, array, "array") =>
           /\ Len(h[array].kids) \in Nat /\ DOMAIN h[array].kids = 1..Len(h[array].kids)
           /\ \A i \in DOMAIN h[array].kids :
                RowReady(c, F, ty, h[array].kids[i], step, value),
         NEW g \in Refs!Batch(h, array, step, value)
  PROVE  Leads(g.heap, c, F, ty)
<1>1. CASE ~Refs!Is(h, array, "array")
  <2>1. g.heap = h
    BY <1>1 DEF Refs!Batch, Refs!Failed, Refs!Result
  <2> QED
    BY <2>1, LeadsHere
<1>2. CASE Refs!Is(h, array, "array")
  <2> DEFINE members == h[array].kids
             N == Len(members)
  <2>1. /\ N \in Nat /\ DOMAIN members = 1..N
        /\ \A i \in 1..N : RowReady(c, F, ty, members[i], step, value)
    BY <1>2
  <2>2. PICK after : /\ BatchRounds(after, h, members, step, value)
                     /\ Refs!Batch(h, array, step, value) = after[N]
    BY <1>2, <2>1, BatchedRounds
  <2> HIDE DEF members, N
  <2>3. /\ after[0] = Refs!Passed(h)
        /\ \A i \in 1..N :
             after[i] = UNION {IF r.ok THEN Refs!EachRow(r.heap, members[i], step, value)
                               ELSE {r} : r \in after[i - 1]}
    BY <2>2 DEF BatchRounds, N
  <2> DEFINE T == {i \in Nat : i <= N => \A r \in after[i] : Leads(r.heap, c, F, ty)}
  <2>4. 0 \in T
    BY <2>3, LeadsHere DEF Refs!Passed, Refs!Result
  <2>5. ASSUME NEW i \in Nat, i \in T PROVE i + 1 \in T
    <3> SUFFICES ASSUME i + 1 <= N, NEW r \in after[i + 1] PROVE Leads(r.heap, c, F, ty)
      OBVIOUS
    <3>1. i + 1 \in 1..N /\ (i + 1) - 1 = i /\ i <= N
      BY <2>1
    <3>2. after[i + 1] = UNION {IF w.ok THEN Refs!EachRow(w.heap, members[i + 1], step, value)
                                ELSE {w} : w \in after[i]}
      BY <2>3, <3>1
    <3>3. PICK w \in after[i] :
            r \in IF w.ok THEN Refs!EachRow(w.heap, members[i + 1], step, value) ELSE {w}
      BY <3>2
    <3>4. Leads(w.heap, c, F, ty)
      BY <2>5, <3>1
    <3>5. CASE ~w.ok
      BY <3>3, <3>4, <3>5
    <3>6. CASE w.ok
      <4>1. PICK tz : Follows(w.heap, c, F, ty, tz)
        BY <3>4 DEF Leads
      <4>2. Fit(w.heap, c, F, tz) /\ Same(tz, ty, c, F)
        BY <4>1 DEF Follows
      <4>3. RowReady(c, F, tz, members[i + 1], step, value)
        <5>1. RowReady(c, F, ty, members[i + 1], step, value)
          BY <2>1, <3>1
        <5>2. \A e \in F : e[1] \in Firm(c, F)
          BY FirmFacts
        <5> QED
          BY <4>2, <5>1, <5>2 DEF RowReady, CanAdd, Ready, Rooted, Same
      <4>4. r \in Refs!EachRow(w.heap, members[i + 1], step, value)
        BY <3>3, <3>6
      <4>5. Leads(r.heap, c, F, tz)
        BY <4>2, <4>3, <4>4, EachRowFit
      <4> QED
        BY <4>1, <4>5, LeadsOn
    <3> QED
      BY <3>5, <3>6
  <2> HIDE DEF T
  <2>6. Nat \subseteq T
    BY <2>4, <2>5, SetInduction
  <2>7. g \in after[N] /\ N <= N /\ N \in T
    BY <2>1, <2>2, <2>6
  <2> QED
    BY <2>7 DEF T
<1> QED
  BY <1>1, <1>2

(* Nothing is of the kind of its parts, nor has the roots for parts.       *)
LEMMA PartDeeper ==
  ASSUME NEW K \in DOMAIN Schema, NEW key \in DOMAIN Refs!Parts(K)
  PROVE  /\ Refs!Parts(K)[key] # K
         /\ Refs!Parts(K)[key] \in DOMAIN Schema \ {"request", "response"}
<1>1. /\ Schema[K].depth \in Nat /\ Schema[Refs!Parts(K)[key]].depth > Schema[K].depth
      /\ Refs!Parts(K)[key] \in DOMAIN Schema \ {"request", "response"}
  BY ObjectsAssumption DEF Refs!KindsInOrder
<1> QED
  BY <1>1

(* The rows of a member that is an array can be made to stay.              *)
RowPins(r, key, a, members) ==
  {<<r, key, a>>} \cup {<<a, i, members[i]>> : i \in DOMAIN members}
ArrayReady(h, c, F, ty, r, key, a) ==
  /\ Fit(h, c, F \cup RowPins(r, key, a, h[a].kids), ty)
  /\ Len(h[a].kids) \in Nat /\ DOMAIN h[a].kids = 1..Len(h[a].kids)
  /\ ty[a] = Refs!Parts(ty[r])[key] /\ Refs!Type(ty[a]) = "array" /\ ty[a] \in DOMAIN Schema
  /\ \A i \in DOMAIN h[a].kids :
       /\ h[a].kids[i] \in Firm(c, F \cup RowPins(r, key, a, h[a].kids))
       /\ ty[h[a].kids[i]] = Refs!Each(ty[a])
(* The array, then, stays in its place, and its rows in theirs.            *)
LEMMA ArrayFit ==
  ASSUME NEW h, NEW c, NEW F, NEW ty, Fit(h, c, F, ty), NEW r \in Firm(c, F), NEW key,
         NEW a, a = Refs!Member(h, r, key), Refs!Is(h, a, "array")
  PROVE  ArrayReady(h, c, F, ty, r, key, a)
<1> DEFINE members == h[a].kids
           A == F \cup {<<r, key, a>>}
           G == F \cup RowPins(r, key, a, members)
<1>1. /\ Shape(h) /\ KindsFit(h, ty) /\ Stays(h, F) /\ Closed(c, F) /\ c \in [Nat -> Nat]
      /\ Good(h, c, ty)
  BY DEF Fit, Good
<1>2. a \in Refs!Objects(h) /\ h[a].type = "array" /\ a # Refs!NULL
  BY DEF Refs!Is, Refs!Objects
<1>3. /\ Fit(h, c, A, ty) /\ a \in Firm(c, A) /\ ty[a] = Refs!Parts(ty[r])[key]
  BY <1>2, MemberFit
<1>4. members \in Seq(Nat \ {Refs!NULL}) /\ ty[a] \in DOMAIN Schema /\ Refs!Type(ty[a]) = "array"
      /\ \A i \in DOMAIN members : ty[members[i]] = Refs!Each(ty[a])
  BY <1>1, <1>2 DEF KindsFit
<1>5. Len(members) \in Nat /\ DOMAIN members = 1..Len(members)
      /\ \A i \in DOMAIN members : members[i] \in Nat \ {Refs!NULL}
  BY <1>4
<1>6. \A i \in DOMAIN members : members[i] \in Refs!Objects(h)
  BY <1>1, <1>2, <1>5 DEF Shape, Refs!Objects
<1> DEFINE R == {<<a, i, members[i]>> : i \in DOMAIN members}
<1>7. G = A \cup R
  BY DEF RowPins
<1>8. \A e \in R : \E i \in DOMAIN members : e[1] = a /\ e[2] = i /\ e[3] = members[i]
  OBVIOUS
<1> HIDE DEF A, R, G
<1>9. Stays(h, G)
  <2>1. Stays(h, A)
    BY <1>3 DEF Fit
  <2>2. Stays(h, R)
    BY <1>2, <1>6, <1>8 DEF Stays
  <2> QED
    BY <1>7, <2>1, <2>2 DEF Stays
<1>10. Closed(c, G)
  <2>1. Closed(c, A)
    BY <1>3 DEF Fit
  <2>2. \A e \in R : c[e[1]] >= 1 \/ \E d \in A : d[3] = e[1]
    BY <1>3, <1>8 DEF Firm
  <2> QED
    BY <1>7, <2>1, <2>2 DEF Closed
<1>11. Fit(h, c, G, ty)
  BY <1>1, <1>9, <1>10 DEF Fit
<1>12. ASSUME NEW i \in DOMAIN members PROVE members[i] \in Firm(c, G)
  <2>1. <<a, i, members[i]>> \in G
    BY <1>7 DEF R
  <2>2. <<a, i, members[i]>>[3] = members[i] /\ members[i] \in Nat
    BY <1>5
  <2> HIDE DEF members
  <2> QED
    BY <2>1, <2>2, Zenon DEF Firm
<1> QED
  BY <1>3, <1>4, <1>5, <1>11, <1>12 DEF G, ArrayReady

(* A batch over a member of the request.                                   *)
LEMMA BatchStepFit ==
  ASSUME NEW c, NEW ty, Fit(heap, c, {}, ty), Rooted(c, {}, ty), NEW step,
         step.module \in Refs!Batches, Refs!Agrees(step),
         NEW g \in Refs!Batch(heap, Refs!Input(step), step, Refs!NULL)
  PROVE  Leads(g.heap, c, {}, ty)
<1> DEFINE a == Refs!Input(step)
           G == {} \cup RowPins(request, step.input, a, heap[a].kids)
<1>1. /\ step.input = "" \/ step.input \in DOMAIN Refs!Parts("request")
      /\ Refs!Type(Refs!KindOf(step.input)) = "array" =>
           Refs!RowAgrees(Refs!Each(Refs!KindOf(step.input)), step)
  BY DEF Refs!Agrees, Refs!Batches
<1>2. CASE ~Refs!Is(heap, a, "array")
  <2> HIDE DEF a
  <2> QED
    BY <1>2, BatchFit DEF a
<1>3. CASE Refs!Is(heap, a, "array")
  <2>1. request \in Firm(c, {}) /\ ty[request] = "request"
    BY DEF Rooted
  <2>2. step.input # "" /\ a = Refs!Member(heap, request, step.input)
    <3>1. heap[request].type = "object"
      BY <2>1, FirmKind, RootFacts
    <3> QED
      BY <1>3, <3>1 DEF Refs!Input, Refs!Is
  <2> HIDE DEF a
  <2>3. ArrayReady(heap, c, {}, ty, request, step.input, a)
    BY <1>3, <2>1, <2>2, ArrayFit
  <2> HIDE DEF G
  <2>4. /\ Fit(heap, c, G, ty)
        /\ Len(heap[a].kids) \in Nat /\ DOMAIN heap[a].kids = 1..Len(heap[a].kids)
        /\ ty[a] = Refs!KindOf(step.input) /\ Refs!Type(ty[a]) = "array"
        /\ ty[a] \in DOMAIN Schema
        /\ \A i \in DOMAIN heap[a].kids : /\ heap[a].kids[i] \in Firm(c, G)
                                          /\ ty[heap[a].kids[i]] = Refs!Each(ty[a])
    BY <2>1, <2>2, <2>3 DEF ArrayReady, Refs!KindOf, G
  <2>5. Refs!RowAgrees(Refs!Each(ty[a]), step)
    BY <1>1, <2>4
  <2>6. /\ Refs!Each(ty[a]) # ty[a]
        /\ Refs!Each(ty[a]) \notin {"request", "response"}
    <3>1. "each" \in DOMAIN Refs!Parts(ty[a])
      BY <2>4, ObjectsAssumption DEF Refs!KindsInOrder
    <3> QED
      BY <2>4, <3>1, PartDeeper DEF Refs!Each
  <2>7. \A e \in G : e[1] = request \/ e[1] = a
    BY DEF G, RowPins
  <2>8. Rooted(c, G, ty)
    BY DEF Rooted, Firm
  <2>9. ASSUME NEW i \in DOMAIN heap[a].kids
        PROVE  RowReady(c, G, ty, heap[a].kids[i], step, Refs!NULL)
    <3> DEFINE row == heap[a].kids[i]
    <3>1. row \in Firm(c, G) /\ ty[row] = Refs!Each(ty[a])
      BY <2>4
    <3> HIDE DEF row
    <3>2. row # request /\ row # a
      BY <2>1, <2>6, <3>1
    <3>3. Ready(c, G, ty, row)
      BY <2>4, <2>7, <2>8, <3>1, <3>2 DEF Ready
    <3>4. step.module # "batch_copy"
      BY DEF Refs!Batches
    <3>5. RowReady(c, G, ty, row, step, Refs!NULL)
      BY <2>5, <3>1, <3>3, <3>4 DEF RowReady
    <3> QED
      BY <3>5 DEF row
  <2>10. Leads(g.heap, c, G, ty)
    BY <2>4, <2>9, BatchFit DEF a
  <2>11. Closed(c, {})
    BY DEF Closed
  <2> QED
    BY <2>10, <2>11, LeadsFewer
<1> QED
  BY <1>2, <1>3

(* What a path leads to can be made to stay.                               *)
PathPins(h, path) ==
  IF Len(path) = 1 THEN {}
  ELSE {<<Refs!Root(request, path), path[2], Refs!At(h, request, path)>>}
OnPath(h, c, F, ty, path, v) ==
  /\ Fit(h, c, F \cup PathPins(h, path), ty) /\ v \in Firm(c, F \cup PathPins(h, path))
  /\ ty[v] = Refs!KindAt(path)
  /\ \A e \in PathPins(h, path) :
       /\ e[1] \in {request, response} /\ e[1] = Refs!Root(request, path)
       /\ e[2] = path[2] /\ Len(path) = 2
(* It is of the kind that the path says.                                   *)
LEMMA PathFit ==
  ASSUME NEW h, NEW c, NEW F, NEW ty, Fit(h, c, F, ty), Rooted(c, F, ty), NEW path,
         Refs!PathAgrees(path), NEW v, v = Refs!At(h, request, path), v # Refs!NULL
  PROVE  OnPath(h, c, F, ty, path, v)
<1> DEFINE r == Refs!Root(request, path)
<1>1. path[1] \in {"request", "response"} /\ Len(path) \in 1..2
  BY DEF Refs!PathAgrees
<1>2. r \in {request, response} /\ r \in Firm(c, F) /\ ty[r] = path[1]
  BY <1>1, RootFacts DEF Refs!Root, Rooted
<1> HIDE DEF r
<1>3. CASE Len(path) = 1
  <2>1. v = r /\ PathPins(h, path) = {}
    BY <1>3 DEF PathPins, Refs!At, r
  <2>2. F \cup PathPins(h, path) = F
    BY <2>1
  <2> QED
    BY <1>2, <1>3, <2>1, <2>2 DEF Refs!KindAt, OnPath
<1>4. CASE Len(path) = 2
  <2>1. v = Refs!Member(h, r, path[2]) /\ PathPins(h, path) = {<<r, path[2], v>>}
    BY <1>4 DEF PathPins, Refs!At, r
  <2>2. /\ Fit(h, c, F \cup {<<r, path[2], v>>}, ty)
        /\ v \in Firm(c, F \cup {<<r, path[2], v>>})
        /\ ty[v] = Refs!Parts(ty[r])[path[2]]
    BY <1>2, <2>1, MemberFit
  <2>3. ty[v] = Refs!KindAt(path)
    BY <1>2, <1>4, <2>2 DEF Refs!KindAt
  <2>4. \A e \in {<<r, path[2], v>>} : e[1] = r /\ e[2] = path[2]
    OBVIOUS
  <2> QED
    BY <1>2, <1>4, <2>1, <2>2, <2>3, <2>4 DEF r, OnPath
<1> QED
  BY <1>1, <1>3, <1>4

(* A target that is missing is made; nothing that stays is replaced.       *)
LEMMA CopyAddFit ==
  ASSUME NEW h, NEW c, NEW F, NEW ty, Fit(h, c, F, ty), Rooted(c, F, ty), NEW path,
         Refs!PathAgrees(path), Refs!Type(Refs!KindAt(path)) = "object",
         Refs!At(h, request, path) = Refs!NULL =>
           \A e \in F : ~(e[1] = Refs!Root(request, path) /\ e[2] = path[2])
  PROVE  Leads(Refs!CopyAdd(h, request, path), c, F, ty)
<1> DEFINE r == Refs!Root(request, path)
           K == Refs!Parts(path[1])[path[2]]
           g == Refs!CopyAdd(h, request, path)
<1>1. CASE Len(path) = 1 \/ Refs!At(h, request, path) # Refs!NULL
  <2>1. g = h
    BY <1>1 DEF Refs!CopyAdd
  <2> QED
    BY <2>1, LeadsHere
<1>2. CASE Len(path) # 1 /\ Refs!At(h, request, path) = Refs!NULL
  <2>1. path[1] \in {"request", "response"} /\ Len(path) = 2
        /\ path[2] \in DOMAIN Refs!Parts(path[1])
    BY <1>2 DEF Refs!PathAgrees
  <2>2. r \in Firm(c, F) /\ ty[r] = path[1]
    BY <2>1, RootFacts DEF Refs!Root, Rooted
  <2>3. K = Refs!KindAt(path) /\ Refs!Type(K) = "object"
    BY <1>2 DEF Refs!KindAt
  <2>4. g = Refs!ObjectAdd(Refs!New(h, Refs!Type(K)), r, path[2], Refs!NewId(h))
    BY <1>2, <2>3 DEF Refs!CopyAdd
  <2>5. CanMake(c, F, ty, r, path[2], K)
    BY <1>2, <2>1, <2>2, RootFacts DEF CanMake
  <2> HIDE DEF K, r, g
  <2>6. PICK tz : Made(g, c, F, ty, r, path[2], Refs!NewId(h), K, tz)
    BY <2>4, <2>5, MakeMember
  <2> QED
    BY <2>6 DEF Made, Leads, g
<1> QED
  BY <1>1, <1>2

(* copy keeps the heap as it should be: the owner comes before the add.    *)
LEMMA CopyFit ==
  ASSUME NEW h, NEW c, NEW ty, Fit(h, c, {}, ty), Rooted(c, {}, ty), NEW step,
         Refs!CopyAgrees(step), NEW g \in Refs!Copy(h, request, step)
  PROVE  Leads(g.heap, c, {}, ty)
<1> DEFINE f == Refs!CopyAdd(h, request, step.to)
           from == Refs!At(h, request, step.from)
           member == Refs!Member(f, from, step.key)
           to == Refs!At(f, request, step.to)
           B == PathPins(h, step.from)
           A == PathPins(f, step.to)
<1>1. /\ Refs!PathAgrees(step.from) /\ Refs!PathAgrees(step.to)
      /\ Refs!Type(Refs!KindAt(step.to)) = "object"
      /\ Refs!ShareAgrees(Refs!KindAt(step.from), Refs!KindAt(step.to), step)
  BY DEF Refs!CopyAgrees
<1>2. /\ from = Refs!NULL \/ ~Refs!Is(f, to, "object") => g.heap = f
      /\ ~(from = Refs!NULL \/ ~Refs!Is(f, to, "object")) =>
           g.heap = Refs!ObjectAdd(Refs!Get(f, member), to, step.newkey, member)
  BY DEF Refs!Copy, Refs!Failed, Refs!Passed, Refs!Result
<1>3. Closed(c, {}) /\ c \in [Nat -> Nat] /\ c \in [Nat -> Int]
  BY DEF Closed, Fit
<1>4. CASE from = Refs!NULL
  <2>1. Leads(f, c, {}, ty)
    BY <1>1, CopyAddFit
  <2> QED
    BY <1>2, <1>4, <2>1
<1>5. CASE from # Refs!NULL
  <2> HIDE DEF from, f, member, to
  <2>1. /\ Fit(h, c, {} \cup B, ty) /\ from \in Firm(c, {} \cup B)
        /\ ty[from] = Refs!KindAt(step.from)
        /\ \A e \in B : e[2] = step.from[2] /\ Len(step.from) = 2
                        /\ e[1] = Refs!Root(request, step.from)
    <3>1. OnPath(h, c, {}, ty, step.from, from)
      BY <1>1, <1>5, PathFit DEF from
    <3> QED
      BY <3>1 DEF OnPath
  <2>2. {} \cup B = B
    OBVIOUS
  <2> HIDE DEF B
  <2>3. Fit(h, c, B, ty) /\ from \in Firm(c, B)
    BY <2>1, <2>2
  <2>4. Rooted(c, B, ty)
    BY DEF Rooted, Firm
  <2>5. Refs!At(h, request, step.to) = Refs!NULL =>
          \A e \in B : ~(e[1] = Refs!Root(request, step.to) /\ e[2] = step.to[2])
    <3> SUFFICES ASSUME Refs!At(h, request, step.to) = Refs!NULL, NEW e \in B,
                        e[1] = Refs!Root(request, step.to), e[2] = step.to[2]
                 PROVE  FALSE
      OBVIOUS
    <3>1. from = Refs!Member(h, e[1], e[2])
      BY <2>1 DEF from, Refs!At
    <3>2. Len(step.to) = 2
      <4>1. Len(step.to) # 1
        <5> SUFFICES ASSUME Len(step.to) = 1 PROVE FALSE
          OBVIOUS
        <5>1. Refs!At(h, request, step.to) \in {request, response}
          BY DEF Refs!At, Refs!Root
        <5>2. request # Refs!NULL /\ response # Refs!NULL
          BY <2>3, <2>4, FirmFacts DEF Rooted
        <5> QED
          BY <5>1, <5>2
      <4> QED
        BY <1>1, <4>1 DEF Refs!PathAgrees
    <3>3. Refs!At(h, request, step.to) = Refs!Member(h, e[1], e[2])
      BY <3>2 DEF Refs!At
    <3> QED
      BY <1>5, <3>1, <3>3
  <2>6. Leads(f, c, B, ty)
    BY <1>1, <2>3, <2>4, <2>5, CopyAddFit DEF f
  <2>7. CASE ~Refs!Is(f, to, "object")
    <3>1. Leads(f, c, {}, ty)
      BY <1>3, <2>6, LeadsFewer
    <3> QED
      BY <1>2, <2>7, <3>1
  <2>8. CASE Refs!Is(f, to, "object")
    <3>1. PICK tz : Follows(f, c, B, ty, tz)
      BY <2>6 DEF Leads
    <3>2. Fit(f, c, B, tz) /\ Same(tz, ty, c, B)
      BY <3>1 DEF Follows
    <3>3. Rooted(c, B, tz) /\ Rooted(c, {}, tz)
      BY <2>4, <3>2 DEF Rooted, Same, Firm
    <3>4. Fit(f, c, {}, tz)
      BY <1>3, <3>2, FewerFit
    <3>5. to # Refs!NULL
      BY <2>8 DEF Refs!Is, Refs!Objects
    <3>6. /\ Fit(f, c, B \cup A, tz) /\ to \in Firm(c, B \cup A) /\ tz[to] = Refs!KindAt(step.to)
          /\ \A e \in A : e[1] \in {request, response}
      <4>1. OnPath(f, c, B, tz, step.to, to)
        BY <1>1, <3>2, <3>3, <3>5, PathFit DEF to
      <4> QED
        BY <4>1 DEF OnPath
    <3>7. Fit(f, c, {} \cup A, tz) /\ to \in Firm(c, {} \cup A)
      <4>1. OnPath(f, c, {}, tz, step.to, to)
        BY <1>1, <3>3, <3>4, <3>5, PathFit DEF to
      <4> QED
        BY <4>1 DEF OnPath
    <3>8. {} \cup A = A
      OBVIOUS
    <3> HIDE DEF A
    <3>9. Fit(f, c, A, tz) /\ to \in Firm(c, A)
      BY <3>7, <3>8
    <3>10. tz[from] = Refs!KindAt(step.from) /\ from \in Firm(c, B \cup A)
      BY <2>1, <2>3, <3>2 DEF Same, Firm
    <3> DEFINE G == IF member = Refs!NULL THEN B \cup A
                    ELSE (B \cup A) \cup {<<from, step.key, member>>}
    <3>11. /\ Fit(f, c, G, tz) /\ (member = Refs!NULL \/ member \in Firm(c, G))
           /\ member # Refs!NULL =>
                /\ Refs!Type(tz[from]) = "object" /\ step.key \in DOMAIN Refs!Parts(tz[from])
                /\ tz[member] = Refs!Parts(tz[from])[step.key]
      <4>1. CASE member = Refs!NULL
        BY <3>6, <4>1
      <4>2. CASE member # Refs!NULL
        <5> DEFINE H == B \cup A
        <5>1. Fit(f, c, H, tz) /\ from \in Firm(c, H) /\ member = Refs!Member(f, from, step.key)
          BY <3>6, <3>10 DEF member
        <5>2. G = H \cup {<<from, step.key, member>>}
          BY <4>2
        <5> HIDE DEF H, G, member
        <5> QED
          BY <4>2, <5>1, <5>2, MemberFit
      <4> QED
        BY <4>1, <4>2
    <3>12. A \in SUBSET G
      OBVIOUS
    <3> HIDE DEF G
    <3> DEFINE k == Refs!Get(f, member)
               b == Plus(c, member)
    <3>13. Fit(k, b, G, tz) /\ Firm(c, G) \subseteq Firm(b, G)
      BY <3>11, GetFit
    <3>14. member \in Nat /\ (member # Refs!NULL => b[member] >= 1)
           /\ \A x \in Nat : c[x] >= 1 => b[x] >= 1
      <4>1. member \in Nat
        BY <3>11 DEF Firm, Refs!NULL
      <4> QED
        BY <1>3, <4>1 DEF Plus
    <3>15. Minus(b, member) = c
      BY <1>3, <3>14, OwnerFacts
    <3> HIDE DEF k, b
    <3>16. Closed(b, A) /\ Firm(c, A) \subseteq Firm(b, A)
      <4>1. \A e \in A : e[1] \in Nat /\ c[e[1]] >= 1
        BY <3>3, <3>6 DEF Rooted, Firm
      <4> QED
        BY <3>14, <4>1 DEF Closed, Firm
    <3>17. Fit(k, b, A, tz)
      BY <3>12, <3>13, <3>16, FewerFit
    <3>18. CanAdd(b, A, tz, to, step.newkey, member)
      <4>1. to \in Firm(b, A) /\ Refs!Type(tz[to]) = "object"
        BY <1>1, <3>6, <3>9, <3>16
      <4>2. \A e \in A : ~(e[1] = to /\ e[2] = step.newkey)
        <5> SUFFICES ASSUME NEW e \in A, e[1] = to PROVE FALSE
          OBVIOUS
        <5>1. Len(step.to) = 2 /\ step.to[2] \in DOMAIN Refs!Parts(step.to[1])
              /\ step.to[1] \in {"request", "response"}
          <6>1. Len(step.to) # 1
            BY DEF A, PathPins
          <6> QED
            BY <1>1, <6>1 DEF Refs!PathAgrees
        <5>2. Refs!KindAt(step.to) \notin {"request", "response"}
          BY <5>1, RootFacts, PartDeeper DEF Refs!KindAt
        <5> QED
          BY <3>3, <3>6, <5>2 DEF Rooted
      <4>3. member # Refs!NULL =>
              /\ member \in Firm(b, A) /\ step.newkey \in DOMAIN Refs!Parts(tz[to])
              /\ tz[member] = Refs!Parts(tz[to])[step.newkey]
        BY <1>1, <3>6, <3>10, <3>11, <3>14 DEF Refs!ShareAgrees, Firm
      <4> QED
        BY <4>1, <4>2, <4>3 DEF CanAdd
    <3>19. g.heap = Refs!ObjectAdd(k, to, step.newkey, member)
      BY <1>2, <1>5, <2>8 DEF k
    <3>20. Added(g.heap, b, A, tz, to, step.newkey, member)
      BY <3>17, <3>18, <3>19, AddGood
    <3>21. Good(g.heap, c, tz)
      BY <3>15, <3>20 DEF Added
    <3>22. Fit(g.heap, c, {}, tz)
      BY <1>3, <3>21 DEF Fit, Stays
    <3>23. Same(tz, ty, c, {})
      BY <3>2 DEF Same, Firm
    <3> QED
      BY <3>22, <3>23 DEF Leads, Follows
  <2> QED
    BY <2>7, <2>8
<1> QED
  BY <1>4, <1>5

(* batch_copy does, although the owner comes after the add.                *)
LEMMA BatchCopyFit ==
  ASSUME NEW h, NEW c, NEW ty, Fit(h, c, {}, ty), Rooted(c, {}, ty), NEW step,
         step.module = "batch_copy", Refs!BatchCopyAgrees(step),
         NEW g \in Refs!BatchCopy(h, request, step)
  PROVE  Leads(g.heap, c, {}, ty)
<1> DEFINE from == Refs!At(h, request, step.from)
           member == Refs!Member(h, from, step.key)
           to == Refs!At(h, request, step.to)
           B == PathPins(h, step.from)
<1>1. /\ Refs!PathAgrees(step.from) /\ Refs!PathAgrees(step.to)
      /\ Refs!Type(Refs!KindAt(step.to)) = "array" =>
           LET K == Refs!Each(Refs!KindAt(step.to))
           IN  Refs!Type(K) = "object" =>
                 /\ Refs!ShareAgrees(Refs!KindAt(step.from), K, step)
                 /\ Refs!KindAt(step.from) # K \/ step.key # step.newkey
  BY DEF Refs!BatchCopyAgrees
<1>2. /\ from = Refs!NULL => g.heap = h
      /\ from # Refs!NULL => g \in Refs!Batch(h, to, step, member)
  BY DEF Refs!BatchCopy, Refs!Failed, Refs!Result
<1>3. Closed(c, {}) /\ c \in [Nat -> Nat]
  BY DEF Closed, Fit
<1> HIDE DEF from, member, to
<1>4. CASE from = Refs!NULL
  BY <1>2, <1>4, LeadsHere
<1>5. CASE from # Refs!NULL /\ ~Refs!Is(h, to, "array")
  BY <1>2, <1>5, BatchFit
<1>6. CASE from # Refs!NULL /\ Refs!Is(h, to, "array")
  <2>1. /\ Fit(h, c, {} \cup B, ty) /\ from \in Firm(c, {} \cup B)
        /\ ty[from] = Refs!KindAt(step.from)
        /\ \A e \in B : e[1] \in {request, response}
    <3>1. Refs!PathAgrees(step.from) /\ from # Refs!NULL
      BY <1>1, <1>6
    <3>2. OnPath(h, c, {}, ty, step.from, from)
      BY <3>1, PathFit DEF from
    <3> QED
      BY <3>2 DEF OnPath
  <2>2. {} \cup B = B
    OBVIOUS
  <2> HIDE DEF B
  <2>3. Fit(h, c, B, ty) /\ from \in Firm(c, B)
    BY <2>1, <2>2
  <2> DEFINE G == IF member = Refs!NULL THEN B ELSE B \cup {<<from, step.key, member>>}
  <2>4. /\ Fit(h, c, G, ty) /\ (member = Refs!NULL \/ member \in Firm(c, G))
        /\ member # Refs!NULL =>
             /\ Refs!Type(ty[from]) = "object" /\ step.key \in DOMAIN Refs!Parts(ty[from])
             /\ ty[member] = Refs!Parts(ty[from])[step.key]
    <3>1. CASE member = Refs!NULL
      BY <2>3, <3>1
    <3>2. CASE member # Refs!NULL
      BY <2>3, <3>2, MemberFit DEF member
    <3> QED
      BY <3>1, <3>2
  <2>5. \A e \in G : e[1] \in {request, response}
                     \/ (e[1] = from /\ e[2] = step.key /\ member # Refs!NULL)
    BY <2>1
  <2> HIDE DEF G
  <2>6. Rooted(c, G, ty)
    BY DEF Rooted, Firm
  <2> DEFINE r == Refs!Root(request, step.to)
             key == step.to[2]
  <2>7. r \in {request, response} /\ r \in Firm(c, G) /\ ty[r] = step.to[1]
        /\ step.to[1] \in {"request", "response"}
    BY <1>1, <2>6, RootFacts DEF Refs!Root, Rooted, Refs!PathAgrees
  <2>8. Len(step.to) = 2 /\ to = Refs!Member(h, r, key)
    <3>1. Len(step.to) # 1
      <4> SUFFICES ASSUME Len(step.to) = 1 PROVE FALSE
        OBVIOUS
      <4>1. to = r
        BY DEF to, Refs!At
      <4>2. h[r].type = "object"
        BY <2>4, <2>7, FirmKind, RootFacts
      <4> QED
        BY <1>6, <4>1, <4>2 DEF Refs!Is
    <3> QED
      BY <1>1, <3>1 DEF Refs!PathAgrees, to, Refs!At
  <2>9. Refs!KindAt(step.to) = Refs!Parts(ty[r])[key]
    BY <2>7, <2>8 DEF Refs!KindAt
  <2>10. key \in DOMAIN Refs!Parts(ty[r])
    BY <1>1, <2>7, <2>8 DEF Refs!PathAgrees
  <2> HIDE DEF r, key
  <2>11. ArrayReady(h, c, G, ty, r, key, to)
    BY <1>6, <2>4, <2>7, <2>8, ArrayFit
  <2> DEFINE P == RowPins(r, key, to, h[to].kids)
             A == G \cup P
             K == Refs!Each(ty[to])
  <2>12. \A e \in P : e[1] = r \/ e[1] = to
    BY DEF RowPins
  <2> HIDE DEF P
  <2>13. /\ Fit(h, c, A, ty)
         /\ Len(h[to].kids) \in Nat /\ DOMAIN h[to].kids = 1..Len(h[to].kids)
         /\ ty[to] = Refs!KindAt(step.to) /\ Refs!Type(ty[to]) = "array"
         /\ ty[to] \in DOMAIN Schema
         /\ \A i \in DOMAIN h[to].kids : h[to].kids[i] \in Firm(c, A) /\ ty[h[to].kids[i]] = K
    BY <2>9, <2>11 DEF ArrayReady, P
  <2>14. K # ty[to] /\ K \notin {"request", "response"}
    <3>1. "each" \in DOMAIN Refs!Parts(ty[to])
      BY <2>13, ObjectsAssumption DEF Refs!KindsInOrder
    <3> QED
      BY <2>13, <3>1, PartDeeper DEF Refs!Each
  <2>15. Refs!Type(K) = "object" =>
           /\ Refs!ShareAgrees(Refs!KindAt(step.from), K, step)
           /\ Refs!KindAt(step.from) # K \/ step.key # step.newkey
    BY <1>1, <2>13
  <2>16. Firm(c, G) \subseteq Firm(c, A)
    BY DEF Firm
  <2> HIDE DEF A, K
  <2>17. ASSUME NEW i \in DOMAIN h[to].kids
         PROVE  RowReady(c, A, ty, h[to].kids[i], step, member)
    <3> DEFINE row == h[to].kids[i]
    <3>1. row \in Firm(c, A) /\ ty[row] = K
      BY <2>13
    <3> HIDE DEF row
    <3>2. row # request /\ row # response /\ row # to
      BY <2>6, <2>14, <3>1 DEF Rooted
    <3>3. ASSUME Refs!Type(K) = "object" PROVE CanAdd(c, A, ty, row, step.newkey, member)
      <4>1. \A e \in A : ~(e[1] = row /\ e[2] = step.newkey)
        <5> SUFFICES ASSUME NEW e \in A, e[1] = row, e[2] = step.newkey PROVE FALSE
          OBVIOUS
        <5>1. e \notin P
          BY <2>7, <2>12, <3>2
        <5>2. e \in G
          BY <5>1 DEF A
        <5>3. e[1] = from /\ e[2] = step.key
          BY <2>5, <3>2, <5>2
        <5> QED
          BY <2>1, <2>15, <3>1, <3>3, <5>3
      <4>2. member # Refs!NULL =>
              /\ member \in Firm(c, A) /\ step.newkey \in DOMAIN Refs!Parts(ty[row])
              /\ ty[member] = Refs!Parts(ty[row])[step.newkey]
        BY <2>1, <2>4, <2>15, <2>16, <3>1, <3>3 DEF Refs!ShareAgrees
      <4> QED
        BY <3>1, <3>3, <4>1, <4>2 DEF CanAdd
    <3>4. RowReady(c, A, ty, row, step, member)
      BY <3>1, <3>3 DEF RowReady
    <3> QED
      BY <3>4 DEF row
  <2>18. Leads(g.heap, c, A, ty)
    BY <1>2, <1>6, <2>13, <2>17, BatchFit
  <2> QED
    BY <1>3, <2>18, LeadsFewer
<1> QED
  BY <1>4, <1>5, <1>6

(* select_page does, whether it finds the list or makes it.                *)
LEMMA SelectPageFit ==
  ASSUME NEW h, NEW c, NEW ty, Fit(h, c, {}, ty), Rooted(c, {}, ty), NEW step,
         Refs!HasRows("response", step.key), Refs!HasPart("response", "total", "string"),
         NEW g \in Refs!SelectPage(h, step)
  PROVE  Leads(g.heap, c, {}, ty)
<1> DEFINE found == Refs!Member(h, response, step.key)
           lines == IF found # Refs!NULL THEN found ELSE Refs!NewId(h)
           ready == IF found # Refs!NULL THEN h ELSE Refs!NewArray(h, response, step)
           G == {<<response, step.key, lines>>}
           K == Refs!Parts("response")[step.key]
           f == Refs!AddString(ready, response, "total")
<1>1. g.heap = ready \/ g \in Refs!FetchRows(f, lines)
  BY DEF Refs!SelectPage, Refs!Failed, Refs!Passed, Refs!Result
<1>2. /\ Refs!Type(K) = "array" /\ Refs!IsRow(Refs!Each(K))
      /\ step.key \in DOMAIN Refs!Parts("response")
  BY DEF Refs!HasRows, Refs!HasPart
<1>3. response \in Firm(c, {}) /\ ty[response] = "response" /\ Closed(c, {})
  BY DEF Rooted, Closed
<1>4. {} \cup G = G
  OBVIOUS
<1>5. \E tz : /\ Fit(ready, c, G, tz) /\ Follows(ready, c, {}, ty, tz)
              /\ lines \in Firm(c, G) /\ tz[lines] = K
  <2>1. CASE found # Refs!NULL
    <3>1. ready = h /\ lines = found
      BY <2>1
    <3>2. /\ Fit(h, c, {} \cup {<<response, step.key, found>>}, ty)
          /\ found \in Firm(c, {} \cup {<<response, step.key, found>>})
          /\ ty[found] = Refs!Parts(ty[response])[step.key]
      BY <1>3, <2>1, MemberFit
    <3> HIDE DEF found, ready, lines
    <3>3. Fit(ready, c, G, ty) /\ lines \in Firm(c, G) /\ ty[lines] = K
      BY <1>3, <1>4, <3>1, <3>2
    <3>4. Follows(ready, c, {}, ty, ty)
      BY <3>1, LeadsHere
    <3> QED
      BY <3>3, <3>4
  <2>2. CASE found = Refs!NULL
    <3>1. lines = Refs!NewId(h) /\ ready = Refs!NewArray(h, response, step)
      BY <2>2
    <3> HIDE DEF found, ready, lines
    <3>2. CanMake(c, {}, ty, response, step.key, K)
      BY <1>2, <1>3, RootFacts DEF CanMake
    <3>3. ready = Refs!ObjectAdd(Refs!New(h, Refs!Type(K)), response, step.key, lines)
      BY <1>2, <3>1 DEF Refs!NewArray
    <3> HIDE DEF K
    <3>4. PICK tz : Made(ready, c, {}, ty, response, step.key, lines, K, tz)
      BY <3>1, <3>2, <3>3, MakeMember
    <3>5. Fit(ready, c, G, tz) /\ Follows(ready, c, {}, ty, tz)
          /\ lines \in Firm(c, G) /\ tz[lines] = K
      BY <1>4, <3>4 DEF Made
    <3> QED
      BY <3>5
  <2> QED
    BY <2>1, <2>2
<1> HIDE DEF found, lines, ready
<1>6. PICK tz : /\ Fit(ready, c, G, tz) /\ Follows(ready, c, {}, ty, tz)
                /\ lines \in Firm(c, G) /\ tz[lines] = K
  BY <1>5
<1>7. CASE g.heap = ready
  BY <1>6, <1>7 DEF Leads
<1>8. CASE g \in Refs!FetchRows(f, lines)
  <2> DEFINE S == Refs!Parts("response")["total"]
  <2>1. tz[response] = "response" /\ response \in Firm(c, G)
    BY <1>3, <1>6 DEF Follows, Same, Firm
  <2>2. Refs!Type(S) = "string" /\ "total" \in DOMAIN Refs!Parts("response")
    BY DEF Refs!HasPart
  <2>3. step.key # "total"
    BY <1>2, <2>2
  <2>4. \A e \in G : ~(e[1] = response /\ e[2] = "total")
    BY <2>3
  <2> HIDE DEF K, S, G
  <2>5. CanMake(c, G, tz, response, "total", S)
    BY <2>1, <2>2, <2>4, RootFacts DEF CanMake, S
  <2>6. PICK tw : Follows(f, c, G, tz, tw)
    BY <1>6, <2>2, <2>5, AddStringFit DEF f
  <2> HIDE DEF f
  <2>7. Fit(f, c, G, tw) /\ tw[lines] = K
    BY <1>6, <2>6 DEF Follows, Same
  <2>8. CanFetch(c, G, tw, "rows", lines)
    BY <1>2, <1>6, <2>7 DEF CanFetch, K
  <2>9. g \in Refs!Fetched(f, MaxFetched, "rows", lines) /\ MaxFetched \in Nat
    BY <1>8, ObjectsAssumption DEF Refs!FetchRows, f
  <2>10. Leads(g.heap, c, G, tw)
    BY <2>7, <2>8, <2>9, FetchedFit
  <2>11. Leads(g.heap, c, G, tz)
    BY <2>6, <2>10, LeadsOn
  <2>12. Leads(g.heap, c, {}, tz)
    BY <1>3, <2>11, LeadsFewer
  <2> QED
    BY <1>6, <2>12, LeadsOn
<1> QED
  BY <1>1, <1>7, <1>8

(* Whatever a step does, the next one finds the heap as it should be.      *)
LEMMA ExecutedFit ==
  ASSUME NEW c, NEW ty, Fit(heap, c, {}, ty), Rooted(c, {}, ty), NEW step \in Steps,
         NEW g \in Refs!Executed(step)
  PROVE  Leads(g.heap, c, {}, ty)
<1>1. Refs!Agrees(step)
  BY ObjectsAssumption DEF Refs!StepsAgree
<1>2. request \in Firm(c, {}) /\ ty[request] = "request" /\ \A e \in {} : e[1] # request
  BY DEF Rooted
<1>3. Ready(c, {}, ty, request)
  BY <1>2 DEF Ready
<1>4. step.input = "" => Refs!Input(step) = request
  BY DEF Refs!Input
<1> DEFINE Idle == g \in Refs!Passed(heap) \/ g \in Refs!Failed(heap)
<1>5. CASE Idle
  BY <1>5, LeadsHere DEF Refs!Passed, Refs!Failed, Refs!Result
<1>6. CASE ~Idle /\ step.module = "select_one"
  <2>1. (step.to = "request" => step.input = "") /\ Refs!SelectOneAgrees("request", step)
    BY <1>1, <1>6 DEF Refs!Agrees, Refs!Batches
  <2>2. g \in Refs!SelectOne(heap, Refs!Input(step), step)
    BY <1>6 DEF Refs!Executed, Refs!Batches
  <2>3. g \in Refs!SelectOne(heap, request, step)
    BY <1>4, <2>1, <2>2 DEF Refs!SelectOne
  <2> QED
    BY <1>2, <1>3, <2>1, <2>3, SelectOneFit
<1>7. CASE ~Idle /\ step.module = "select_list"
  <2>1. /\ step.to = "request" => step.input = ""
        /\ Refs!HasRows(Refs!TargetKind("request", step), step.key)
    BY <1>1, <1>7 DEF Refs!Agrees, Refs!Batches
  <2>2. g \in Refs!SelectList(heap, Refs!Input(step), step)
    BY <1>7 DEF Refs!Executed, Refs!Batches
  <2>3. g \in Refs!SelectList(heap, request, step)
    BY <1>4, <2>1, <2>2 DEF Refs!SelectList, Refs!Target
  <2>4. CanList(Refs!TargetKind(ty[request], step), step.key, "rows")
    BY <1>2, <2>1 DEF CanList, Refs!HasRows
  <2> QED
    BY <1>3, <2>3, <2>4, SelectListFit
<1>8. CASE ~Idle /\ step.module = "select_page"
  <2>1. Refs!HasRows("response", step.key) /\ Refs!HasPart("response", "total", "string")
    BY <1>1, <1>8 DEF Refs!Agrees, Refs!Batches
  <2>2. g \in Refs!SelectPage(heap, step)
    BY <1>8 DEF Refs!Executed, Refs!Batches
  <2> QED
    BY <2>1, <2>2, SelectPageFit
<1>9. CASE ~Idle /\ step.module = "insert"
  <2>1. step.input = "" /\ Refs!IsRow("request")
    BY <1>1, <1>9 DEF Refs!Agrees, Refs!Batches
  <2>2. g \in Refs!FetchRow(heap, request)
    BY <1>4, <1>9, <2>1 DEF Refs!Executed, Refs!Insert, Refs!Batches
  <2> QED
    BY <1>2, <2>1, <2>2, FetchRowFit
<1>10. CASE ~Idle /\ step.module = "callproc"
  <2>1. step.input = "" /\ Refs!CallProcAgrees("request", step)
    BY <1>1, <1>10 DEF Refs!Agrees, Refs!Batches
  <2>2. g \in Refs!CallProc(heap, request, step)
    BY <1>4, <1>10, <2>1 DEF Refs!Executed, Refs!Batches
  <2> QED
    BY <1>2, <2>1, <2>2, CallProcFit
<1>11. CASE ~Idle /\ step.module = "add"
  <2>1. step.input = "" /\ Refs!CallProcAgrees("request", step)
    BY <1>1, <1>11 DEF Refs!Agrees, Refs!Batches
  <2>2. g \in Refs!CallProc(heap, request, step)
    BY <1>4, <1>11, <2>1 DEF Refs!Executed, Refs!Add, Refs!CallProc, Refs!Batches
  <2> QED
    BY <1>2, <2>1, <2>2, CallProcFit
<1>12. CASE ~Idle /\ step.module \in Refs!Batches
  <2>1. g \in Refs!Batch(heap, Refs!Input(step), step, Refs!NULL)
    BY <1>12 DEF Refs!Executed, Refs!Batches
  <2> QED
    BY <1>1, <1>12, <2>1, BatchStepFit
<1>13. CASE ~Idle /\ step.module = "copy"
  <2>1. Refs!CopyAgrees(step)
    BY <1>1, <1>13 DEF Refs!Agrees, Refs!Batches
  <2>3. step.input = ""
    BY <2>1 DEF Refs!CopyAgrees
  <2>2. g \in Refs!Copy(heap, request, step)
    BY <1>4, <1>13, <2>3 DEF Refs!Executed, Refs!Batches
  <2> QED
    BY <2>1, <2>2, CopyFit
<1>14. CASE ~Idle /\ step.module = "batch_copy"
  <2>1. Refs!BatchCopyAgrees(step)
    BY <1>1, <1>14 DEF Refs!Agrees, Refs!Batches
  <2>3. step.input = ""
    BY <2>1 DEF Refs!BatchCopyAgrees
  <2>2. g \in Refs!BatchCopy(heap, request, step)
    BY <1>4, <1>14, <2>3 DEF Refs!Executed, Refs!Batches
  <2> QED
    BY <1>14, <2>1, <2>2, BatchCopyFit
<1>15. step.module # "del"
  BY <1>1 DEF Refs!Agrees, Refs!Batches
<1>16. CASE /\ ~Idle
            /\ step.module \notin Refs!Batches
            /\ step.module \notin {"select_one", "select_list", "select_page", "insert", "callproc",
                                   "copy", "batch_copy", "add"}
  BY <1>15, <1>16 DEF Refs!Executed, Refs!Batches
<1> QED
  BY <1>5, <1>6, <1>7, <1>8, <1>9, <1>10, <1>11, <1>12, <1>13, <1>14, <1>16

-----------------------------------------------------------------------------
(* The cycle                                                               *)

(* Outside the heap, process() owns its two objects and nothing else.      *)
Nobody == [x \in Nat |-> 0]
Own(a, b) == [x \in Nat |-> IF x = a \/ x = b THEN 1 ELSE 0]
RootsAre(a, b, ty) ==
  /\ a \in Nat \ {Refs!NULL} /\ b \in Nat \ {Refs!NULL} /\ a # b
  /\ ty[a] = "request" /\ ty[b] = "response"
Running(h, a, b) == \E ty : Fit(h, Own(a, b), {}, ty) /\ RootsAre(a, b, ty)
(* What an abandoned cycle leaves is owned by nobody any more, but whole.  *)
Rest(h) == \E c, ty : Good(h, c, ty)

RefsInv ==
  /\ at \in {"idle", "load", "next", "steps", "failed", "handler"}
  /\ work \in 0..MaxWork /\ abandoned \in BOOLEAN
  /\ at # "idle" => ~abandoned /\ Running(heap, request, response)
  /\ at = "idle" => request = Refs!NULL /\ response = Refs!NULL
  /\ at = "idle" /\ ~abandoned => heap = Refs!EmptyHeap
  /\ at = "idle" /\ abandoned => Rest(heap)

(* Two owners come one after another, and go so.                           *)
LEMMA OwnFacts ==
  ASSUME NEW a \in Nat \ {Refs!NULL}, NEW b \in Nat \ {Refs!NULL}, a # b
  PROVE  /\ Own(a, b) \in [Nat -> Nat] /\ Own(a, b)[a] = 1 /\ Own(a, b)[b] = 1
         /\ a \in Firm(Own(a, b), {}) /\ b \in Firm(Own(a, b), {})
         /\ Plus(Plus(Nobody, a), b) = Own(a, b)
         /\ Minus(Own(a, b), a)[b] = 1
         /\ Minus(Minus(Own(a, b), a), b) = Nobody
<1>1. Own(a, b) \in [Nat -> Nat] /\ Own(a, b)[a] = 1 /\ Own(a, b)[b] = 1
  BY DEF Own
<1>2. a \in Firm(Own(a, b), {}) /\ b \in Firm(Own(a, b), {})
  BY <1>1 DEF Firm
<1>3. Plus(Plus(Nobody, a), b) = Own(a, b)
  BY DEF Plus, Nobody, Own
<1>4. Minus(Own(a, b), a)[b] = 1
  BY DEF Minus, Own
<1>5. Minus(Minus(Own(a, b), a), b) = Nobody
  BY DEF Minus, Nobody, Own
<1> QED
  BY <1>1, <1>2, <1>3, <1>4, <1>5

(* A step of a module leaves the cycle as it should be.                    *)
LEMMA RunsOn ==
  ASSUME NEW a, NEW b, NEW ty, RootsAre(a, b, ty), NEW g, Leads(g, Own(a, b), {}, ty)
  PROVE  Running(g, a, b)
<1>1. PICK tz : Follows(g, Own(a, b), {}, ty, tz)
  BY DEF Leads
<1>2. Fit(g, Own(a, b), {}, tz) /\ Same(tz, ty, Own(a, b), {})
  BY <1>1 DEF Follows
<1>3. a \in Firm(Own(a, b), {}) /\ b \in Firm(Own(a, b), {})
  BY OwnFacts DEF RootsAre
<1>4. RootsAre(a, b, tz)
  BY <1>2, <1>3 DEF RootsAre, Same
<1> QED
  BY <1>2, <1>4 DEF Running

(* settle_date, id and success are strings of the request.                 *)
LEMMA RequestString ==
  ASSUME NEW h, NEW a, NEW b, Running(h, a, b), NEW key \in {"settle_date", "id", "success"}
  PROVE  Running(Refs!AddString(h, a, key), a, b)
<1>1. PICK ty : Fit(h, Own(a, b), {}, ty) /\ RootsAre(a, b, ty)
  BY DEF Running
<1> DEFINE K == Refs!Parts("request")[key]
<1>2. Refs!Type("request") = "object" /\ key \in DOMAIN Refs!Parts("request")
      /\ Refs!Type(K) = "string"
  BY ObjectsAssumption DEF Refs!KindsInOrder, Refs!HasPart
<1> HIDE DEF K
<1>3. a \in Firm(Own(a, b), {}) /\ ty[a] = "request"
  BY <1>1, OwnFacts DEF RootsAre
<1>4. CanMake(Own(a, b), {}, ty, a, key, K)
  BY <1>2, <1>3 DEF CanMake, K
<1>5. \E tz : Follows(Refs!AddString(h, a, key), Own(a, b), {}, ty, tz)
  BY <1>1, <1>2, <1>4, AddStringFit
<1>6. Leads(Refs!AddString(h, a, key), Own(a, b), {}, ty)
  BY <1>5 DEF Leads
<1> QED
  BY <1>1, <1>6, RunsOn

(* Whatever step is executed, the cycle goes on as it should.              *)
LEMMA StepRuns ==
  ASSUME Running(heap, request, response), NEW step \in Steps, NEW g \in Refs!Executed(step)
  PROVE  Running(g.heap, request, response)
<1> DEFINE c == Own(request, response)
<1>1. PICK ty : Fit(heap, c, {}, ty) /\ RootsAre(request, response, ty)
  BY DEF Running
<1>2. Rooted(c, {}, ty)
  BY <1>1, OwnFacts DEF RootsAre, Rooted
<1> HIDE DEF c
<1>3. Leads(g.heap, c, {}, ty)
  BY <1>1, <1>2, ExecutedFit
<1> QED
  BY <1>1, <1>3, RunsOn DEF c

(* Before a cycle there is nothing but NULL.                               *)
LEMMA EmptyFit ==
  ASSUME NEW ty
  PROVE  /\ Fit(Refs!EmptyHeap, Nobody, {}, ty) /\ Refs!Objects(Refs!EmptyHeap) = {}
         /\ Shape(Refs!EmptyHeap)
<1> DEFINE h == Refs!EmptyHeap
<1>1. DOMAIN h = {Refs!NULL} /\ Refs!Objects(h) = {} /\ h[Refs!NULL] = Refs!Null
      /\ h = [p \in DOMAIN h |-> h[p]]
  BY DEF Refs!EmptyHeap, Refs!Objects
<1>2. Refs!Null = [type |-> Refs!Null.type, refs |-> Refs!Null.refs, kids |-> Refs!Null.kids]
  BY DEF Refs!Null
<1> HIDE DEF h
<1>3. IsFiniteSet(DOMAIN h) /\ DOMAIN h \subseteq Nat
  <2>1. IsFiniteSet({Refs!NULL})
    BY FS_Singleton
  <2> QED
    BY <1>1, <2>1 DEF Refs!NULL
<1>4. Shape(h)
  BY <1>1, <1>2, <1>3 DEF Shape
<1>5. KindsFit(h, ty) /\ Nobody \in [Nat -> Int] /\ Nobody \in [Nat -> Nat]
      /\ \A x \in Nat : Nobody[x] = 0
  BY <1>1 DEF KindsFit, Nobody
<1>6. Good(h, Nobody, ty)
  BY <1>1, <1>4, <1>5 DEF Good
<1>7. Stays(h, {}) /\ Closed(Nobody, {})
  BY DEF Stays, Closed
<1> QED
  BY <1>1, <1>4, <1>5, <1>6, <1>7 DEF Fit, h

(* process() makes its two objects, the first owners there are.            *)
LEMMA BeginRuns ==
  ASSUME NEW h, h = Refs!EmptyHeap, NEW f, f = Refs!New(h, "object"),
         NEW g, g = Refs!New(f, "object"), NEW a, a = Refs!NewId(h), NEW b, b = Refs!NewId(f)
  PROVE  Running(g, a, b)
<1> DEFINE t0 == [x \in Nat |-> "request"]
           t1 == [x \in Nat |-> IF x = a THEN "request" ELSE t0[x]]
           t2 == [x \in Nat |-> IF x = b THEN "response" ELSE t1[x]]
<1>1. {"request", "response"} \subseteq DOMAIN Schema /\ Refs!Type("request") = "object"
      /\ Refs!Type("response") = "object"
  BY RootFacts
<1> HIDE DEF t0
<1>2. Fit(h, Nobody, {}, t0)
  BY EmptyFit
<1>3. Fit(f, Plus(Nobody, a), {}, t1) /\ a \in Nat \ {Refs!NULL} /\ a \in Refs!Objects(f)
  BY <1>1, <1>2, NewFit
<1>4. t1[a] = "request"
  BY <1>3
<1> HIDE DEF t1
<1>5. /\ Fit(g, Plus(Plus(Nobody, a), b), {}, t2) /\ b \in Nat \ {Refs!NULL}
      /\ b \notin Refs!Objects(f)
  BY <1>1, <1>3, NewFit
<1>6. a # b /\ t2[b] = "response" /\ t2[a] = "request"
  BY <1>3, <1>4, <1>5
<1> HIDE DEF t2
<1>7. Fit(g, Own(a, b), {}, t2)
  BY <1>3, <1>5, <1>6, OwnFacts
<1>8. RootsAre(a, b, t2)
  BY <1>3, <1>5, <1>6 DEF RootsAre
<1> QED
  BY <1>7, <1>8 DEF Running

(* Objects that only hold each other would need one that lies deeper than  *)
(* itself: where nobody owns an object there is none.                      *)
LEMMA NobodyEmpty ==
  ASSUME NEW h, NEW ty, Fit(h, Nobody, {}, ty)
  PROVE  h = Refs!EmptyHeap
<1> DEFINE Obj == Refs!Objects(h)
           Depth(x) == Schema[ty[x]].depth
           T == {Depth(x) : x \in Obj}
<1>1. /\ Shape(h) /\ KindsFit(h, ty)
      /\ \A x \in Obj : h[x].refs = Cardinality(Refs!Holding(h, Obj, x)) + Nobody[x]
  BY DEF Fit, Good
<1>2. \A K \in DOMAIN Schema :
        /\ Schema[K].depth \in Nat
        /\ Refs!Type(K) \in {"object", "array", "string"}
        /\ Refs!Type(K) = "array" => "each" \in DOMAIN Refs!Parts(K)
        /\ \A key \in DOMAIN Refs!Parts(K) : Schema[Refs!Parts(K)[key]].depth > Schema[K].depth
  BY ObjectsAssumption DEF Refs!KindsInOrder
<1>3. \A x \in Obj : ty[x] \in DOMAIN Schema /\ h[x].type = Refs!Type(ty[x])
  BY <1>1 DEF KindsFit
<1>4. Obj = {}
  <2> SUFFICES ASSUME Obj # {} PROVE FALSE
    OBVIOUS
  <2>1. T \in SUBSET Nat /\ T # {}
    BY <1>2, <1>3
  <2> HIDE DEF T
  <2>2. PICK least \in T : \A other \in T : least <= other
    BY <2>1, Least
  <2>3. PICK x \in Obj : least = Depth(x)
    BY DEF T
  <2>4. \A y \in Obj : Depth(x) <= Depth(y)
    BY <2>2, <2>3 DEF T
  <2>5. x \in Nat /\ x # Refs!NULL /\ h[x].refs \in Nat \ {0}
    BY <1>1 DEF Shape, Refs!Objects
  <2>6. Nobody[x] = 0
    BY <2>5 DEF Nobody
  <2>7. Refs!Holding(h, Obj, x) # {}
    <3>1. Cardinality(Refs!Holding(h, Obj, x)) \in Nat
      BY <1>1, EntriesFinite, FS_CardinalityType
    <3>2. Cardinality(Refs!Holding(h, Obj, x)) # 0
      BY <1>1, <2>5, <2>6, <3>1
    <3> QED
      BY <3>2, FS_EmptySet
  <2>8. PICK e \in Refs!Holding(h, Obj, x) : TRUE
    BY <2>7
  <2>9. e = <<e[1], e[2]>>
    BY EntryFacts
  <2>10. e[1] \in Obj /\ e[2] \in DOMAIN h[e[1]].kids /\ h[e[1]].kids[e[2]] = x
    <3>1. <<e[1], e[2]>> \in Refs!Holding(h, Obj, x)
      BY <2>9, Zenon
    <3>2. \A y, k : <<y, k>> \in Refs!Holding(h, Obj, x) <=>
                      y \in Obj /\ k \in DOMAIN h[y].kids /\ h[y].kids[k] = x
      BY EntryFacts, Zenon
    <3> QED
      BY <3>1, <3>2, Zenon
  <2> DEFINE p == e[1]
             K == ty[e[1]]
  <2> HIDE DEF p, K
  <2>11. p \in Obj /\ K \in DOMAIN Schema /\ h[p].type = Refs!Type(K) /\ Depth(x) <= Schema[K].depth
    BY <1>3, <2>4, <2>10 DEF p, K
  <2>12. e[2] \in DOMAIN h[p].kids /\ h[p].kids[e[2]] = x
    BY <2>10 DEF p
  <2>13. ASSUME NEW key \in DOMAIN Refs!Parts(K), ty[x] = Refs!Parts(K)[key] PROVE FALSE
    <3>1. Depth(x) > Schema[K].depth /\ Schema[K].depth \in Nat /\ Depth(x) \in Nat
      BY <1>2, <1>3, <2>11, <2>13
    <3> QED
      BY <2>11, <3>1
  <2>14. CASE h[p].type = "object"
    <3>1. e[2] \in DOMAIN Refs!Parts(K) /\ ty[x] = Refs!Parts(K)[e[2]]
      BY <1>1, <2>5, <2>11, <2>12, <2>14 DEF KindsFit, K, p
    <3> QED
      BY <2>13, <3>1
  <2>15. CASE h[p].type = "array"
    <3>1. ty[x] = Refs!Each(K)
      BY <1>1, <2>11, <2>12, <2>15 DEF KindsFit, K, p
    <3>2. "each" \in DOMAIN Refs!Parts(K) /\ ty[x] = Refs!Parts(K)["each"]
      BY <1>2, <2>11, <2>15, <3>1 DEF Refs!Each
    <3> QED
      BY <2>13, <3>2
  <2>16. CASE h[p].type = "string"
    <3>1. h[p].kids = <<>>
      BY <1>1, <2>11, <2>16 DEF KindsFit, Refs!Nothing
    <3> QED
      BY <2>12, <3>1
  <2> QED
    BY <1>2, <2>11, <2>14, <2>15, <2>16
<1>5. DOMAIN h = {Refs!NULL} /\ h[Refs!NULL] = Refs!Null /\ h = [p \in DOMAIN h |-> h[p]]
  BY <1>1, <1>4 DEF Shape, Refs!Objects
<1> QED
  BY <1>5 DEF Refs!EmptyHeap

(* The two puts at the end of a cycle free all there is.                   *)
LEMMA EndEmpties ==
  ASSUME NEW h, NEW a, NEW b, Running(h, a, b)
  PROVE  Refs!Put(Refs!Put(h, a), b) = Refs!EmptyHeap
<1> DEFINE c == Own(a, b)
           f == Refs!Put(h, a)
           g == Refs!Put(f, b)
<1>1. PICK ty : Fit(h, c, {}, ty) /\ RootsAre(a, b, ty)
  BY DEF Running
<1>2. /\ a \in Nat /\ b \in Nat /\ c[a] >= 1 /\ Minus(c, a)[b] >= 1
      /\ Minus(Minus(c, a), b) = Nobody
  BY <1>1, OwnFacts DEF RootsAre
<1> HIDE DEF c
<1>3. \A d : Closed(d, {})
  BY DEF Closed
<1>4. Fit(f, Minus(c, a), {}, ty)
  BY <1>1, <1>2, <1>3, PutFit
<1> HIDE DEF f
<1>5. Fit(g, Nobody, {}, ty)
  BY <1>2, <1>3, <1>4, PutFit
<1> QED
  BY <1>5, NobodyEmpty DEF f

(* The invariant holds before the first cycle.                             *)
LEMMA RefsStart ==
  ASSUME Refs!Init
  PROVE  RefsInv
<1>1. 0 \in 0..MaxWork
  BY ObjectsAssumption
<1> QED
  BY <1>1 DEF Refs!Init, RefsInv

(* Every step of a cycle keeps it.                                         *)
LEMMA RefsStep ==
  ASSUME RefsInv, [Refs!Next]_(Refs!vars)
  PROVE  RefsInv'
<1>1. MaxWork \in Nat
  BY ObjectsAssumption
<1>2. CASE Refs!Restart
  BY <1>2 DEF Refs!Restart, RefsInv
<1>3. CASE Refs!BeginCycle
  <2>1. /\ at = "idle" /\ heap = Refs!EmptyHeap /\ ~abandoned /\ at' = "load"
        /\ abandoned' = abandoned /\ work' = 0
        /\ heap' = Refs!New(Refs!New(heap, "object"), "object")
        /\ request' = Refs!NewId(heap)
        /\ response' = Refs!NewId(Refs!New(heap, "object"))
    BY <1>3 DEF Refs!BeginCycle, RefsInv
  <2>2. Running(heap', request', response')
    BY <2>1, BeginRuns
  <2> QED
    BY <1>1, <2>1, <2>2 DEF RefsInv
<1>4. CASE Refs!LoadFails
  <2>1. Running(heap, request, response)
    BY <1>4 DEF Refs!LoadFails, RefsInv
  <2>2. Rest(heap)
    BY <2>1 DEF Running, Fit, Rest
  <2>3. Rest(heap')
    BY <1>4, <2>2, Zenon DEF Refs!LoadFails
  <2> QED
    BY <1>4, <2>3 DEF Refs!LoadFails, RefsInv
<1>5. CASE Refs!Loaded \/ Refs!JobDone
  <2>1. /\ Running(heap, request, response) /\ ~abandoned
        /\ heap' = heap /\ request' = request /\ response' = response
        /\ at' = "next" /\ work' = work /\ abandoned' = abandoned
    BY <1>5 DEF Refs!Loaded, Refs!JobDone, RefsInv
  <2>2. Running(heap', request', response')
    BY <2>1, Zenon
  <2> QED
    BY <2>1, <2>2 DEF RefsInv
<1>6. CASE Refs!NextJob
  <2>1. /\ Running(heap, request, response) /\ ~abandoned /\ work < MaxWork
        /\ heap' = Refs!AddString(Refs!AddString(heap, request, "settle_date"), request, "id")
        /\ request' = request /\ response' = response
        /\ at' = "steps" /\ work' = work + 1 /\ abandoned' = abandoned
    BY <1>6 DEF Refs!NextJob, RefsInv
  <2>2. Running(Refs!AddString(heap, request, "settle_date"), request, response)
    BY <2>1, RequestString
  <2>3. Running(Refs!AddString(Refs!AddString(heap, request, "settle_date"), request, "id"),
                request, response)
    BY <2>2, RequestString
  <2>4. Running(heap', request', response')
    BY <2>1, <2>3, Zenon
  <2> QED
    BY <1>1, <2>1, <2>4 DEF RefsInv
<1>7. CASE Refs!RunStep
  <2> PICK step \in Steps : \E g \in Refs!Executed(step) :
             /\ heap' = g.heap
             /\ at' = IF g.ok THEN at ELSE IF at = "steps" THEN "failed" ELSE "next"
    BY <1>7 DEF Refs!RunStep
  <2>1. PICK g \in Refs!Executed(step) :
             /\ heap' = g.heap
             /\ at' = IF g.ok THEN at ELSE IF at = "steps" THEN "failed" ELSE "next"
    OBVIOUS
  <2>2. /\ Running(heap, request, response) /\ ~abandoned /\ work < MaxWork
        /\ at \in {"steps", "handler"}
        /\ request' = request /\ response' = response
        /\ work' = work + 1 /\ abandoned' = abandoned
    BY <1>7 DEF Refs!RunStep, RefsInv
  <2>3. Running(g.heap, request, response)
    BY <2>2, StepRuns
  <2>4. Running(heap', request', response')
    BY <2>1, <2>2, <2>3, Zenon
  <2>5. at' \in {"steps", "handler", "failed", "next"}
    BY <2>1, <2>2
  <2> QED
    BY <1>1, <2>2, <2>4, <2>5 DEF RefsInv
<1>8. CASE Refs!MainDone
  <2>1. /\ Running(heap, request, response) /\ ~abandoned
        /\ heap' = Refs!AddString(heap, request, "success")
        /\ request' = request /\ response' = response
        /\ at' = "handler" /\ work' = work /\ abandoned' = abandoned
    BY <1>8 DEF Refs!MainDone, RefsInv
  <2>2. Running(Refs!AddString(heap, request, "success"), request, response)
    BY <2>1, RequestString
  <2>3. Running(heap', request', response')
    BY <2>1, <2>2, Zenon
  <2> QED
    BY <2>1, <2>3 DEF RefsInv
<1>9. CASE Refs!EndCycle
  <2>1. Running(heap, request, response) /\ ~abandoned
    BY <1>9 DEF Refs!EndCycle, RefsInv
  <2>2. heap' = Refs!EmptyHeap
    BY <1>9, <2>1, EndEmpties DEF Refs!EndCycle, Refs!Released
  <2> QED
    BY <1>9, <2>1, <2>2 DEF Refs!EndCycle, RefsInv
<1>10. CASE UNCHANGED Refs!vars
  <2>1. /\ heap' = heap /\ request' = request /\ response' = response
        /\ at' = at /\ work' = work /\ abandoned' = abandoned
    BY <1>10 DEF Refs!vars
  <2>2. /\ Running(heap, request, response) => Running(heap', request', response')
        /\ Rest(heap) => Rest(heap')
    BY <2>1, Zenon
  <2> QED
    BY <2>1, <2>2 DEF RefsInv
<1> QED
  BY <1>2, <1>3, <1>4, <1>5, <1>6, <1>7, <1>8, <1>9, <1>10 DEF Refs!Next

(* The invariant holds throughout the cycles of process().                 *)
LEMMA RefsCall == CallsSpec => [](call = "process" => RefsInv)
<1>1. CallsInit => (call = "process" => RefsInv)
  BY OneStart, RefsStart
<1>2. ASSUME call = "process" => RefsInv, [CallsNext]_callsVars
      PROVE  (call = "process" => RefsInv)'
  <2> SUFFICES ASSUME call = "process" PROVE RefsInv'
    BY <1>2, OneCall
  <2>1. RefsInv /\ [Refs!Next]_(Refs!vars)
    BY <1>2, OneCall
  <2> QED
    BY <2>1, RefsStep
<1> QED
  BY <1>1, <1>2, PTL DEF CallsSpec

(* Whatever the cycle does, the heap is whole.                             *)
LEMMA RefsWhole ==
  ASSUME RefsInv
  PROVE  /\ Shape(heap) /\ \E ty : KindsFit(heap, ty)
         /\ {request, response} \subseteq DOMAIN heap
<1>1. CASE at # "idle"
  <2>1. PICK ty : /\ Fit(heap, Own(request, response), {}, ty)
                  /\ RootsAre(request, response, ty)
    BY <1>1 DEF RefsInv, Running
  <2>2. {request, response} \subseteq Firm(Own(request, response), {})
    BY <2>1, OwnFacts DEF RootsAre
  <2>3. Firm(Own(request, response), {}) \subseteq Refs!Objects(heap)
    BY <2>1, FirmFacts
  <2> QED
    BY <2>1, <2>2, <2>3 DEF Fit, Good, Refs!Objects
<1>2. CASE at = "idle"
  <2>1. Rest(heap)
    <3>1. CASE abandoned
      BY <1>2, <3>1 DEF RefsInv
    <3>2. CASE ~abandoned
      <4>1. heap = Refs!EmptyHeap
        BY <1>2, <3>2 DEF RefsInv
      <4>2. \A ty : Fit(Refs!EmptyHeap, Nobody, {}, ty)
        BY EmptyFit
      <4>3. \A ty : Good(heap, Nobody, ty)
        BY <4>1, <4>2 DEF Fit
      <4> QED
        BY <4>3 DEF Rest
    <3> QED
      BY <3>1, <3>2
  <2>2. Shape(heap) /\ \E ty : KindsFit(heap, ty)
    BY <2>1 DEF Rest, Good
  <2>3. request = Refs!NULL /\ response = Refs!NULL
    BY <1>2 DEF RefsInv
  <2> QED
    BY <2>2, <2>3 DEF Shape
<1> QED
  BY <1>1, <1>2

(* Types, holders and kinds follow.                                        *)
LEMMA RefsTypes ==
  ASSUME RefsInv
  PROVE  Refs!TypeOK /\ Refs!NoDangling /\ Refs!KindsRespected
<1>1. PICK ty : /\ Shape(heap) /\ KindsFit(heap, ty)
                /\ {request, response} \subseteq DOMAIN heap
  BY RefsWhole
<1>2. heap[Refs!NULL].type = "null"
  BY <1>1 DEF Shape, Refs!Null
<1>3. ASSUME NEW o \in Refs!Objects(heap)
      PROVE  /\ o \in Nat
             /\ heap[o].type \in {"object", "array", "string"} /\ heap[o].refs \in Nat \ {0}
             /\ heap[o].type = "array" => DOMAIN heap[o].kids = 1..Len(heap[o].kids)
             /\ heap[o].type = "string" => heap[o].kids = Refs!Nothing
  <2>1. o \in Nat /\ heap[o].refs \in Nat \ {0}
    BY <1>1 DEF Shape, Refs!Objects
  <2>2. /\ ty[o] \in DOMAIN Schema /\ heap[o].type = Refs!Type(ty[o])
        /\ heap[o].type = "array" => heap[o].kids \in Seq(Nat \ {Refs!NULL})
        /\ heap[o].type = "string" => heap[o].kids = Refs!Nothing
    BY <1>1 DEF KindsFit
  <2>3. heap[o].type \in {"object", "array", "string"}
    BY <2>2, KindFacts
  <2> QED
    BY <2>1, <2>2, <2>3
<1>4. Refs!TypeOK
  BY <1>2, <1>3 DEF Refs!TypeOK, RefsInv
<1>5. Refs!NoDangling
  <2>1. ASSUME NEW e \in Refs!Entries(heap, Refs!Objects(heap))
        PROVE  Refs!Held(heap, e) \in DOMAIN heap
    <3>1. e = <<e[1], e[2]>>
      BY EntryFacts
    <3>2. <<e[1], e[2]>> \in Refs!Entries(heap, Refs!Objects(heap))
      BY <3>1, Zenon
    <3>3. e[1] \in Refs!Objects(heap) /\ e[2] \in DOMAIN heap[e[1]].kids
      BY <3>2, EntryFacts
    <3> QED
      BY <1>1, <3>3 DEF Shape, Refs!Held
  <2> QED
    BY <1>1, <2>1 DEF Refs!NoDangling
<1> QED
  BY <1>2, <1>4, <1>5 DEF Refs!KindsRespected

(* Counts are exact: two owners, and the entries.                          *)
LEMMA RefsCounted ==
  ASSUME RefsInv
  PROVE  Refs!CountsExact
<1> SUFFICES ASSUME ~abandoned, NEW o \in Refs!Objects(heap)
             PROVE  heap[o].refs = Refs!Holders(o)
  BY DEF Refs!CountsExact
<1>1. CASE at = "idle"
  <2>1. Refs!Objects(heap) = {}
    BY <1>1, EmptyFit DEF RefsInv
  <2> QED
    BY <2>1
<1>2. CASE at # "idle"
  <2>1. PICK ty : /\ Fit(heap, Own(request, response), {}, ty)
                  /\ RootsAre(request, response, ty)
    BY <1>2 DEF RefsInv, Running
  <2>2. o \in Nat
    BY <2>1 DEF Fit, Good, Shape, Refs!Objects
  <2>3. heap[o].refs = Cardinality(Refs!Holding(heap, Refs!Objects(heap), o))
                       + Own(request, response)[o]
    BY <2>1 DEF Fit, Good
  <2>4. Cardinality(Refs!Holding(heap, Refs!Objects(heap), o)) \in Nat
    BY <2>1, EntriesFinite, FS_CardinalityType DEF Fit, Good
  <2>5. Own(request, response)[o]
          = (IF request = o THEN 1 ELSE 0) + (IF response = o THEN 1 ELSE 0)
    BY <2>1, <2>2 DEF Own, RootsAre
  <2> QED
    BY <2>3, <2>4, <2>5, SameCardinality DEF Refs!Holders
<1> QED
  BY <1>1, <1>2

(* Between cycles the heap is empty.                                       *)
LEMMA RefsReleased ==
  ASSUME RefsInv
  PROVE  Refs!CycleReleases
BY EmptyFit DEF RefsInv, Refs!CycleReleases

(* Whatever the steps share, replace, wrap and give up on, each object's   *)
(* count is the number of those that hold it, and nobody holds one that    *)
(* has been freed (process_util.c).                                        *)
THEOREM CountsExactHolds == CallsSpec => []CountsExact
<1>1. (call = "process" => RefsInv) => CountsExact
  BY RefsTypes, RefsCounted DEF CountsExact
<1> QED
  BY <1>1, RefsCall, PTL

(* A cycle that got its job list leaves no object behind.                  *)
THEOREM CycleReleasesHolds == CallsSpec => []CycleReleases
<1>1. (call = "process" => RefsInv) => CycleReleases
  BY RefsReleased DEF CycleReleases
<1> QED
  BY <1>1, RefsCall, PTL

(* Steps that agree on the kinds never add to an object of another kind.   *)
THEOREM KindsRespectedHolds == CallsSpec => []KindsRespected
<1>1. (call = "process" => RefsInv) => KindsRespected
  BY RefsTypes DEF KindsRespected
<1> QED
  BY <1>1, RefsCall, PTL

-----------------------------------------------------------------------------
(* All calls                                                               *)

(* Every call keeps the types of its variables.                            *)
THEOREM CallTypesHolds == CallsSpec => []CallTypes
<1>1. /\ Sql!StatementInv => Sql!TypeOK
      /\ Scan!ScanInv => Scan!TypeOK
      /\ File!FileInv => File!TypeOK
      /\ Xls!BookInv => Xls!TypeOK
      /\ Pages!PagesInv => Pages!TypeOK
      /\ Where!RuleInv => Where!TypeOK
      /\ RefsInv => Refs!TypeOK
  BY RulePromises, RefsTypes
     DEF Sql!StatementInv, Scan!ScanInv, File!FileInv, Xls!BookInv, Pages!PagesInv
<1>2. /\ call = "search_fun_config_min" => TypeOK /\ SearchInv
      /\ call = "sql_execute" => Sql!StatementInv
      /\ call = "gen_sql" => Scan!ScanInv
      /\ call = "json_util_object" => File!FileInv
      /\ call = "module_export_xls" => Xls!BookInv
      /\ call = "module_select_page" => Pages!PagesInv
      /\ call = "gen_group_where" => Where!RuleInv
      /\ call = "process" => RefsInv
      => CallTypes
  BY <1>1 DEF CallTypes
<1> QED
  BY <1>2, SearchCall, StatementCall, ScanCall, FileCall, BookCall, PagesCall, RuleCall, RefsCall,
     PTL
==============================================================================
