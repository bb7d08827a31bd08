------------------------------- MODULE Lemmas -------------------------------
(***************************************************************************)
(* Facts about sequences, sums, minima and powers that the proofs of       *)
(* several components rest on.                                             *)
(***************************************************************************)
EXTENDS Integers, Sequences, FiniteSets, Functions, FiniteSetsExt, FiniteSetTheorems, TLAPS

-----------------------------------------------------------------------------
(* Sequences. *)

LEMMA TailFacts ==
  ASSUME NEW S, NEW s \in Seq(S), s # << >>
  PROVE  /\ Tail(s) \in Seq(S)
         /\ Head(s) \in S
         /\ Head(s) = s[1]
         /\ Len(s) \in Nat \ {0}
         /\ Len(Tail(s)) = Len(s) - 1
         /\ \A k \in 1 .. (Len(s) - 1) : Tail(s)[k] = s[k + 1]
  OBVIOUS

LEMMA LastTail ==
  ASSUME NEW S, NEW s \in Seq(S), s # << >>, Tail(s) = << >>
  PROVE  Len(s) = 1
<1>1. Len(s) \in Nat /\ Len(Tail(s)) = Len(s) - 1
  BY TailFacts
<1>2. Len(<< >>) = 0
  OBVIOUS
<1>3. Len(Tail(s)) = 0
  BY <1>2, Zenon
<1>4. QED
  BY <1>1, <1>3

LEMMA AppendFacts ==
  ASSUME NEW S, NEW s \in Seq(S), NEW t \in S
  PROVE  /\ Append(s, t) \in Seq(S)
         /\ Len(Append(s, t)) = Len(s) + 1
         /\ \A k \in 1 .. Len(s) : Append(s, t)[k] = s[k]
         /\ Append(s, t)[Len(s) + 1] = t
  OBVIOUS

LEMMA AppendNotEmpty ==
  ASSUME NEW S, NEW s \in Seq(S), NEW t \in S
  PROVE  Append(s, t) # << >>
<1>1. Len(s) \in Nat /\ Len(Append(s, t)) = Len(s) + 1
  BY AppendFacts
<1>2. Len(<< >>) = 0
  OBVIOUS
<1>3. QED
  BY <1>1, <1>2

LEMMA SubSeqFacts ==
  ASSUME NEW S, NEW s \in Seq(S), NEW m \in Nat \ {0}, NEW n \in Nat, m <= n + 1, n <= Len(s)
  PROVE  /\ SubSeq(s, m, n) \in Seq(S)
         /\ Len(SubSeq(s, m, n)) = n - m + 1
         /\ \A k \in 1 .. (n - m + 1) : SubSeq(s, m, n)[k] = s[m + k - 1]
  OBVIOUS

LEMMA SeqEqual ==
  ASSUME NEW S, NEW s \in Seq(S), NEW t \in Seq(S), Len(s) = Len(t),
         \A k \in 1 .. Len(s) : s[k] = t[k]
  PROVE  s = t
  OBVIOUS

-----------------------------------------------------------------------------
(* Induction over the subsets of a finite set, as a fact about a family:   *)
(* one that is not empty has a minimal member.                             *)
LEMMA MinimalSubset ==
  ASSUME NEW S, IsFiniteSet(S), NEW T \in SUBSET (SUBSET S), T # {}
  PROVE  \E m \in T : \A u \in T : u \subseteq m => u = m
<1>1. T \subseteq FiniteSubsetsOf(S)
  BY FS_Subset DEF FiniteSubsetsOf
<1>2. \E m \in T : \A u \in T : ~ (<<u, m>> \in StrictSubsetOrdering(S))
  BY <1>1, FS_StrictSubsetOrderingWellFounded, WFMin
<1>3. QED
  BY <1>2 DEF StrictSubsetOrdering

LEMMA FiniteIndices ==
  ASSUME NEW n \in Nat, NEW S, S \subseteq 1 .. n
  PROVE  IsFiniteSet(S)
<1>1. IsFiniteSet(1 .. n)
  BY FS_Interval
<1>2. QED
  BY <1>1, FS_Subset

-----------------------------------------------------------------------------
(* Sums.  SumFunctionOnSet adds up f over S through a function on the      *)
(* subsets of S, which takes out one element after the other.              *)

Picked(s) == CHOOSE x \in s : TRUE
AddUp(f, s, F) == IF s = {} THEN 0 ELSE f[Picked(s)] + F[s \ {Picked(s)}]
Adds(f, S, F) == F = [s \in SUBSET S |-> AddUp(f, s, F)]

LEMMA SumDef ==
  ASSUME NEW f, NEW S
  PROVE  SumFunctionOnSet(f, S) = (CHOOSE H : Adds(f, S, H))[S]
  BY DEF SumFunctionOnSet, FoldFunctionOnSet, MapThenFoldSet, Adds, AddUp, Picked

LEMMA PickedIn == ASSUME NEW s, s # {} PROVE Picked(s) \in s
  BY DEF Picked

(* Two such functions agree where both are defined. *)
LEMMA AddsUnique ==
  ASSUME NEW f, NEW S, NEW T, IsFiniteSet(T), T \subseteq S,
         NEW F, NEW G, Adds(f, S, F), Adds(f, T, G)
  PROVE  F[T] = G[T]
<1> DEFINE Bad == {t \in SUBSET T : F[t] # G[t]}
<1>1. SUFFICES ASSUME Bad # {} PROVE FALSE
  OBVIOUS
<1>2. PICK m \in Bad : \A u \in Bad : u \subseteq m => u = m
  <2>1. Bad \in SUBSET (SUBSET T)
    OBVIOUS
  <2> HIDE DEF Bad
  <2>2. QED
    BY <1>1, <2>1, MinimalSubset
<1>3. F[m] = AddUp(f, m, F) /\ G[m] = AddUp(f, m, G)
  BY DEF Adds
<1>4. CASE m = {}
  BY <1>2, <1>3, <1>4 DEF AddUp
<1>5. CASE m # {}
  <2>1. Picked(m) \in m
    BY <1>5, PickedIn
  <2>2. m \ {Picked(m)} \in SUBSET T /\ m \ {Picked(m)} \notin Bad
    BY <1>2, <2>1
  <2>3. QED
    BY <1>2, <1>3, <1>5, <2>2 DEF AddUp
<1>6. QED
  BY <1>4, <1>5

LEMMA AddsExists ==
  ASSUME NEW f, NEW S, IsFiniteSet(S)
  PROVE  \E F : Adds(f, S, F)
<1> DEFINE Bad == {t \in SUBSET S : ~ \E F : Adds(f, t, F)}
<1>1. SUFFICES ASSUME Bad # {} PROVE FALSE
  OBVIOUS
<1>2. PICK m \in Bad : \A u \in Bad : u \subseteq m => u = m
  <2>1. Bad \in SUBSET (SUBSET S)
    OBVIOUS
  <2> HIDE DEF Bad
  <2>2. QED
    BY <1>1, <2>1, MinimalSubset
<1> DEFINE A(s) == CHOOSE H : Adds(f, s, H)
           V == [s \in SUBSET m |-> A(s)[s]]
           G == [s \in SUBSET m |-> AddUp(f, s, V)]
<1>3. \A u \in SUBSET m : u # m => Adds(f, u, A(u))
  BY <1>2
<1>4. ASSUME NEW u \in SUBSET m, u # m PROVE G[u] = V[u]
  <2>1. V[u] = AddUp(f, u, A(u))
    BY <1>3, <1>4 DEF Adds
  <2>2. CASE u = {}
    BY <2>1, <2>2 DEF AddUp
  <2>3. CASE u # {}
    <3> DEFINE v == u \ {Picked(u)}
    <3>1. v \subseteq u /\ v \in SUBSET m /\ v # m /\ v # u
      BY <2>3, PickedIn
    <3>2. IsFiniteSet(v)
      BY <3>1, FS_Subset
    <3>3. A(u)[v] = A(v)[v]
      BY <1>3, <1>4, <3>1, <3>2, AddsUnique
    <3>4. QED
      BY <2>1, <2>3, <3>1, <3>3 DEF AddUp
  <2>4. QED
    BY <2>2, <2>3
<1>5. ASSUME NEW s \in SUBSET m PROVE AddUp(f, s, V) = AddUp(f, s, G)
  <2>1. CASE s = {}
    BY <2>1 DEF AddUp
  <2>2. CASE s # {}
    <3>1. s \ {Picked(s)} \in SUBSET m /\ s \ {Picked(s)} # m
      BY <2>2, PickedIn
    <3>2. G[s \ {Picked(s)}] = V[s \ {Picked(s)}]
      BY <1>4, <3>1
    <3> QED
      BY <2>2, <3>2 DEF AddUp
  <2>3. QED
    BY <2>1, <2>2
<1>6. Adds(f, m, G)
  BY <1>5 DEF Adds
<1>7. QED
  BY <1>2, <1>6

LEMMA SumEmpty == ASSUME NEW f PROVE SumFunctionOnSet(f, {}) = 0
<1> DEFINE F == CHOOSE H : Adds(f, {}, H)
<1>1. Adds(f, {}, F)
  BY AddsExists, FS_EmptySet
<1>2. F[{}] = 0
  BY <1>1 DEF Adds, AddUp
<1>3. QED
  BY <1>2, SumDef

LEMMA SumPicked ==
  ASSUME NEW f, NEW S, IsFiniteSet(S), S # {}
  PROVE  SumFunctionOnSet(f, S) = f[Picked(S)] + SumFunctionOnSet(f, S \ {Picked(S)})
<1> DEFINE T == S \ {Picked(S)}
           F == CHOOSE H : Adds(f, S, H)
           G == CHOOSE H : Adds(f, T, H)
<1>1. Adds(f, S, F)
  BY AddsExists
<1>2. IsFiniteSet(T)
  BY FS_Subset
<1>3. Adds(f, T, G)
  BY <1>2, AddsExists
<1>4. F[T] = G[T]
  BY <1>1, <1>2, <1>3, AddsUnique
<1>5. F[S] = f[Picked(S)] + F[T]
  BY <1>1 DEF Adds, AddUp
<1>6. QED
  BY <1>4, <1>5, SumDef

(* A sum of integers is one, and of naturals. *)
LEMMA SumInt ==
  ASSUME NEW S, IsFiniteSet(S), NEW f, \A x \in S : f[x] \in Int
  PROVE  SumFunctionOnSet(f, S) \in Int
<1> DEFINE Bad == {t \in SUBSET S : SumFunctionOnSet(f, t) \notin Int}
<1>1. SUFFICES ASSUME Bad # {} PROVE FALSE
  OBVIOUS
<1>2. PICK m \in Bad : \A u \in Bad : u \subseteq m => u = m
  <2>1. Bad \in SUBSET (SUBSET S)
    OBVIOUS
  <2> HIDE DEF Bad
  <2>2. QED
    BY <1>1, <2>1, MinimalSubset
<1>3. m # {}
  BY <1>2, SumEmpty, SMTT(30)
<1>4. Picked(m) \in m /\ IsFiniteSet(m)
  BY <1>3, PickedIn, FS_Subset
<1>5. m \ {Picked(m)} \notin Bad
  BY <1>2, <1>4
<1>6. SumFunctionOnSet(f, m \ {Picked(m)}) \in Int /\ f[Picked(m)] \in Int
  BY <1>4, <1>5
<1>7. SumFunctionOnSet(f, m) \in Int
  BY <1>3, <1>4, <1>6, SumPicked
<1>8. QED
  BY <1>2, <1>7

LEMMA SumNat ==
  ASSUME NEW S, IsFiniteSet(S), NEW f, \A x \in S : f[x] \in Nat
  PROVE  SumFunctionOnSet(f, S) \in Nat
<1> DEFINE Bad == {t \in SUBSET S : SumFunctionOnSet(f, t) \notin Nat}
<1>1. SUFFICES ASSUME Bad # {} PROVE FALSE
  OBVIOUS
<1>2. PICK m \in Bad : \A u \in Bad : u \subseteq m => u = m
  <2>1. Bad \in SUBSET (SUBSET S)
    OBVIOUS
  <2> HIDE DEF Bad
  <2>2. QED
    BY <1>1, <2>1, MinimalSubset
<1>3. m # {}
  <2>1. SumFunctionOnSet(f, {}) \in Nat
    BY SumEmpty
  <2>2. QED
    BY <1>2, <2>1
<1>4. Picked(m) \in m /\ IsFiniteSet(m)
  BY <1>3, PickedIn, FS_Subset
<1>5. m \ {Picked(m)} \notin Bad
  BY <1>2, <1>4
<1>6. SumFunctionOnSet(f, m \ {Picked(m)}) \in Nat /\ f[Picked(m)] \in Nat
  BY <1>4, <1>5
<1>7. SumFunctionOnSet(f, m) \in Nat
  BY <1>3, <1>4, <1>6, SumPicked
<1>8. QED
  BY <1>2, <1>7

(* Any element can be taken out of the sum. *)
LEMMA SumRemove ==
  ASSUME NEW S, IsFiniteSet(S), NEW f, \A x \in S : f[x] \in Int, NEW x \in S
  PROVE  SumFunctionOnSet(f, S) = f[x] + SumFunctionOnSet(f, S \ {x})
<1> DEFINE Sum(s) == SumFunctionOnSet(f, s)
           Bad == {t \in SUBSET S : \E y \in t : Sum(t) # f[y] + Sum(t \ {y})}
<1>1. SUFFICES ASSUME Bad # {} PROVE FALSE
  OBVIOUS
<1>2. PICK m \in Bad : \A u \in Bad : u \subseteq m => u = m
  <2>1. Bad \in SUBSET (SUBSET S)
    OBVIOUS
  <2> HIDE DEF Bad
  <2>2. QED
    BY <1>1, <2>1, MinimalSubset
<1>3. PICK y \in m : Sum(m) # f[y] + Sum(m \ {y})
  BY <1>2
<1> DEFINE p == Picked(m)
<1>4. p \in m /\ IsFiniteSet(m)
  BY <1>3, PickedIn, FS_Subset
<1>5. Sum(m) = f[p] + Sum(m \ {p})
  BY <1>3, <1>4, SumPicked
<1>6. p # y
  BY <1>3, <1>5
<1> DEFINE r == (m \ {p}) \ {y}
<1>7. r = (m \ {y}) \ {p}
  OBVIOUS
<1>8. m \ {p} \notin Bad /\ m \ {y} \notin Bad
  BY <1>2, <1>3, <1>4
<1>9. Sum(m \ {p}) = f[y] + Sum(r)
  BY <1>3, <1>6, <1>8
<1>10. Sum(m \ {y}) = f[p] + Sum(r)
  BY <1>4, <1>6, <1>7, <1>8
<1>11. f[p] \in Int /\ f[y] \in Int /\ Sum(r) \in Int
  <2>1. IsFiniteSet(r) /\ r \subseteq S
    BY FS_Subset
  <2>2. QED
    BY <1>3, <1>4, <2>1, SumInt
<1>12. QED
  BY <1>3, <1>5, <1>9, <1>10, <1>11

(* Only the values on S count. *)
LEMMA SumSame ==
  ASSUME NEW S, IsFiniteSet(S), NEW f, NEW g, \A x \in S : f[x] = g[x]
  PROVE  SumFunctionOnSet(f, S) = SumFunctionOnSet(g, S)
<1> DEFINE Bad == {t \in SUBSET S : SumFunctionOnSet(f, t) # SumFunctionOnSet(g, t)}
<1>1. SUFFICES ASSUME Bad # {} PROVE FALSE
  OBVIOUS
<1>2. PICK m \in Bad : \A u \in Bad : u \subseteq m => u = m
  <2>1. Bad \in SUBSET (SUBSET S)
    OBVIOUS
  <2> HIDE DEF Bad
  <2>2. QED
    BY <1>1, <2>1, MinimalSubset
<1>3. m # {}
  BY <1>2, SumEmpty
<1>4. Picked(m) \in m /\ IsFiniteSet(m)
  BY <1>3, PickedIn, FS_Subset
<1>5. m \ {Picked(m)} \notin Bad
  BY <1>2, <1>4
<1>6. QED
  BY <1>2, <1>3, <1>4, <1>5, SumPicked

(* Nothing larger anywhere, nothing larger in sum. *)
LEMMA SumOrder ==
  ASSUME NEW S, IsFiniteSet(S), NEW f, NEW g,
         \A x \in S : f[x] \in Int /\ g[x] \in Int /\ f[x] <= g[x]
  PROVE  SumFunctionOnSet(f, S) <= SumFunctionOnSet(g, S)
<1> DEFINE Bad == {t \in SUBSET S : ~ (SumFunctionOnSet(f, t) <= SumFunctionOnSet(g, t))}
<1>1. SUFFICES ASSUME Bad # {} PROVE FALSE
  OBVIOUS
<1>2. PICK m \in Bad : \A u \in Bad : u \subseteq m => u = m
  <2>1. Bad \in SUBSET (SUBSET S)
    OBVIOUS
  <2> HIDE DEF Bad
  <2>2. QED
    BY <1>1, <2>1, MinimalSubset
<1>3. m # {}
  <2>1. SumFunctionOnSet(f, {}) <= SumFunctionOnSet(g, {})
    BY SumEmpty
  <2>2. QED
    BY <1>2, <2>1
<1> DEFINE p == Picked(m)
           r == m \ {p}
<1>4. p \in m /\ IsFiniteSet(m) /\ IsFiniteSet(r) /\ r \subseteq S
  BY <1>3, PickedIn, FS_Subset
<1>5. r \notin Bad
  BY <1>2, <1>4
<1>6. SumFunctionOnSet(f, r) <= SumFunctionOnSet(g, r)
  BY <1>4, <1>5
<1>7. SumFunctionOnSet(f, r) \in Int /\ SumFunctionOnSet(g, r) \in Int
  BY <1>4, SumInt
<1>8. /\ SumFunctionOnSet(f, m) = f[p] + SumFunctionOnSet(f, r)
      /\ SumFunctionOnSet(g, m) = g[p] + SumFunctionOnSet(g, r)
  BY <1>3, <1>4, SumPicked
<1>9. f[p] \in Int /\ g[p] \in Int /\ f[p] <= g[p]
  BY <1>2, <1>4
<1>10. SumFunctionOnSet(f, m) <= SumFunctionOnSet(g, m)
  BY <1>6, <1>7, <1>8, <1>9
<1>11. QED
  BY <1>2, <1>10

-----------------------------------------------------------------------------
(* The smaller and the larger of two. *)
LEMMA MinPair ==
  ASSUME NEW a \in Int, NEW b \in Int
  PROVE  Min({a, b}) = IF a <= b THEN a ELSE b
<1> DEFINE m == IF a <= b THEN a ELSE b
<1>1. m \in {a, b} /\ \A y \in {a, b} : m <= y
  OBVIOUS
<1>2. \A x \in {a, b} : (\A y \in {a, b} : x <= y) => x = m
  OBVIOUS
<1>3. QED
  BY <1>1, <1>2 DEF Min

LEMMA MaxPair ==
  ASSUME NEW a \in Int, NEW b \in Int
  PROVE  Max({a, b}) = IF a >= b THEN a ELSE b
<1> DEFINE m == IF a >= b THEN a ELSE b
<1>1. m \in {a, b} /\ \A y \in {a, b} : m >= y
  OBVIOUS
<1>2. \A x \in {a, b} : (\A y \in {a, b} : x >= y) => x = m
  OBVIOUS
<1>3. QED
  BY <1>1, <1>2 DEF Max

(* Powers of two grow: they count the subsets of a growing set. *)
LEMMA PowerGrows ==
  ASSUME NEW m \in Nat, NEW n \in Nat, m <= n
  PROVE  2^m \in Nat /\ 2^n \in Nat /\ 2^m <= 2^n
<1>1. ASSUME NEW k \in Nat
      PROVE  /\ IsFiniteSet(SUBSET (1 .. k))
             /\ Cardinality(SUBSET (1 .. k)) = 2^k
  <2>1. IsFiniteSet(1 .. k) /\ Cardinality(1 .. k) = k
    BY FS_Interval
  <2>2. QED
    BY <2>1, FS_SUBSET
<1>2. SUBSET (1 .. m) \in SUBSET (SUBSET (1 .. n))
  OBVIOUS
<1>3. Cardinality(SUBSET (1 .. m)) <= Cardinality(SUBSET (1 .. n))
  BY <1>1, <1>2, FS_Subset
<1>4. \A k \in Nat : Cardinality(SUBSET (1 .. k)) \in Nat
  BY <1>1, FS_CardinalityType
<1>5. QED
  BY <1>1, <1>3, <1>4
=============================================================================
