------------------------------ MODULE SetFacts ------------------------------
(***************************************************************************)
(* Facts about finite sets and sequences that the proofs of several        *)
(* components cite: sizes of sets that differ by an element, the smallest  *)
(* number of a set and with it induction, sums, and sequences made of sets. *)
(***************************************************************************)
EXTENDS SequencesExt, FiniteSetTheorems, SequenceTheorems, TLAPS

(* Sizes.                                                                  *)

LEMMA SizeGrows ==
  ASSUME NEW S, NEW T, IsFiniteSet(T), S \subseteq T
  PROVE  /\ IsFiniteSet(S) /\ Cardinality(S) \in Nat /\ Cardinality(T) \in Nat
         /\ Cardinality(S) <= Cardinality(T)
BY FS_Subset, FS_CardinalityType

LEMMA SizeByOne ==
  ASSUME NEW S, NEW T, NEW x, IsFiniteSet(T), S \subseteq T \cup {x}
  PROVE  /\ IsFiniteSet(S) /\ Cardinality(S) \in Nat /\ Cardinality(T) \in Nat
         /\ Cardinality(S) <= Cardinality(T) + 1
<1>1. /\ IsFiniteSet(T \cup {x})
      /\ Cardinality(T \cup {x}) = IF x \in T THEN Cardinality(T) ELSE Cardinality(T) + 1
  BY FS_AddElement
<1>2. /\ IsFiniteSet(S) /\ Cardinality(S) \in Nat
      /\ Cardinality(S) <= Cardinality(T \cup {x})
  BY <1>1, SizeGrows
<1>3. Cardinality(T) \in Nat
  BY FS_CardinalityType
<1>4. QED
  BY <1>1, <1>2, <1>3

LEMMA SizeLess ==
  ASSUME NEW S, NEW T, NEW x, IsFiniteSet(T), x \in T, S \subseteq T \ {x}
  PROVE  /\ Cardinality(S) \in Nat /\ Cardinality(T) \in Nat
         /\ Cardinality(S) + 1 <= Cardinality(T)
<1>1. IsFiniteSet(T \ {x}) /\ Cardinality(T \ {x}) = Cardinality(T) - 1
  BY FS_RemoveElement
<1>2. Cardinality(S) \in Nat /\ Cardinality(S) <= Cardinality(T \ {x})
  BY <1>1, SizeGrows
<1>3. Cardinality(T) \in Nat
  BY FS_CardinalityType
<1>4. QED
  BY <1>1, <1>2, <1>3

LEMMA SizeDisjoint ==
  ASSUME NEW S, NEW T, IsFiniteSet(S), IsFiniteSet(T), S \cap T = {}
  PROVE  /\ IsFiniteSet(S \cup T)
         /\ Cardinality(S) \in Nat /\ Cardinality(T) \in Nat
         /\ Cardinality(S \cup T) = Cardinality(S) + Cardinality(T)
<1>1. Cardinality(S \cap T) = 0
  BY FS_EmptySet
<1>2. /\ IsFiniteSet(S \cup T)
      /\ Cardinality(S \cup T) = Cardinality(S) + Cardinality(T) - Cardinality(S \cap T)
  BY FS_Union
<1>3. Cardinality(S) \in Nat /\ Cardinality(T) \in Nat
  BY FS_CardinalityType
<1>4. QED
  BY <1>1, <1>2, <1>3
-----------------------------------------------------------------------------
(* The smallest number of a set.                                           *)

LEMMA SmallestOf ==
  ASSUME NEW S \in SUBSET Nat, S # {}
  PROVE  \E m \in S : \A n \in S : m <= n
<1> DEFINE Up(n) == 1..n
           T == {Up(n) : n \in S}
           R == StrictSubsetOrdering(Nat)
<1>1. ASSUME NEW n \in Nat PROVE Up(n) \in FiniteSubsetsOf(Nat)
  <2>1. IsFiniteSet(Up(n)) /\ Up(n) \subseteq Nat
    BY FS_Interval
  <2>2. QED
    BY <2>1 DEF FiniteSubsetsOf
<1>2. T \subseteq FiniteSubsetsOf(Nat) /\ T # {}
  BY <1>1
<1>3. IsWellFoundedOn(R, FiniteSubsetsOf(Nat))
  BY FS_StrictSubsetOrderingWellFounded
<1>4. ASSUME NEW m \in Nat, NEW n \in Nat, n < m PROVE <<Up(n), Up(m)>> \in R
  <2>1. Up(n) \subseteq Up(m) /\ m \in Up(m) /\ m \notin Up(n)
    BY <1>4
  <2>2. Up(n) \in SUBSET Nat /\ Up(m) \in SUBSET Nat /\ Up(n) # Up(m)
    BY <2>1
  <2> HIDE DEF Up
  <2>3. QED
    BY <2>1, <2>2 DEF StrictSubsetOrdering
<1> HIDE DEF R
<1>5. \E x \in T : \A y \in T : ~(<<y, x>> \in R)
  BY <1>2, <1>3, WFMin
<1> HIDE DEF Up
<1>6. PICK m \in S : \A n \in S : ~(<<Up(n), Up(m)>> \in R)
  BY <1>5
<1> HIDE DEF T
<1>7. ASSUME NEW n \in S PROVE m <= n
  <2>1. m \in Nat /\ n \in Nat /\ (n < m \/ m <= n)
    OBVIOUS
  <2>2. ~(n < m)
    BY <1>4, <1>6, <2>1
  <2>3. QED
    BY <2>1, <2>2
<1>8. QED
  BY <1>7

(* Induction over the natural numbers, for a set of them.                  *)
LEMMA NaturalsAreReached ==
  ASSUME NEW S \in SUBSET Nat, 0 \in S, \A n \in S : n + 1 \in S
  PROVE  S = Nat
<1> SUFFICES ASSUME Nat \ S # {} PROVE FALSE
  OBVIOUS
<1>1. PICK m \in Nat \ S : \A n \in Nat \ S : m <= n
  BY SmallestOf
<1>2. m - 1 \in Nat /\ m - 1 \in S
  BY <1>1
<1>3. QED
  BY <1>1, <1>2

-----------------------------------------------------------------------------
(* Sums.  The community modules fold with a function defined by recursion  *)
(* over subsets; it exists, which the size of a subset shows.              *)
Chosen(s) == CHOOSE x \in s : TRUE
Added(f, g, s) == IF s = {} THEN 0 ELSE f[Chosen(s)] + g[s \ {Chosen(s)}]

LEMMA SumIsFold ==
  ASSUME NEW D, NEW f, DOMAIN f = D
  PROVE  SumFunction(f) = (CHOOSE g : g = [s \in SUBSET D |-> Added(f, g, s)])[D]
  BY Zenon DEF SumFunction, SumFunctionOnSet, FoldFunctionOnSet, MapThenFoldSet, Chosen, Added

LEMMA PickedIsLess ==
  ASSUME NEW D, IsFiniteSet(D), NEW s \in SUBSET D, s # {}
  PROVE  /\ Chosen(s) \in s /\ s \ {Chosen(s)} \in SUBSET D
         /\ Cardinality(s) \in Nat /\ Cardinality(s \ {Chosen(s)}) \in Nat
         /\ Cardinality(s \ {Chosen(s)}) + 1 = Cardinality(s)
<1>1. Chosen(s) \in s
  BY DEF Chosen
<1>2. IsFiniteSet(s) /\ Cardinality(s) \in Nat
  BY SizeGrows
<1>3. Cardinality(s \ {Chosen(s)}) = Cardinality(s) - 1 /\ Cardinality(s \ {Chosen(s)}) \in Nat
  BY <1>1, <1>2, FS_RemoveElement, FS_CardinalityType
<1>4. QED
  BY <1>1, <1>2, <1>3

(* A sum of numbers of a kind that has 0 and is closed under addition is   *)
(* of that kind.                                                           *)
LEMMA SumStays ==
  ASSUME NEW D, IsFiniteSet(D), NEW V, 0 \in V, \A a, b \in V : a + b \in V,
         NEW f \in [D -> V]
  PROVE  SumFunction(f) \in V
<1> DEFINE Size(s) == Cardinality(s)
           Fold(g) == g = [s \in SUBSET D |-> Added(f, g, s)]
           Upto(g, n) == \A s \in SUBSET D : Size(s) <= n => g[s] = Added(f, g, s)
           Known == {n \in Nat : \E g : DOMAIN g = SUBSET D /\ Upto(g, n)}
<1>1. \A s \in SUBSET D : Size(s) \in Nat
  BY SizeGrows
<1>2. ASSUME NEW s \in SUBSET D, s # {}
      PROVE  /\ Chosen(s) \in D /\ s \ {Chosen(s)} \in SUBSET D
             /\ Size(s \ {Chosen(s)}) + 1 = Size(s) /\ Size(s \ {Chosen(s)}) \in Nat
  BY <1>2, PickedIsLess
<1>3. \A s \in SUBSET D : Size(s) = 0 <=> s = {}
  BY SizeGrows, FS_EmptySet
<1> HIDE DEF Size
<1>4. 0 \in Known
  <2> DEFINE g == [s \in SUBSET D |-> 0]
  <2>1. Upto(g, 0)
    BY <1>1, <1>3 DEF Added
  <2>2. QED
    BY <2>1
<1>5. ASSUME NEW n \in Known PROVE n + 1 \in Known
  <2>1. PICK g : DOMAIN g = SUBSET D /\ Upto(g, n)
    OBVIOUS
  <2> DEFINE h == [s \in SUBSET D |-> IF Size(s) <= n THEN g[s] ELSE Added(f, g, s)]
  <2>2. ASSUME NEW s \in SUBSET D, Size(s) <= n + 1 PROVE Added(f, h, s) = Added(f, g, s)
    <3>1. CASE s = {}
      BY <3>1 DEF Added
    <3>2. CASE s # {}
      <4>1. Size(s \ {Chosen(s)}) <= n /\ s \ {Chosen(s)} \in SUBSET D
        BY <1>1, <1>2, <2>2, <3>2
      <4>2. h[s \ {Chosen(s)}] = g[s \ {Chosen(s)}]
        BY <4>1
      <4> HIDE DEF h
      <4>3. QED
        BY <4>2 DEF Added
    <3>3. QED
      BY <3>1, <3>2
  <2>3. ASSUME NEW s \in SUBSET D, Size(s) <= n + 1 PROVE h[s] = Added(f, h, s)
    <3>1. h[s] = IF Size(s) <= n THEN g[s] ELSE Added(f, g, s)
      OBVIOUS
    <3>2. Size(s) <= n => g[s] = Added(f, g, s)
      BY <2>1
    <3> HIDE DEF h
    <3>3. QED
      BY <2>2, <2>3, <3>1, <3>2
  <2>4. DOMAIN h = SUBSET D
    OBVIOUS
  <2> HIDE DEF h
  <2>5. QED
    BY <2>3, <2>4
<1>6. Known = Nat
  <2>1. Known \in SUBSET Nat
    OBVIOUS
  <2> HIDE DEF Known
  <2>2. QED
    BY <1>4, <1>5, <2>1, NaturalsAreReached
<1>7. \E g : Fold(g)
  <2>1. Size(D) \in Known
    BY <1>1, <1>6
  <2>2. PICK g : DOMAIN g = SUBSET D /\ Upto(g, Size(D))
    BY <2>1
  <2>3. \A s \in SUBSET D : Size(s) <= Size(D)
    BY SizeGrows DEF Size
  <2>4. \A s \in SUBSET D : g[s] = Added(f, g, s)
    BY <2>2, <2>3
  <2>5. PICK h : h = [s \in SUBSET D |-> Added(f, g, s)]
    OBVIOUS
  <2>6. \A s \in SUBSET D : h[s] = g[s]
    BY <2>4, <2>5
  <2>7. \A s \in SUBSET D : Added(f, h, s) = Added(f, g, s)
    <3> SUFFICES ASSUME NEW s \in SUBSET D PROVE Added(f, h, s) = Added(f, g, s)
      OBVIOUS
    <3>1. CASE s = {}
      BY <3>1 DEF Added
    <3>2. CASE s # {}
      <4>1. h[s \ {Chosen(s)}] = g[s \ {Chosen(s)}]
        BY <1>2, <2>6, <3>2
      <4>2. QED
        BY <4>1 DEF Added
    <3>3. QED
      BY <3>1, <3>2
  <2>8. h = [s \in SUBSET D |-> Added(f, h, s)]
    BY <2>5, <2>7
  <2>9. QED
    BY <2>8
<1> DEFINE sum == CHOOSE g : Fold(g)
<1>8. Fold(sum)
  BY <1>7
<1>9. SumFunction(f) = sum[D]
  BY SumIsFold
<1> HIDE DEF sum
<1>10. \A s \in SUBSET D : sum[s] = Added(f, sum, s)
  BY <1>8
<1> DEFINE Fine == {n \in Nat : \A s \in SUBSET D : Size(s) = n => sum[s] \in V}
<1>11. 0 \in Fine
  BY <1>3, <1>10 DEF Added
<1>12. ASSUME NEW n \in Fine PROVE n + 1 \in Fine
  <2> SUFFICES ASSUME NEW s \in SUBSET D, Size(s) = n + 1 PROVE sum[s] \in V
    OBVIOUS
  <2>1. s # {}
    BY <1>3
  <2>2. Size(s \ {Chosen(s)}) = n /\ s \ {Chosen(s)} \in SUBSET D /\ Chosen(s) \in D
    BY <1>2, <2>1
  <2>3. sum[s \ {Chosen(s)}] \in V /\ f[Chosen(s)] \in V
    BY <2>2
  <2>4. sum[s] = f[Chosen(s)] + sum[s \ {Chosen(s)}]
    BY <1>10, <2>1 DEF Added
  <2>5. QED
    BY <2>3, <2>4
<1>13. Fine = Nat
  <2>1. Fine \in SUBSET Nat
    OBVIOUS
  <2> HIDE DEF Fine
  <2>2. QED
    BY <1>11, <1>12, <2>1, NaturalsAreReached
<1>14. sum[D] \in V
  BY <1>1, <1>13
<1>15. QED
  BY <1>9, <1>14

-----------------------------------------------------------------------------
(* A set as a sequence, and a sequence that grows by one.                  *)

LEMMA SeqOfSet ==
  ASSUME NEW S, IsFiniteSet(S)
  PROVE  /\ SetToSeq(S) \in Seq(S)
         /\ ToSet(SetToSeq(S)) = S
         /\ IsInjective(SetToSeq(S))
<1> DEFINE n == Cardinality(S)
           f == SetToSeq(S)
<1>1. n \in Nat /\ ExistsBijection(1..n, S)
  BY FS_CardinalityType
<1>2. \E g \in [1..n -> S] : IsInjective(g)
  BY <1>1 DEF ExistsBijection, Bijection, Injection
<1>3. f \in [1..n -> S] /\ IsInjective(f)
  BY <1>2, Zenon DEF SetToSeq
<1>4. f \in Injection(1..n, S)
  BY <1>3 DEF Injection
<1>5. Cardinality(1..n) = n
  BY <1>1, FS_Interval
<1>6. f \in Surjection(1..n, S)
  BY <1>4, <1>5, FS_Injection
<1>7. ToSet(f) = S
  BY <1>3, <1>6 DEF ToSet, Surjection
<1>8. f \in Seq(S)
  BY <1>1, <1>3, SeqDef
<1>9. QED
  BY <1>3, <1>7, <1>8

LEMMA AppendSet ==
  ASSUME NEW A, NEW s \in Seq(A), NEW S, IsFiniteSet(S), S \subseteq A
  PROVE  /\ s \o SetToSeq(S) \in Seq(A)
         /\ ToSet(s \o SetToSeq(S)) = ToSet(s) \cup S
         /\ IsInjective(s) /\ S \cap ToSet(s) = {} => IsInjective(s \o SetToSeq(S))
<1> DEFINE t == SetToSeq(S)
           r == s \o t
<1>1. t \in Seq(A) /\ ToSet(t) = S /\ IsInjective(t)
  BY SeqOfSet, SeqMonotonic
<1> HIDE DEF t
<1>2. /\ r \in Seq(A) /\ Len(r) = Len(s) + Len(t)
      /\ \A i \in 1..Len(s) + Len(t) : r[i] = IF i <= Len(s) THEN s[i] ELSE t[i - Len(s)]
  BY <1>1, ConcatProperties
<1>3. /\ Len(s) \in Nat /\ DOMAIN s = 1..Len(s)
      /\ Len(t) \in Nat /\ DOMAIN t = 1..Len(t)
      /\ DOMAIN r = 1..Len(s) + Len(t)
  BY <1>1, <1>2, LenProperties
<1> HIDE DEF r
<1>4. ToSet(r) \subseteq ToSet(s) \cup ToSet(t)
  <2>1. ASSUME NEW i \in DOMAIN r PROVE r[i] \in ToSet(s) \cup ToSet(t)
    <3>1. CASE i <= Len(s)
      BY <1>2, <1>3, <3>1 DEF ToSet
    <3>2. CASE ~(i <= Len(s))
      <4>1. i - Len(s) \in DOMAIN t /\ r[i] = t[i - Len(s)]
        BY <1>2, <1>3, <3>2
      <4>2. QED
        BY <4>1 DEF ToSet
    <3>3. QED
      BY <3>1, <3>2
  <2>2. QED
    BY <2>1 DEF ToSet
<1>5. ToSet(s) \cup ToSet(t) \subseteq ToSet(r)
  <2>1. ASSUME NEW i \in DOMAIN s PROVE s[i] \in ToSet(r)
    <3>1. i \in DOMAIN r /\ r[i] = s[i]
      BY <1>2, <1>3
    <3>2. QED
      BY <3>1 DEF ToSet
  <2>2. ASSUME NEW i \in DOMAIN t PROVE t[i] \in ToSet(r)
    <3>1. i + Len(s) \in DOMAIN r /\ r[i + Len(s)] = t[i]
      BY <1>2, <1>3
    <3>2. QED
      BY <3>1 DEF ToSet
  <2>3. QED
    BY <2>1, <2>2 DEF ToSet
<1>6. ASSUME IsInjective(s), S \cap ToSet(s) = {} PROVE IsInjective(r)
  <2> SUFFICES ASSUME NEW i \in DOMAIN r, NEW j \in DOMAIN r, r[i] = r[j] PROVE i = j
    BY DEF IsInjective
  <2>1. CASE i <= Len(s) /\ j <= Len(s)
    BY <1>2, <1>3, <1>6, <2>1 DEF IsInjective
  <2>2. CASE ~(i <= Len(s)) /\ ~(j <= Len(s))
    <3>1. /\ i - Len(s) \in DOMAIN t /\ j - Len(s) \in DOMAIN t
          /\ t[i - Len(s)] = t[j - Len(s)]
      BY <1>2, <1>3, <2>2
    <3>2. i - Len(s) = j - Len(s)
      BY <1>1, <3>1 DEF IsInjective
    <3>3. QED
      BY <1>3, <3>2
  <2>3. ASSUME NEW k \in DOMAIN r, NEW l \in DOMAIN r, k <= Len(s), ~(l <= Len(s))
        PROVE  r[k] # r[l]
    <3>1. k \in DOMAIN s /\ r[k] = s[k]
      BY <1>2, <1>3, <2>3
    <3>2. l - Len(s) \in DOMAIN t /\ r[l] = t[l - Len(s)]
      BY <1>2, <1>3, <2>3
    <3>3. r[k] \in ToSet(s) /\ r[l] \in S
      BY <1>1, <3>1, <3>2 DEF ToSet
    <3>4. QED
      BY <1>6, <3>3
  <2>4. QED
    BY <2>1, <2>2, <2>3
<1>7. QED
  BY <1>1, <1>2, <1>4, <1>5, <1>6 DEF t, r

-----------------------------------------------------------------------------
(* A queue: each of its members once, put at the end, taken from the front *)
(* or from where it stands.                                                *)

LEMMA PutLast ==
  ASSUME NEW A, NEW s \in Seq(A), NEW x \in A, IsInjective(s), x \notin ToSet(s)
  PROVE  /\ Append(s, x) \in Seq(A)
         /\ ToSet(Append(s, x)) = ToSet(s) \cup {x}
         /\ IsInjective(Append(s, x))
<1>1. /\ Append(s, x) \in Seq(A) /\ Len(Append(s, x)) = Len(s) + 1
      /\ \A i \in 1..Len(s) : Append(s, x)[i] = s[i]
      /\ Append(s, x)[Len(s) + 1] = x
  BY AppendProperties
<1>2. /\ Len(s) \in Nat /\ DOMAIN s = 1..Len(s)
      /\ DOMAIN Append(s, x) = 1..Len(s) + 1
  BY <1>1, LenProperties
<1> DEFINE t == Append(s, x)
<1> HIDE DEF t
<1>3. \A i \in DOMAIN t :
        \/ i \in DOMAIN s /\ t[i] = s[i]
        \/ i = Len(s) + 1 /\ t[i] = x
  BY <1>1, <1>2 DEF t
<1>4. \A i \in DOMAIN s : i \in DOMAIN t /\ t[i] = s[i]
  BY <1>1, <1>2 DEF t
<1>5. Len(s) + 1 \in DOMAIN t /\ t[Len(s) + 1] = x
  BY <1>1, <1>2 DEF t
<1>6. ToSet(t) = ToSet(s) \cup {x}
  BY <1>3, <1>4, <1>5 DEF ToSet
<1>7. \A i \in DOMAIN s : s[i] # x
  BY DEF ToSet
<1>8. IsInjective(t)
  BY <1>3, <1>7 DEF IsInjective
<1>9. QED
  BY <1>1, <1>6, <1>8 DEF t

(* A sequence t that is s without its member at i.                         *)
LEMMA TakenAt ==
  ASSUME NEW A, NEW s \in Seq(A), NEW t \in Seq(A), NEW i \in 1..Len(s),
         IsInjective(s), Len(t) = Len(s) - 1,
         \A j \in 1..Len(t) : t[j] = IF j < i THEN s[j] ELSE s[j + 1]
  PROVE  ToSet(t) = ToSet(s) \ {s[i]} /\ IsInjective(t)
<1>1. /\ Len(s) \in Nat /\ DOMAIN s = 1..Len(s)
      /\ Len(t) \in Nat /\ DOMAIN t = 1..Len(t)
  BY LenProperties
<1> DEFINE From(j) == IF j < i THEN j ELSE j + 1
<1>2. \A j \in DOMAIN t : From(j) \in DOMAIN s /\ From(j) # i /\ t[j] = s[From(j)]
  BY <1>1
<1>3. \A j, k \in DOMAIN t : From(j) = From(k) => j = k
  BY <1>1
<1>4. \A k \in DOMAIN s : k # i => \E j \in DOMAIN t : From(j) = k
  <2> SUFFICES ASSUME NEW k \in DOMAIN s, k # i PROVE \E j \in DOMAIN t : From(j) = k
    OBVIOUS
  <2>1. CASE k < i
    <3>1. k \in DOMAIN t /\ From(k) = k
      BY <1>1, <2>1
    <3>2. QED
      BY <3>1
  <2>2. CASE ~(k < i)
    <3>1. k - 1 \in DOMAIN t /\ From(k - 1) = k
      BY <1>1, <2>2
    <3>2. QED
      BY <3>1
  <2>3. QED
    BY <2>1, <2>2
<1> HIDE DEF From
<1>5. \A k \in DOMAIN s : s[k] = s[i] => k = i
  BY <1>1 DEF IsInjective
<1>6. ToSet(t) \subseteq ToSet(s) \ {s[i]}
  BY <1>2, <1>5 DEF ToSet
<1>7. ToSet(s) \ {s[i]} \subseteq ToSet(t)
  BY <1>2, <1>4 DEF ToSet
<1>8. IsInjective(t)
  BY <1>2, <1>3 DEF IsInjective
<1>9. QED
  BY <1>6, <1>7, <1>8

LEMMA TakeFirst ==
  ASSUME NEW A, NEW s \in Seq(A), s # <<>>, IsInjective(s)
  PROVE  /\ Head(s) \in ToSet(s) /\ Tail(s) \in Seq(A)
         /\ ToSet(Tail(s)) = ToSet(s) \ {Head(s)}
         /\ IsInjective(Tail(s))
<1>1. Len(s) \in Nat /\ 1 \in 1..Len(s) /\ DOMAIN s = 1..Len(s) /\ Head(s) = s[1]
  BY LenProperties, EmptySeq
<1>2. /\ Tail(s) \in Seq(A) /\ Len(Tail(s)) = Len(s) - 1
      /\ \A j \in 1..Len(Tail(s)) : Tail(s)[j] = s[j + 1]
  BY HeadTailProperties
<1>3. \A j \in 1..Len(Tail(s)) : Tail(s)[j] = IF j < 1 THEN s[j] ELSE s[j + 1]
  BY <1>1, <1>2
<1>4. ToSet(Tail(s)) = ToSet(s) \ {s[1]} /\ IsInjective(Tail(s))
  BY <1>1, <1>2, <1>3, TakenAt
<1>5. QED
  BY <1>1, <1>2, <1>4 DEF ToSet

LEMMA TakeOut ==
  ASSUME NEW A, NEW s \in Seq(A), NEW x, IsInjective(s)
  PROVE  /\ RemoveFirst(s, x) \in Seq(A)
         /\ ToSet(RemoveFirst(s, x)) = ToSet(s) \ {x}
         /\ IsInjective(RemoveFirst(s, x))
<1>1. Len(s) \in Nat /\ DOMAIN s = 1..Len(s)
  BY LenProperties
<1>2. CASE ~\E i \in 1..Len(s) : s[i] = x
  <2>1. RemoveFirst(s, x) = s /\ x \notin ToSet(s)
    BY <1>1, <1>2 DEF RemoveFirst, ToSet
  <2>2. QED
    BY <2>1
<1>3. CASE \E i \in 1..Len(s) : s[i] = x
  <2> DEFINE I == {i \in 1..Len(s) : s[i] = x}
             n == SelectInSeq(s, LAMBDA v : v = x)
             u == SubSeq(s, 1, n - 1)
             v == SubSeq(s, n + 1, Len(s))
  <2>1. n = Min(I)
    BY <1>3 DEF SelectInSeq
  <2>2. n \in I
    <3>1. I \in SUBSET Nat /\ I # {}
      BY <1>1, <1>3
    <3> HIDE DEF I
    <3>2. \E m \in I : \A k \in I : m <= k
      BY <3>1, SmallestOf
    <3>3. Min(I) \in I
      BY <3>2 DEF Min
    <3>4. QED
      BY <2>1, <3>3
  <2>3. RemoveFirst(s, x) = u \o v
    BY <1>3 DEF RemoveFirst, RemoveAt
  <2> HIDE DEF n
  <2>4. n \in 1..Len(s) /\ s[n] = x
    BY <2>2
  <2>5. /\ u \in Seq(A) /\ Len(u) = n - 1
        /\ \A j \in 1..n - 1 : u[j] = s[j]
    BY <1>1, <2>4, SubSeqProperties
  <2>6. /\ v \in Seq(A) /\ Len(v) = Len(s) - n
        /\ \A j \in 1..Len(s) - n : v[j] = s[n + j]
    <3>1. /\ n + 1 \in Int /\ Len(s) \in Int /\ \A k \in n + 1..Len(s) : s[k] \in A
          /\ \A j \in 1..Len(s) - n : n + 1 + j - 1 = n + j
          /\ Len(s) - (n + 1) + 1 = Len(s) - n
      BY <1>1, <2>4
    <3>2. /\ v \in Seq(A)
          /\ Len(v) = IF n + 1 <= Len(s) THEN Len(s) - (n + 1) + 1 ELSE 0
          /\ \A j \in 1..Len(s) - (n + 1) + 1 : v[j] = s[n + 1 + j - 1]
      BY <3>1, SubSeqProperties
    <3> HIDE DEF v
    <3>3. Len(v) = Len(s) - n
      BY <1>1, <2>4, <3>2
    <3>4. QED
      BY <3>1, <3>2, <3>3
  <2> HIDE DEF u, v
  <2>7. /\ u \o v \in Seq(A) /\ Len(u \o v) = Len(s) - 1
        /\ \A j \in 1..Len(s) - 1 : (u \o v)[j] = IF j <= n - 1 THEN u[j] ELSE v[j - (n - 1)]
    <3>1. Len(u) + Len(v) = Len(s) - 1
      BY <1>1, <2>4, <2>5, <2>6
    <3>2. QED
      BY <2>5, <2>6, <3>1, ConcatProperties
  <2>8. \A j \in 1..Len(s) - 1 : (u \o v)[j] = IF j < n THEN s[j] ELSE s[j + 1]
    <3> SUFFICES ASSUME NEW j \in 1..Len(s) - 1
                 PROVE  (u \o v)[j] = IF j < n THEN s[j] ELSE s[j + 1]
      OBVIOUS
    <3>1. CASE j < n
      BY <1>1, <2>4, <2>5, <2>7, <3>1
    <3>2. CASE ~(j < n)
      <4>1. j - (n - 1) \in 1..Len(s) - n /\ n + (j - (n - 1)) = j + 1
        BY <1>1, <2>4, <3>2
      <4>2. v[j - (n - 1)] = s[j + 1]
        BY <2>6, <4>1
      <4>3. QED
        BY <1>1, <2>4, <2>7, <3>2, <4>2
    <3>3. QED
      BY <3>1, <3>2
  <2> DEFINE t == u \o v
  <2>9. /\ t \in Seq(A) /\ Len(t) = Len(s) - 1
        /\ \A j \in 1..Len(t) : t[j] = IF j < n THEN s[j] ELSE s[j + 1]
    BY <2>7, <2>8
  <2> HIDE DEF t
  <2>10. ToSet(t) = ToSet(s) \ {s[n]} /\ IsInjective(t)
    BY <2>4, <2>9, TakenAt
  <2>11. QED
    BY <2>3, <2>4, <2>9, <2>10 DEF t
<1>4. QED
  BY <1>2, <1>3

=============================================================================
