---------------------------- MODULE IoStatProofs ----------------------------
(***************************************************************************)
(* The statistics library, for every set of descriptors, files and sizes:  *)
(* ncl_stat finds the right histogram for every path, counts every byte    *)
(* once, and withholds a sync from logs and tables only.                   *)
(*                                                                         *)
(* Paths and sums are recursive functions.  That they exist, and what they *)
(* compute, is shown by induction in the form of NatSetInduction: a set of *)
(* naturals that contains 0 and every successor of its elements is Nat.    *)
(***************************************************************************)
EXTENDS IoStat, FiniteSetTheorems, SequenceTheorems, WellFoundedInduction, TLAPS

-----------------------------------------------------------------------------
(* Induction. *)

\* A set of naturals that contains 0 and with n also n + 1 contains them all.
LEMMA NatSetInduction ==
    ASSUME NEW T, T \subseteq Nat, 0 \in T, \A n \in T : n + 1 \in T
    PROVE  T = Nat
<1> DEFINE R == OpToRel(<, Nat)
           B == Nat \ T
<1>1. IsWellFoundedOn(R, Nat)
  BY NatLessThanWellFounded
<1>2. \A x, y \in Nat : <<x, y>> \in R <=> x < y
  BY DEF OpToRel
<1> HIDE DEF R
<1>3. ASSUME B # {} PROVE FALSE
  <2>0. B \subseteq Nat
    OBVIOUS
  <2> HIDE DEF B
  <2>1. PICK i \in B : \A j \in B : ~(<<j, i>> \in R)
    BY <1>1, <1>3, <2>0, WFMin
  <2>2. i \in Nat /\ i \notin T
    BY <2>0 DEF B
  <2>3. i # 0 /\ i - 1 \in Nat /\ i - 1 < i /\ (i - 1) + 1 = i
    BY <2>2
  <2>4. i - 1 \notin T
    BY <2>2, <2>3
  <2>5. i - 1 \in B
    BY <2>3, <2>4 DEF B
  <2> QED BY <1>2, <2>1, <2>2, <2>3, <2>5
<1> QED BY <1>3

-----------------------------------------------------------------------------
(* Sums over finite sets. *)

\* The sum of f over S.
SumOf(f, S) == MapThenSumSet(LAMBDA d : f[d], S)

\* g adds up the values of f, set by set, up to sets of n elements.
Adds(g, f, S, n) ==
    \A s \in SUBSET S : Cardinality(s) <= n =>
        g[s] = IF s = {} THEN 0 ELSE f[CHOOSE x \in s : TRUE] + g[s \ {CHOOSE x \in s : TRUE}]

\* Taking out the element that the fold chooses leaves a smaller set.
LEMMA OneLess ==
    ASSUME NEW S, IsFiniteSet(S), NEW s \in SUBSET S, NEW x \in s
    PROVE  /\ s \ {x} \in SUBSET S /\ Cardinality(s) \in Nat \ {0}
           /\ Cardinality(s \ {x}) = Cardinality(s) - 1
<1>1. IsFiniteSet(s) /\ Cardinality(s) \in Nat
  BY FS_Subset, FS_CardinalityType
<1>2. Cardinality(s \ {x}) = Cardinality(s) - 1
  BY <1>1, FS_RemoveElement
<1>3. Cardinality(s) # 0
  BY <1>1, FS_EmptySet
<1> QED BY <1>1, <1>2, <1>3

\* The recursive function of MapThenFoldSet exists.
LEMMA AdderExists ==
    ASSUME NEW S, IsFiniteSet(S), NEW f, \A x \in S : f[x] \in Int
    PROVE  \E g \in [SUBSET S -> Int] : Adds(g, f, S, Cardinality(S))
<1> DEFINE T == {n \in Nat : \E g \in [SUBSET S -> Int] : Adds(g, f, S, n)}
           ch(s) == CHOOSE x \in s : TRUE
<1>0. \A s \in SUBSET S : s # {} => ch(s) \in s
  OBVIOUS
<1>c. \A s \in SUBSET S : Cardinality(s) \in Nat
  BY FS_Subset, FS_CardinalityType
<1>1. 0 \in T
  <2> DEFINE g == [s \in SUBSET S |-> 0]
  <2>1. g \in [SUBSET S -> Int]
    OBVIOUS
  <2>2. \A s \in SUBSET S : Cardinality(s) <= 0 => s = {}
    <3> SUFFICES ASSUME NEW s \in SUBSET S, Cardinality(s) <= 0 PROVE s = {}
      OBVIOUS
    <3>1. IsFiniteSet(s) /\ Cardinality(s) = 0
      BY <1>c, FS_Subset
    <3> QED BY <3>1, FS_EmptySet
  <2>3. Adds(g, f, S, 0)
    BY <2>2 DEF Adds
  <2> QED BY <2>1, <2>3
<1>2. ASSUME NEW n \in T PROVE n + 1 \in T
  <2>1. PICK g \in [SUBSET S -> Int] : Adds(g, f, S, n)
    BY <1>2
  <2> DEFINE body(s) == IF s = {} THEN 0 ELSE f[ch(s)] + g[s \ {ch(s)}]
             h == [s \in SUBSET S |-> body(s)]
  <2>2. \A s \in SUBSET S : body(s) \in Int
    <3> SUFFICES ASSUME NEW s \in SUBSET S, s # {} PROVE f[ch(s)] + g[s \ {ch(s)}] \in Int
      OBVIOUS
    <3>1. ch(s) \in s
      BY <1>0
    <3> HIDE DEF ch
    <3>2. s \ {ch(s)} \in SUBSET S /\ f[ch(s)] \in Int
      BY <3>1
    <3>3. g[s \ {ch(s)}] \in Int
      BY <2>1, <3>2
    <3> QED BY <3>2, <3>3
  <2>3. h \in [SUBSET S -> Int]
    BY <2>2
  <2>4. ASSUME NEW s \in SUBSET S, Cardinality(s) <= n + 1, s # {}
        PROVE  h[s] = f[ch(s)] + h[s \ {ch(s)}]
    <3>1. ch(s) \in s
      BY <1>0, <2>4
    <3> DEFINE r == s \ {ch(s)}
    <3>2. r \in SUBSET S /\ Cardinality(r) <= n
      <4> HIDE DEF ch
      <4>1. Cardinality(s) \in Nat \ {0} /\ Cardinality(r) = Cardinality(s) - 1 /\ r \in SUBSET S
        BY <3>1, OneLess
      <4> QED BY <2>4, <4>1
    <3>3. g[r] = body(r)
      BY <2>1, <3>2 DEF Adds
    <3>4. h[s] = f[ch(s)] + g[r]
      BY <2>4
    <3>5. h[r] = body(r)
      BY <3>2
    <3> QED BY <3>3, <3>4, <3>5
  <2>5. h[{}] = 0
    OBVIOUS
  <2> HIDE DEF h
  <2>6. Adds(h, f, S, n + 1)
    <3> SUFFICES ASSUME NEW s \in SUBSET S, Cardinality(s) <= n + 1
                 PROVE  h[s] = IF s = {} THEN 0 ELSE f[ch(s)] + h[s \ {ch(s)}]
      BY DEF Adds
    <3> HIDE DEF ch
    <3>1. CASE s = {}
      BY <2>5, <3>1
    <3>2. CASE s # {}
      BY <2>4, <3>2
    <3> QED BY <3>1, <3>2
  <2>7. n + 1 \in Nat
    BY <1>2
  <2> QED BY <2>3, <2>6, <2>7
<1> HIDE DEF T
<1>3. T = Nat
  <2>1. T \subseteq Nat
    BY DEF T
  <2> QED BY <1>1, <1>2, <2>1, NatSetInduction
<1>4. Cardinality(S) \in T
  BY <1>3, <1>c
<1> QED BY <1>4 DEF T

\* What such a function adds up depends only on the values of the elements.
LEMMA AddsUnique ==
    ASSUME NEW S, IsFiniteSet(S), NEW R \in SUBSET S, NEW f, NEW h, \A x \in R : f[x] = h[x],
           NEW g, Adds(g, f, S, Cardinality(S)), NEW k, Adds(k, h, R, Cardinality(R))
    PROVE  \A s \in SUBSET R : g[s] = k[s]
<1> DEFINE T == {n \in Nat : \A s \in SUBSET R : Cardinality(s) <= n => g[s] = k[s]}
           ch(s) == CHOOSE x \in s : TRUE
<1>0. IsFiniteSet(R) /\ \A s \in SUBSET R : IsFiniteSet(s) /\ Cardinality(s) \in Nat
  BY FS_Subset, FS_CardinalityType
<1>1. ASSUME NEW s \in SUBSET R
      PROVE  /\ Cardinality(s) \in Nat
             /\ s = {} => g[s] = 0 /\ k[s] = 0
             /\ s # {} => /\ ch(s) \in s
                         /\ g[s] = f[ch(s)] + g[s \ {ch(s)}]
                         /\ k[s] = h[ch(s)] + k[s \ {ch(s)}]
  <2>1. Cardinality(s) \in Nat /\ Cardinality(s) <= Cardinality(S)
    BY <1>1, FS_Subset, FS_CardinalityType
  <2>2. Cardinality(s) <= Cardinality(R)
    BY <1>0, <1>1, FS_Subset
  <2>3. g[s] = IF s = {} THEN 0 ELSE f[ch(s)] + g[s \ {ch(s)}]
    BY <1>1, <2>1 DEF Adds
  <2>4. k[s] = IF s = {} THEN 0 ELSE h[ch(s)] + k[s \ {ch(s)}]
    BY <1>1, <2>2 DEF Adds
  <2>5. s # {} => ch(s) \in s
    OBVIOUS
  <2> HIDE DEF ch
  <2> QED BY <2>1, <2>3, <2>4, <2>5
<1> HIDE DEF ch
<1>2. 0 \in T
  <2> SUFFICES ASSUME NEW s \in SUBSET R, Cardinality(s) <= 0 PROVE g[s] = k[s]
    OBVIOUS
  <2>1. IsFiniteSet(s) /\ Cardinality(s) = 0
    BY <1>0
  <2>2. s = {}
    BY <2>1, FS_EmptySet
  <2> QED BY <1>1, <2>2
<1>3. ASSUME NEW n \in T PROVE n + 1 \in T
  <2>0. n \in Nat /\ \A s \in SUBSET R : Cardinality(s) <= n => g[s] = k[s]
    BY <1>3
  <2> SUFFICES ASSUME NEW s \in SUBSET R, Cardinality(s) <= n + 1 PROVE g[s] = k[s]
    BY <2>0
  <2> HIDE DEF T
  <2>1. CASE s = {}
    BY <1>1, <2>1
  <2>2. CASE s # {}
    <3> DEFINE r == s \ {ch(s)}
    <3>1. ch(s) \in s /\ g[s] = f[ch(s)] + g[r] /\ k[s] = h[ch(s)] + k[r]
      BY <1>1, <2>2
    <3>2. Cardinality(s) \in Nat \ {0} /\ Cardinality(r) = Cardinality(s) - 1 /\ r \in SUBSET R
      BY <1>0, <3>1, OneLess
    <3>3. Cardinality(r) <= n
      BY <2>0, <3>2
    <3>4. g[r] = k[r]
      BY <2>0, <3>2, <3>3
    <3>5. f[ch(s)] = h[ch(s)]
      BY <3>1
    <3> QED BY <3>1, <3>4, <3>5
  <2> QED BY <2>1, <2>2
<1> HIDE DEF T
<1>4. T = Nat
  <2>1. T \subseteq Nat
    BY DEF T
  <2> QED BY <1>2, <1>3, <2>1, NatSetInduction
<1> SUFFICES ASSUME NEW s \in SUBSET R PROVE g[s] = k[s]
  OBVIOUS
<1>5. Cardinality(s) \in T /\ Cardinality(s) <= Cardinality(s)
  BY <1>0, <1>4
<1> QED BY <1>5 DEF T

\* SumOf is computed by such a function.
LEMMA SumIsAdded ==
    ASSUME NEW S, IsFiniteSet(S), NEW f, \A x \in S : f[x] \in Int
    PROVE  \E g \in [SUBSET S -> Int] : Adds(g, f, S, Cardinality(S)) /\ SumOf(f, S) = g[S]
<1> DEFINE sum(g, s) == IF s = {} THEN 0
                        ELSE f[CHOOSE x \in s : TRUE] + g[s \ {CHOOSE x \in s : TRUE}]
           it == CHOOSE g : g = [s \in SUBSET S |-> sum(g, s)]
<1>1. SumOf(f, S) = it[S]
  BY DEF SumOf, MapThenSumSet, MapThenFoldSet
<1>2. PICK g \in [SUBSET S -> Int] : Adds(g, f, S, Cardinality(S))
  BY AdderExists
<1>3. g = [s \in SUBSET S |-> sum(g, s)]
  <2>1. ASSUME NEW s \in SUBSET S PROVE g[s] = sum(g, s)
    <3>1. Cardinality(s) <= Cardinality(S)
      BY FS_Subset
    <3> QED BY <1>2, <3>1 DEF Adds
  <2> HIDE DEF sum
  <2> QED BY <2>1
<1>4. it = [s \in SUBSET S |-> sum(it, s)]
  <2> HIDE DEF sum
  <2> QED BY <1>3
<1>5. Adds(it, f, S, Cardinality(S))
  <2>1. \A s \in SUBSET S : it[s] = sum(it, s)
    <3> HIDE DEF sum, it
    <3> QED BY <1>4
  <2> HIDE DEF it
  <2> QED BY <2>1 DEF Adds
<1>6. it[S] = g[S]
  <2> HIDE DEF it, sum
  <2>1. \A s \in SUBSET S : g[s] = it[s]
    BY <1>2, <1>5, AddsUnique
  <2> QED BY <2>1
<1> HIDE DEF it, sum
<1> QED BY <1>1, <1>2, <1>6

\* The sum over a finite set: a number, 0 for no elements, the same for equal
\* values, and any element can be taken out.
LEMMA SumFacts ==
    ASSUME NEW S, IsFiniteSet(S), NEW f, \A x \in S : f[x] \in Int
    PROVE  /\ SumOf(f, S) \in Int
           /\ SumOf(f, {}) = 0
           /\ \A h : (\A x \in S : f[x] = h[x]) => SumOf(h, S) = SumOf(f, S)
           /\ \A x \in S : SumOf(f, S) = f[x] + SumOf(f, S \ {x})
<1>1. ASSUME NEW R \in SUBSET S, NEW h, \A x \in R : f[x] = h[x],
             NEW g, Adds(g, f, S, Cardinality(S))
      PROVE  SumOf(h, R) = g[R]
  <2>1. IsFiniteSet(R) /\ \A x \in R : h[x] \in Int
    BY <1>1, FS_Subset
  <2>2. PICK k \in [SUBSET R -> Int] : Adds(k, h, R, Cardinality(R)) /\ SumOf(h, R) = k[R]
    BY <2>1, SumIsAdded
  <2>3. \A s \in SUBSET R : g[s] = k[s]
    BY <1>1, <2>2, AddsUnique
  <2> QED BY <2>2, <2>3
<1>2. PICK g \in [SUBSET S -> Int] : Adds(g, f, S, Cardinality(S))
  BY AdderExists
<1>3. \A R \in SUBSET S : SumOf(f, R) = g[R] /\ g[R] \in Int
  BY <1>1, <1>2
<1>4. \A h : (\A x \in S : f[x] = h[x]) => SumOf(h, S) = SumOf(f, S)
  BY <1>1, <1>2
<1> DEFINE ch(s) == CHOOSE x \in s : TRUE
<1>5. \A s \in SUBSET S : IsFiniteSet(s) /\ Cardinality(s) \in Nat /\ Cardinality(s) <= Cardinality(S)
  BY FS_Subset, FS_CardinalityType
<1>6. \A s \in SUBSET S : s # {} => ch(s) \in s /\ g[s] = f[ch(s)] + g[s \ {ch(s)}]
  BY <1>2, <1>5 DEF Adds
<1>7. g[{}] = 0
  BY <1>2, <1>5 DEF Adds
<1> HIDE DEF ch
\* The element that is taken out need not be the one the fold chooses.
<1> DEFINE T == {n \in Nat : \A s \in SUBSET S : \A x \in s :
                     Cardinality(s) <= n => g[s] = f[x] + g[s \ {x}]}
<1>8. 0 \in T
  <2> SUFFICES ASSUME NEW s \in SUBSET S, NEW x \in s, Cardinality(s) <= 0 PROVE FALSE
    OBVIOUS
  <2>1. Cardinality(s) \in Nat \ {0}
    BY OneLess
  <2> QED BY <2>1
<1>9. ASSUME NEW n \in T PROVE n + 1 \in T
  <2>0. n \in Nat /\ \A s \in SUBSET S : \A x \in s :
                         Cardinality(s) <= n => g[s] = f[x] + g[s \ {x}]
    BY <1>9
  <2> SUFFICES ASSUME NEW s \in SUBSET S, NEW x \in s, Cardinality(s) <= n + 1
               PROVE  g[s] = f[x] + g[s \ {x}]
    BY <2>0
  <2> HIDE DEF T
  <2> DEFINE y == ch(s)
             r == s \ {x, y}
  <2>1. y \in s /\ g[s] = f[y] + g[s \ {y}]
    BY <1>6
  <2> HIDE DEF y
  <2>2. CASE x = y
    BY <2>1, <2>2
  <2>3. CASE x # y
    <3>1. /\ s \ {x} \in SUBSET S /\ s \ {y} \in SUBSET S /\ Cardinality(s) \in Nat \ {0}
          /\ Cardinality(s \ {x}) = Cardinality(s) - 1 /\ Cardinality(s \ {y}) = Cardinality(s) - 1
      BY <2>1, OneLess
    <3>2. Cardinality(s \ {x}) <= n /\ Cardinality(s \ {y}) <= n
      BY <2>0, <3>1
    <3>3. y \in s \ {x} /\ x \in s \ {y} /\ (s \ {x}) \ {y} = r /\ (s \ {y}) \ {x} = r
      BY <2>1, <2>3
    <3>4. g[s \ {x}] = f[y] + g[r]
      <4> DEFINE q == s \ {x}
      <4>1. q \in SUBSET S /\ y \in q /\ Cardinality(q) <= n /\ q \ {y} = r
        BY <3>1, <3>2, <3>3
      <4> HIDE DEF q, r
      <4>2. g[q] = f[y] + g[q \ {y}]
        BY <2>0, <4>1
      <4>3. g[q] = f[y] + g[r]
        BY <4>1, <4>2
      <4> QED BY <4>3 DEF q
    <3>5. g[s \ {y}] = f[x] + g[r]
      <4> DEFINE q == s \ {y}
      <4>1. q \in SUBSET S /\ x \in q /\ Cardinality(q) <= n /\ q \ {x} = r
        BY <3>1, <3>2, <3>3
      <4> HIDE DEF q, r
      <4>2. g[q] = f[x] + g[q \ {x}]
        BY <2>0, <4>1
      <4>3. g[q] = f[x] + g[r]
        BY <4>1, <4>2
      <4> QED BY <4>3 DEF q
    <3>6. f[x] \in Int /\ f[y] \in Int /\ g[r] \in Int
      BY <1>2, <2>1
    <3> HIDE DEF r
    <3> QED BY <2>1, <3>4, <3>5, <3>6
  <2> QED BY <2>2, <2>3
<1> HIDE DEF T
<1>10. T = Nat
  <2>1. T \subseteq Nat
    BY DEF T
  <2> QED BY <1>8, <1>9, <2>1, NatSetInduction
<1>11. ASSUME NEW x \in S PROVE g[S] = f[x] + g[S \ {x}]
  <2>1. Cardinality(S) \in T /\ Cardinality(S) <= Cardinality(S)
    BY <1>5, <1>10
  <2> QED BY <2>1 DEF T
<1> QED BY <1>3, <1>4, <1>7, <1>11

-----------------------------------------------------------------------------
(* Paths. *)

\* h is parts[1] \o ... \o parts[i] for every i up to k.
Flattens(h, parts, k) ==
    \A i \in 1 .. Len(parts) : i <= k => h[i] = IF i = 1 THEN parts[i] ELSE h[i - 1] \o parts[i]

\* The recursive function of FlattenSeq exists.
LEMMA FlattenerExists ==
    ASSUME NEW X, NEW parts \in Seq(Seq(X))
    PROVE  \E h \in [1 .. Len(parts) -> Seq(X)] : Flattens(h, parts, Len(parts))
<1> DEFINE n == Len(parts)
           T == {k \in Nat : \E h \in [1 .. n -> Seq(X)] : Flattens(h, parts, k)}
<1>0. n \in Nat /\ \A i \in 1 .. n : parts[i] \in Seq(X)
  OBVIOUS
<1>1. 0 \in T
  <2> DEFINE h == [i \in 1 .. n |-> parts[i]]
  <2>1. h \in [1 .. n -> Seq(X)]
    BY <1>0
  <2>2. Flattens(h, parts, 0)
    BY <1>0 DEF Flattens
  <2> QED BY <2>1, <2>2
<1>2. ASSUME NEW k \in T PROVE k + 1 \in T
  <2>1. k \in Nat
    BY <1>2
  <2>2. PICK h \in [1 .. n -> Seq(X)] : Flattens(h, parts, k)
    BY <1>2
  <2> HIDE DEF T, n
  <2> DEFINE body(i) == IF i = 1 THEN parts[i] ELSE h[i - 1] \o parts[i]
             g == [i \in 1 .. n |-> body(i)]
  <2>3. \A i \in 1 .. n : body(i) \in Seq(X)
    <3> SUFFICES ASSUME NEW i \in 1 .. n, i # 1 PROVE h[i - 1] \o parts[i] \in Seq(X)
      BY <1>0
    <3>1. i - 1 \in 1 .. n
      BY <1>0
    <3>2. h[i - 1] \in Seq(X) /\ parts[i] \in Seq(X)
      BY <1>0, <2>2, <3>1
    <3> QED BY <3>2, ConcatProperties
  <2>4. g \in [1 .. n -> Seq(X)]
    BY <2>3
  <2>5. ASSUME NEW i \in 1 .. n, i <= k + 1, i # 1 PROVE g[i] = g[i - 1] \o parts[i]
    <3>1. i - 1 \in 1 .. n /\ i - 1 <= k
      BY <1>0, <2>1, <2>5
    <3>2. h[i - 1] = body(i - 1)
      BY <2>2, <3>1 DEF Flattens, n
    <3>3. g[i - 1] = body(i - 1) /\ g[i] = body(i)
      BY <3>1
    <3>4. g[i - 1] = h[i - 1]
      BY <3>2, <3>3
    <3> QED BY <2>5, <3>3, <3>4
  <2>6. ASSUME NEW i \in 1 .. n, i = 1 PROVE g[i] = parts[i]
    BY <2>6
  <2> HIDE DEF g
  <2>7. Flattens(g, parts, k + 1)
    BY <2>5, <2>6 DEF Flattens, n
  <2> QED BY <2>1, <2>4, <2>7 DEF T
<1> HIDE DEF T
<1>3. T = Nat
  <2>1. T \subseteq Nat
    BY DEF T
  <2> QED BY <1>1, <1>2, <2>1, NatSetInduction
<1>4. n \in T
  BY <1>0, <1>3
<1> QED BY <1>4 DEF T

\* There is only one.
LEMMA FlattenerUnique ==
    ASSUME NEW parts, Len(parts) \in Nat, NEW h, NEW g,
           Flattens(h, parts, Len(parts)), Flattens(g, parts, Len(parts))
    PROVE  \A i \in 1 .. Len(parts) : h[i] = g[i]
<1> DEFINE n == Len(parts)
           T == {k \in Nat : \A i \in 1 .. n : i <= k => h[i] = g[i]}
<1>0. n \in Nat
  OBVIOUS
<1>1. 0 \in T
  OBVIOUS
<1>2. ASSUME NEW k \in T PROVE k + 1 \in T
  <2>1. k \in Nat /\ \A i \in 1 .. n : i <= k => h[i] = g[i]
    BY <1>2
  <2> SUFFICES ASSUME NEW i \in 1 .. n, i <= k + 1 PROVE h[i] = g[i]
    BY <2>1
  <2>2. CASE i = 1
    BY <2>2 DEF Flattens
  <2>3. CASE i # 1
    <3>1. i - 1 \in 1 .. n /\ i - 1 <= k
      BY <1>0, <2>1, <2>3
    <3>2. h[i] = h[i - 1] \o parts[i] /\ g[i] = g[i - 1] \o parts[i]
      <4>1. i \in 1 .. Len(parts) /\ i <= Len(parts)
        BY <1>0
      <4> QED BY <2>3, <4>1 DEF Flattens
    <3> QED BY <2>1, <3>1, <3>2
  <2> QED BY <2>2, <2>3
<1> HIDE DEF T
<1>3. T = Nat
  <2>1. T \subseteq Nat
    BY DEF T
  <2> QED BY <1>1, <1>2, <2>1, NatSetInduction
<1>4. n \in T
  BY <1>0, <1>3
<1> QED BY <1>0, <1>4 DEF T

\* FlattenSeq is computed by it.
LEMMA FlattenFacts ==
    ASSUME NEW X, NEW parts \in Seq(Seq(X)), parts # <<>>
    PROVE  \E h \in [1 .. Len(parts) -> Seq(X)] :
               Flattens(h, parts, Len(parts)) /\ FlattenSeq(parts) = h[Len(parts)]
<1> DEFINE n == Len(parts)
           body(g, i) == IF i = 1 THEN parts[i] ELSE g[i - 1] \o parts[i]
           it == CHOOSE g : g = [i \in 1 .. n |-> body(g, i)]
<1>0. n \in Nat \ {0}
  OBVIOUS
<1>1. FlattenSeq(parts) = it[n]
  BY <1>0 DEF FlattenSeq
<1>2. PICK h \in [1 .. n -> Seq(X)] : Flattens(h, parts, n)
  BY FlattenerExists
<1>3. h = [i \in 1 .. n |-> body(h, i)]
  <2>1. ASSUME NEW i \in 1 .. n PROVE h[i] = body(h, i)
    <3>1. i \in 1 .. Len(parts) /\ i <= Len(parts)
      BY <1>0
    <3> QED BY <1>2, <3>1 DEF Flattens
  <2> HIDE DEF body
  <2> QED BY <2>1
<1>4. it = [i \in 1 .. n |-> body(it, i)]
  <2> HIDE DEF body
  <2> QED BY <1>3
<1>5. Flattens(it, parts, n)
  <2>1. \A i \in 1 .. n : it[i] = body(it, i)
    <3> HIDE DEF body, it
    <3> QED BY <1>4
  <2> HIDE DEF it
  <2> QED BY <2>1 DEF Flattens
<1> HIDE DEF it, body
<1>6. \A i \in 1 .. n : h[i] = it[i]
  <2>1. Len(parts) \in Nat
    BY <1>0
  <2>2. Flattens(h, parts, Len(parts))
    BY <1>2
  <2>3. Flattens(it, parts, Len(parts))
    BY <1>5
  <2>4. \A i \in 1 .. Len(parts) : h[i] = it[i]
    BY <2>1, <2>2, <2>3, FlattenerUnique
  <2> QED BY <2>4
<1>7. n \in 1 .. n
  BY <1>0
<1>8. FlattenSeq(parts) = h[n]
  BY <1>1, <1>6, <1>7
<1> QED BY <1>2, <1>8

\* The places of a concatenation.
LEMMA ConcatFacts ==
    ASSUME NEW X, NEW a \in Seq(X), NEW b \in Seq(X)
    PROVE  /\ a \o b \in Seq(X) /\ Len(a) \in Nat /\ Len(b) \in Nat
           /\ Len(a \o b) = Len(a) + Len(b)
           /\ \A i \in 1 .. Len(a) : (a \o b)[i] = a[i]
           /\ \A i \in 1 .. Len(b) : (a \o b)[Len(a) + i] = b[i]
<1> DEFINE m == Len(a)
           n == Len(b)
           c == a \o b
<1>1. /\ c \in Seq(X) /\ Len(c) = m + n /\ m \in Nat /\ n \in Nat
      /\ \A i \in 1 .. m + n : c[i] = IF i <= m THEN a[i] ELSE b[i - m]
  BY ConcatProperties, LenProperties
<1> HIDE DEF m, n, c
<1>2. \A i \in 1 .. m : c[i] = a[i]
  BY <1>1
<1>3. ASSUME NEW i \in 1 .. n PROVE c[m + i] = b[i]
  <2>1. m + i \in 1 .. m + n /\ ~(m + i <= m) /\ (m + i) - m = i
    BY <1>1
  <2> QED BY <1>1, <2>1
<1> QED BY <1>1, <1>2, <1>3 DEF m, n, c

\* Joined, one part at a time.
LEMMA JoinedFacts ==
    ASSUME NEW X, NEW parts \in Seq(Seq(X)), parts # <<>>, NEW sep \in X
    PROVE  \E h \in [1 .. Len(parts) -> Seq(X)] :
               /\ h[1] = parts[1]
               /\ \A i \in 2 .. Len(parts) : h[i] = h[i - 1] \o (<<sep>> \o parts[i])
               /\ Joined(parts, sep) = h[Len(parts)]
<1> DEFINE n == Len(parts)
           ps == [i \in DOMAIN parts |-> IF i = 1 THEN parts[i] ELSE <<sep>> \o parts[i]]
<1>0. n \in Nat \ {0} /\ DOMAIN parts = 1 .. n /\ \A i \in 1 .. n : parts[i] \in Seq(X)
  OBVIOUS
<1>1. \A i \in 1 .. n : (IF i = 1 THEN parts[i] ELSE <<sep>> \o parts[i]) \in Seq(X)
  <2>1. <<sep>> \in Seq(X)
    OBVIOUS
  <2> QED BY <1>0, <2>1, ConcatProperties
<1>2. ps \in [1 .. n -> Seq(X)]
  BY <1>0, <1>1
<1>3. ps \in Seq(Seq(X)) /\ Len(ps) = n /\ ps # <<>>
  <2> HIDE DEF n, ps
  <2>1. ps \in Seq(Seq(X))
    BY <1>0, <1>2, SeqDef
  <2>2. Len(ps) = n
    BY <1>0, <1>2, <2>1, LenProperties
  <2> QED BY <1>0, <2>1, <2>2
<1>4. \A i \in 1 .. n : ps[i] = IF i = 1 THEN parts[i] ELSE <<sep>> \o parts[i]
  BY <1>0
<1>5. Joined(parts, sep) = FlattenSeq(ps)
  BY DEF Joined
<1> HIDE DEF ps, n
<1>6. PICK h \in [1 .. n -> Seq(X)] : Flattens(h, ps, n) /\ FlattenSeq(ps) = h[n]
  BY <1>3, FlattenFacts
<1>7. h[1] = parts[1]
  <2>1. 1 \in 1 .. n /\ 1 <= n
    BY <1>0
  <2> QED BY <1>3, <1>4, <1>6, <2>1 DEF Flattens
<1>8. ASSUME NEW i \in 2 .. n PROVE h[i] = h[i - 1] \o (<<sep>> \o parts[i])
  <2>1. i \in 1 .. n /\ i <= n /\ i # 1
    BY <1>0
  <2>2. h[i] = h[i - 1] \o ps[i]
    BY <1>3, <1>6, <2>1 DEF Flattens
  <2> QED BY <1>4, <2>1, <2>2
<1> QED BY <1>5, <1>6, <1>7, <1>8 DEF n

\* What paths are made of.
Tokens == Words \cup {".", "/"}

\* t is the text of words w with dots between them.
IsDotted(t, w) ==
    /\ w \in Seq(Words) /\ t \in Seq(Words \cup {"."})
    /\ Len(t) = IF w = <<>> THEN 0 ELSE 2 * Len(w) - 1
    /\ \A i \in 1 .. Len(w) : t[2 * i - 1] = w[i]
    /\ \A i \in 1 .. Len(w) - 1 : t[2 * i] = "."

\* Dotted puts dots between words.
LEMMA DottedFacts ==
    ASSUME NEW w \in Seq(Words)
    PROVE  IsDotted(Dotted(w), w)
<1> DEFINE n == Len(w)
           X == Words \cup {"."}
           parts == [i \in DOMAIN w |-> <<w[i]>>]
<1>0. n \in Nat /\ DOMAIN w = 1 .. n /\ \A i \in 1 .. n : w[i] \in Words
  OBVIOUS
<1>1. Dotted(w) = Joined(parts, ".")
  BY DEF Dotted
<1>2. CASE w = <<>>
  <2>1. parts = <<>>
    BY <1>2
  <2>2. Joined(<<>>, ".") = <<>>
    BY DEF Joined, FlattenSeq
  <2>3. Dotted(w) = <<>>
    BY <1>1, <2>1, <2>2
  <2>4. Len(w) = 0 /\ Len(Dotted(w)) = 0 /\ Dotted(w) \in Seq(X)
    BY <1>2, <2>3, EmptySeq
  <2>5. 1 .. Len(w) = {} /\ 1 .. Len(w) - 1 = {}
    BY <2>4
  <2> QED BY <1>2, <2>4, <2>5 DEF IsDotted
<1>3. CASE w # <<>>
  <2>0. n \in Nat \ {0}
    BY <1>0, <1>3
  <2>1. parts \in [1 .. n -> Seq(X)]
    BY <1>0
  <2>2. parts \in Seq(Seq(X)) /\ Len(parts) = n /\ parts # <<>>
    <3> HIDE DEF n, parts, X
    <3>1. parts \in Seq(Seq(X))
      BY <2>0, <2>1, SeqDef
    <3>2. Len(parts) = n
      BY <2>0, <2>1, <3>1, LenProperties
    <3> QED BY <2>0, <3>1, <3>2
  <2>3. \A i \in 1 .. n : parts[i] = <<w[i]>>
    BY <1>0
  <2>4. "." \in X
    OBVIOUS
  <2>w. \A i \in 1 .. n : w[i] \in X
    BY <1>0
  <2> HIDE DEF parts, X
  <2>5. PICK h \in [1 .. n -> Seq(X)] :
             /\ h[1] = parts[1]
             /\ \A i \in 2 .. n : h[i] = h[i - 1] \o (<<".">> \o parts[i])
             /\ Joined(parts, ".") = h[n]
    <3>1. \E h \in [1 .. Len(parts) -> Seq(X)] :
               /\ h[1] = parts[1]
               /\ \A i \in 2 .. Len(parts) : h[i] = h[i - 1] \o (<<".">> \o parts[i])
               /\ Joined(parts, ".") = h[Len(parts)]
      BY <2>2, <2>4, JoinedFacts
    <3> HIDE DEF n
    <3> QED BY <2>2, <3>1
  <2> HIDE DEF n
  \* After i words there are 2 * i - 1 tokens.
  <2> DEFINE Upto(i) == /\ Len(h[i]) = 2 * i - 1
                        /\ \A j \in 1 .. i : h[i][2 * j - 1] = w[j]
                        /\ \A j \in 1 .. i - 1 : h[i][2 * j] = "."
             T == {k \in Nat : \A i \in 1 .. n : i <= k => Upto(i)}
  <2>6. 0 \in T
    OBVIOUS
  <2>7. ASSUME NEW k \in T PROVE k + 1 \in T
    <3>1. k \in Nat /\ \A i \in 1 .. n : i <= k => Upto(i)
      BY <2>7
    <3> SUFFICES ASSUME NEW i \in 1 .. n, i <= k + 1 PROVE Upto(i)
      BY <3>1
    <3>2. CASE i = 1
      <4>1. h[1] = <<w[1]>>
        BY <2>3, <2>5, <3>2
      <4> QED BY <3>2, <4>1
    <3>3. CASE i # 1
      <4>1. i - 1 \in 1 .. n /\ i - 1 <= k /\ i \in 2 .. n
        BY <2>0, <3>1, <3>3
      <4>2. Upto(i - 1)
        BY <3>1, <4>1
      <4> DEFINE a == h[i - 1]
                 b == <<".">> \o <<w[i]>>
      <4>3. a \in Seq(X) /\ <<".">> \in Seq(X) /\ <<w[i]>> \in Seq(X)
        BY <2>4, <2>w, <2>5, <4>1
      <4>b. b \in Seq(X) /\ Len(b) = 2 /\ b[1] = "." /\ b[2] = w[i]
        <5> DEFINE c == <<".">>
                   d == <<w[i]>>
        <5>1. Len(c) = 1 /\ Len(d) = 1 /\ c[1] = "." /\ d[1] = w[i]
          OBVIOUS
        <5>2. /\ c \o d \in Seq(X) /\ Len(c \o d) = Len(c) + Len(d)
              /\ \A k_1 \in 1 .. Len(c) : (c \o d)[k_1] = c[k_1]
              /\ \A k_1 \in 1 .. Len(d) : (c \o d)[Len(c) + k_1] = d[k_1]
          BY <4>3, ConcatFacts
        <5> HIDE DEF c, d
        <5>3. /\ c \o d \in Seq(X) /\ Len(c \o d) = 2
              /\ (c \o d)[1] = "." /\ (c \o d)[2] = w[i]
          <6>1. 1 \in 1 .. Len(c) /\ 1 \in 1 .. Len(d) /\ Len(c) + 1 = 2 /\ Len(c) + Len(d) = 2
            BY <5>1
          <6> QED BY <5>1, <5>2, <6>1
        <5> QED BY <5>3 DEF c, d
      <4>4. h[i] = a \o b
        BY <2>3, <2>5, <4>1
      <4>5. /\ Len(a) = 2 * (i - 1) - 1
            /\ \A j \in 1 .. i - 1 : a[2 * j - 1] = w[j]
            /\ \A j \in 1 .. (i - 1) - 1 : a[2 * j] = "."
        BY <4>2
      <4> HIDE DEF a, b
      <4>6. /\ Len(h[i]) = Len(a) + 2
            /\ \A j \in 1 .. Len(a) : h[i][j] = a[j]
            /\ h[i][Len(a) + 1] = "." /\ h[i][Len(a) + 2] = w[i]
        <5>0. a \in Seq(X) /\ b \in Seq(X)
          BY <4>3, <4>b
        <5>1. 1 \in 1 .. Len(b) /\ 2 \in 1 .. Len(b)
          BY <4>b
        <5>2. /\ Len(a \o b) = Len(a) + Len(b)
              /\ \A j \in 1 .. Len(a) : (a \o b)[j] = a[j]
              /\ \A j \in 1 .. Len(b) : (a \o b)[Len(a) + j] = b[j]
          BY <5>0, ConcatFacts
        <5> QED BY <4>b, <4>4, <5>1, <5>2
      <4>7. Len(h[i]) = 2 * i - 1
        BY <4>5, <4>6
      <4>8. ASSUME NEW j \in 1 .. i PROVE h[i][2 * j - 1] = w[j]
        <5>1. CASE j = i
          <6>1. 2 * j - 1 = Len(a) + 2
            BY <4>5, <5>1
          <6> QED BY <4>6, <5>1, <6>1
        <5>2. CASE j # i
          <6>1. j \in 1 .. i - 1 /\ 2 * j - 1 \in 1 .. Len(a)
            BY <4>5, <5>2
          <6> QED BY <4>5, <4>6, <6>1
        <5> QED BY <5>1, <5>2
      <4>9. ASSUME NEW j \in 1 .. i - 1 PROVE h[i][2 * j] = "."
        <5>1. CASE j = i - 1
          <6>1. 2 * j = Len(a) + 1
            BY <4>5, <5>1
          <6> QED BY <4>6, <6>1
        <5>2. CASE j # i - 1
          <6>1. j \in 1 .. (i - 1) - 1 /\ 2 * j \in 1 .. Len(a)
            BY <4>5, <5>2
          <6> QED BY <4>5, <4>6, <6>1
        <5> QED BY <5>1, <5>2
      <4> QED BY <4>7, <4>8, <4>9
    <3> QED BY <3>2, <3>3
  <2> HIDE DEF T
  <2>8. T = Nat
    <3>1. T \subseteq Nat
      BY DEF T
    <3> QED BY <2>6, <2>7, <3>1, NatSetInduction
  <2>9. n \in T /\ n \in 1 .. n /\ n <= n
    BY <2>0, <2>8
  <2>10. Upto(n)
    BY <2>9 DEF T
  <2>11. Dotted(w) = h[n] /\ h[n] \in Seq(X)
    BY <1>1, <2>5, <2>9
  <2> QED BY <1>3, <2>10, <2>11 DEF IsDotted, n, X
<1> QED BY <1>2, <1>3

\* Places p + 1 to q of s are the text of words w.
Holds(s, p, q, w) ==
    /\ p \in Nat /\ q \in Nat /\ p <= q /\ w \in Seq(Words)
    /\ q - p = IF w = <<>> THEN 0 ELSE 2 * Len(w) - 1
    /\ \A i \in 1 .. Len(w) : s[p + (2 * i - 1)] = w[i]
    /\ \A i \in 1 .. Len(w) - 1 : s[p + 2 * i] = "."
    /\ \A j \in p + 1 .. q : s[j] \in Words \cup {"."}

\* s is a path whose last part, after place p, is the text of words w.
EndsIn(s, p, w) ==
    /\ s \in Seq(Tokens) /\ Holds(s, p, Len(s), w)
    /\ p # 0 => s[p] = "/"

\* Cutting out those places gives the text of the words.
LEMMA CutOut ==
    ASSUME NEW s, NEW p, NEW q, NEW w, Holds(s, p, q, w)
    PROVE  IsDotted(SubSeq(s, p + 1, q), w)
<1> DEFINE t == SubSeq(s, p + 1, q)
           X == Words \cup {"."}
           n == Len(w)
<1>0. p \in Nat /\ q \in Nat /\ p <= q /\ p + 1 \in Int /\ q \in Int /\ n \in Nat
  BY DEF Holds
<1>1. \A j \in p + 1 .. q : s[j] \in X
  BY DEF Holds
<1> HIDE DEF X
<1>2. /\ t \in Seq(X)
      /\ Len(t) = IF p + 1 <= q THEN q - (p + 1) + 1 ELSE 0
      /\ \A i \in 1 .. q - (p + 1) + 1 : t[i] = s[(p + 1) + i - 1]
  BY <1>0, <1>1, SubSeqProperties
<1> SUFFICES IsDotted(t, w)
  OBVIOUS
<1> HIDE DEF t, n
<1>3. Len(t) = q - p /\ \A i \in 1 .. q - p : t[i] = s[p + i]
  <2>1. Len(t) = q - p
    BY <1>0, <1>2
  <2>2. ASSUME NEW i \in 1 .. q - p PROVE t[i] = s[p + i]
    <3>1. i \in 1 .. q - (p + 1) + 1 /\ (p + 1) + i - 1 = p + i
      BY <1>0
    <3> QED BY <1>2, <3>1
  <2> QED BY <2>1, <2>2
<1>4. CASE w = <<>>
  <2>1. Len(t) = 0 /\ Len(w) = 0
    BY <1>3, <1>4 DEF Holds
  <2>2. 1 .. Len(w) = {} /\ 1 .. Len(w) - 1 = {}
    BY <2>1
  <2> QED BY <1>2, <1>4, <2>1, <2>2 DEF IsDotted, Holds, X
<1>5. CASE w # <<>>
  <2>1. q - p = 2 * n - 1 /\ Len(t) = 2 * n - 1
    BY <1>3, <1>5 DEF Holds, n
  <2>2. ASSUME NEW i \in 1 .. n PROVE t[2 * i - 1] = w[i]
    <3>1. 2 * i - 1 \in 1 .. q - p
      BY <1>0, <2>1
    <3>2. t[2 * i - 1] = s[p + (2 * i - 1)]
      BY <1>3, <3>1
    <3> QED BY <3>2 DEF Holds, n
  <2>3. ASSUME NEW i \in 1 .. n - 1 PROVE t[2 * i] = "."
    <3>1. 2 * i \in 1 .. q - p
      BY <1>0, <2>1
    <3>2. t[2 * i] = s[p + 2 * i]
      BY <1>3, <3>1
    <3> QED BY <3>2 DEF Holds, n
  <2>4. w \in Seq(Words)
    BY DEF Holds
  <2>5. t \in Seq(Words \cup {"."})
    BY <1>2 DEF X
  <2>6. \A i \in 1 .. Len(w) : t[2 * i - 1] = w[i]
    BY <2>2 DEF n
  <2>7. \A i \in 1 .. Len(w) - 1 : t[2 * i] = "."
    BY <2>3 DEF n
  <2>8. Len(t) = IF w = <<>> THEN 0 ELSE 2 * Len(w) - 1
    BY <1>5, <2>1 DEF n
  <2> QED BY <2>4, <2>5, <2>6, <2>7, <2>8 DEF IsDotted
<1> QED BY <1>4, <1>5

\* The text of words, put after s, and then anything after that.
LEMMA PutAfter ==
    ASSUME NEW s \in Seq(Tokens), NEW t, NEW w, IsDotted(t, w)
    PROVE  /\ s \o t \in Seq(Tokens) /\ Len(s \o t) = Len(s) + Len(t)
           /\ Holds(s \o t, Len(s), Len(s \o t), w)
           /\ \A i \in 1 .. Len(s) : (s \o t)[i] = s[i]
<1> DEFINE u == s \o t
           m == Len(s)
           n == Len(w)
<1>1. t \in Seq(Words \cup {"."}) /\ w \in Seq(Words) /\ n \in Nat
  BY DEF IsDotted
<1>2. t \in Seq(Tokens)
  BY <1>1 DEF Tokens
<1>3. /\ u \in Seq(Tokens) /\ m \in Nat /\ Len(t) \in Nat /\ Len(u) = m + Len(t)
      /\ \A i \in 1 .. m : u[i] = s[i]
      /\ \A i \in 1 .. Len(t) : u[m + i] = t[i]
  BY <1>2, ConcatFacts
<1> HIDE DEF u, m
<1>4. ASSUME NEW i \in 1 .. n PROVE u[m + (2 * i - 1)] = w[i]
  <2>1. w # <<>>
    BY <1>1
  <2>2. Len(t) = 2 * n - 1
    BY <2>1 DEF IsDotted
  <2>3. 2 * i - 1 \in 1 .. Len(t)
    BY <1>1, <2>2
  <2>4. t[2 * i - 1] = w[i]
    BY DEF IsDotted
  <2> QED BY <1>3, <2>3, <2>4
<1>5. ASSUME NEW i \in 1 .. n - 1 PROVE u[m + 2 * i] = "."
  <2>1. w # <<>>
    BY <1>1
  <2>2. Len(t) = 2 * n - 1
    BY <2>1 DEF IsDotted
  <2>3. 2 * i \in 1 .. Len(t)
    BY <1>1, <2>2
  <2>4. t[2 * i] = "."
    BY DEF IsDotted
  <2> QED BY <1>3, <2>3, <2>4
<1>6. ASSUME NEW j \in m + 1 .. Len(u) PROVE u[j] \in Words \cup {"."}
  <2>1. j - m \in 1 .. Len(t) /\ m + (j - m) = j
    BY <1>3
  <2>2. u[j] = t[j - m]
    BY <1>3, <2>1
  <2>3. t[j - m] \in Words \cup {"."}
    BY <1>1, <2>1
  <2> QED BY <2>2, <2>3
<1>7. Len(u) - m = IF w = <<>> THEN 0 ELSE 2 * n - 1
  <2>1. Len(u) - m = Len(t)
    BY <1>3
  <2> QED BY <2>1 DEF IsDotted
<1>8. m <= Len(u) /\ Len(u) \in Nat
  BY <1>3
<1>9. Holds(u, m, Len(u), w)
  BY <1>1, <1>3, <1>4, <1>5, <1>6, <1>7, <1>8 DEF Holds
<1> QED BY <1>3, <1>9 DEF u, m

\* What is put after it leaves the text of words in its places.
LEMMA HoldsStays ==
    ASSUME NEW s, NEW u, NEW p, NEW q, NEW w, Holds(s, p, q, w), \A i \in 1 .. q : u[i] = s[i]
    PROVE  Holds(u, p, q, w)
<1> DEFINE n == Len(w)
<1>0. p \in Nat /\ q \in Nat /\ p <= q /\ n \in Nat
  BY DEF Holds
<1>1. ASSUME NEW i \in 1 .. n PROVE u[p + (2 * i - 1)] = w[i]
  <2>1. w # <<>>
    BY <1>0
  <2>2. q - p = 2 * n - 1
    BY <2>1 DEF Holds
  <2>3. p + (2 * i - 1) \in 1 .. q
    BY <1>0, <2>2
  <2> QED BY <2>3 DEF Holds
<1>2. ASSUME NEW i \in 1 .. n - 1 PROVE u[p + 2 * i] = "."
  <2>1. w # <<>>
    BY <1>0
  <2>2. q - p = 2 * n - 1
    BY <2>1 DEF Holds
  <2>3. p + 2 * i \in 1 .. q
    BY <1>0, <2>2
  <2> QED BY <2>3 DEF Holds
<1>3. ASSUME NEW j \in p + 1 .. q PROVE u[j] \in Words \cup {"."}
  <2>1. j \in 1 .. q
    BY <1>0
  <2> QED BY <2>1 DEF Holds
<1> QED BY <1>1, <1>2, <1>3 DEF Holds

-----------------------------------------------------------------------------
(* Finding the parts of a path. *)

\* rfind returns the last place of c, or 0 where there is none.
LEMMA RfindFacts ==
    ASSUME NEW s, NEW c, NEW from \in Nat
    PROVE  /\ rfind(s, c, from) \in 0 .. from
           /\ rfind(s, c, from) # 0 => s[rfind(s, c, from)] = c
           /\ \A i \in 1 .. from : i > rfind(s, c, from) => s[i] # c
<1> DEFINE LastAt(k, m) == /\ k \in 0 .. m /\ (k # 0 => s[k] = c)
                           /\ \A i \in 1 .. m : i > k => s[i] # c
           T == {m \in Nat : \E k \in Nat : LastAt(k, m)}
<1>1. 0 \in T
  <2>1. LastAt(0, 0)
    OBVIOUS
  <2> QED BY <2>1
<1>2. ASSUME NEW m \in T PROVE m + 1 \in T
  <2>1. m \in Nat
    BY <1>2
  <2>2. PICK k \in Nat : LastAt(k, m)
    BY <1>2
  <2>3. CASE s[m + 1] = c
    <3>1. LastAt(m + 1, m + 1)
      BY <2>1, <2>3
    <3> QED BY <2>1, <3>1
  <2>4. CASE s[m + 1] # c
    <3>1. LastAt(k, m + 1)
      <4>1. k \in 0 .. m + 1
        BY <2>1, <2>2
      <4>2. ASSUME NEW i \in 1 .. m + 1, i > k PROVE s[i] # c
        <5>1. i \in 1 .. m \/ i = m + 1
          BY <2>1
        <5> QED BY <2>2, <2>4, <4>2, <5>1
      <4> QED BY <2>2, <4>1, <4>2
    <3> QED BY <2>1, <3>1
  <2> QED BY <2>3, <2>4
<1> HIDE DEF T
<1>3. T = Nat
  <2>1. T \subseteq Nat
    BY DEF T
  <2> QED BY <1>1, <1>2, <2>1, NatSetInduction
<1>4. PICK k \in Nat : LastAt(k, from)
  BY <1>3 DEF T
<1> DEFINE S == {i \in 1 .. from : s[i] = c} \cup {0}
<1>5. k \in S /\ \A y \in S : k >= y
  BY <1>4
<1>6. S \subseteq Nat
  OBVIOUS
<1> DEFINE r == CHOOSE x \in S : \A y \in S : x >= y
<1>7. rfind(s, c, from) = r
  BY DEF rfind, Max
<1> HIDE DEF S
<1>8. rfind(s, c, from) = k
  <2>1. r \in S /\ \A y \in S : r >= y
    BY <1>5
  <2> HIDE DEF r
  <2>2. r >= k /\ k >= r /\ r \in Nat /\ k \in Nat
    BY <1>5, <1>6, <2>1
  <2>3. r = k
    BY <2>2
  <2> QED BY <1>7, <2>3
<1> QED BY <1>4, <1>8

\* The place that it returns is the only one like it.
LEMMA RfindIs ==
    ASSUME NEW s, NEW c, NEW from \in Nat, NEW k \in 0 .. from, k # 0 => s[k] = c,
           \A i \in 1 .. from : i > k => s[i] # c
    PROVE  rfind(s, c, from) = k
<1> DEFINE r == rfind(s, c, from)
<1>1. r \in 0 .. from /\ (r # 0 => s[r] = c) /\ \A i \in 1 .. from : i > r => s[i] # c
  BY RfindFacts
<1> HIDE DEF r
<1>2. ~(r > k)
  BY <1>1
<1>3. ~(k > r)
  BY <1>1
<1>4. r = k
  BY <1>1, <1>2, <1>3
<1> QED BY <1>4 DEF r

\* Where a path ends in words w, the last slash is before them.
LEMMA LastSlash ==
    ASSUME NEW s, NEW p, NEW q, NEW w, Holds(s, p, q, w), p # 0 => s[p] = "/"
    PROVE  rfind(s, "/", q) = p
<1>1. p \in 0 .. q /\ q \in Nat /\ p \in Nat
  BY DEF Holds
<1>2. ASSUME NEW i \in 1 .. q, i > p PROVE s[i] # "/"
  <2>1. i \in p + 1 .. q
    BY <1>1, <1>2
  <2>2. s[i] \in Words \cup {"."}
    BY <2>1 DEF Holds
  <2> QED BY <2>2, IoStatAssumption
<1> QED BY <1>1, <1>2, RfindIs

\* The last dot of a path is before its last word, or before the last slash.
LEMMA LastDot ==
    ASSUME NEW s, NEW p, NEW w, EndsIn(s, p, w)
    PROVE  /\ Len(w) >= 2 => /\ rfind(s, ".", Len(s)) = Len(s) - 1
                             /\ Len(s) = p + 2 * Len(w) - 1
           /\ Len(w) <= 1 => rfind(s, ".", Len(s)) < p \/ rfind(s, ".", Len(s)) = 0
<1> DEFINE q == Len(s)
           n == Len(w)
           r == rfind(s, ".", q)
<1>0. q \in Nat /\ p \in Nat /\ p <= q /\ w \in Seq(Words) /\ n \in Nat
  BY DEF EndsIn, Holds
<1>1. CASE n >= 2
  <2>1. w # <<>>
    BY <1>0, <1>1
  <2>2. q - p = 2 * n - 1
    BY <2>1 DEF EndsIn, Holds
  <2>3. n - 1 \in 1 .. n - 1 /\ p + 2 * (n - 1) = q - 1 /\ q - 1 \in 0 .. q /\ q = p + 2 * n - 1
    BY <1>0, <1>1, <2>2
  <2>4. s[p + 2 * (n - 1)] = "."
    BY <2>3 DEF EndsIn, Holds
  <2>5. n \in 1 .. n /\ p + (2 * n - 1) = q
    BY <1>0, <1>1, <2>2
  <2>6. s[p + (2 * n - 1)] = w[n]
    BY <2>5 DEF EndsIn, Holds
  <2>7. s[q] # "."
    <3>1. s[q] = w[n]
      BY <2>5, <2>6
    <3>2. w[n] \in Words
      BY <1>0, <2>5
    <3> QED BY <3>1, <3>2, IoStatAssumption
  <2>8. s[q - 1] = "."
    BY <2>3, <2>4
  <2>9. ASSUME NEW i \in 1 .. q, i > q - 1 PROVE s[i] # "."
    <3>1. i = q
      BY <1>0, <2>9
    <3> QED BY <2>7, <3>1
  <2>10. r = q - 1
    <3> HIDE DEF q
    <3> QED BY <1>0, <2>3, <2>8, <2>9, RfindIs
  <2> QED BY <1>1, <2>3, <2>10
<1>2. CASE n <= 1
  <2>1. r \in 0 .. q /\ (r # 0 => s[r] = ".")
    <3> HIDE DEF q
    <3> QED BY <1>0, RfindFacts
  <2> HIDE DEF r
  <2>2. ASSUME r # 0, r >= p PROVE FALSE
    <3>1. s[r] = "."
      BY <2>1, <2>2
    <3>2. r # p
      <4> SUFFICES ASSUME r = p PROVE FALSE
        OBVIOUS
      <4>1. s[p] = "/"
        BY <2>2 DEF EndsIn
      <4> QED BY <3>1, <4>1
    <3>3. p < q
      BY <1>0, <2>1, <2>2, <3>2
    <3>4. w # <<>>
      <4> SUFFICES ASSUME w = <<>> PROVE FALSE
        OBVIOUS
      <4>1. q - p = 0
        BY DEF EndsIn, Holds
      <4> QED BY <1>0, <3>3, <4>1
    <3>5. n = 1
      BY <1>0, <1>2, <3>4
    <3>6. q - p = 2 * n - 1
      BY <3>4 DEF EndsIn, Holds
    <3>7. r = p + 1 /\ p + (2 * 1 - 1) = p + 1 /\ 1 \in 1 .. n
      BY <1>0, <2>1, <2>2, <3>2, <3>5, <3>6
    <3>8. s[p + (2 * 1 - 1)] = w[1]
      BY <3>7 DEF EndsIn, Holds
    <3>9. w[1] \in Words
      BY <1>0, <3>7
    <3> QED BY <3>1, <3>7, <3>8, <3>9, IoStatAssumption
  <2>3. r < p \/ r = 0
    BY <1>0, <2>1, <2>2
  <2> QED BY <1>0, <1>2, <2>3 DEF r
<1> QED BY <1>0, <1>1, <1>2

\* The words of a name without its extension.
Stem(w) == IF Len(w) >= 2 THEN SubSeq(w, 1, Len(w) - 1) ELSE w

\* The stem has the same words but the last, and keeps at least one.
LEMMA StemFacts ==
    ASSUME NEW w \in Seq(Words)
    PROVE  /\ Stem(w) \in Seq(Words) /\ Len(w) \in Nat
           /\ Len(Stem(w)) = IF Len(w) >= 2 THEN Len(w) - 1 ELSE Len(w)
           /\ \A i \in 1 .. Len(Stem(w)) : Stem(w)[i] = w[i]
           /\ Stem(w) = <<>> <=> w = <<>>
<1> DEFINE n == Len(w)
<1>0. n \in Nat /\ \A i \in 1 .. n : w[i] \in Words
  OBVIOUS
<1>1. CASE n >= 2
  <2> DEFINE v == SubSeq(w, 1, n - 1)
  <2>1. Stem(w) = v
    BY <1>1 DEF Stem
  <2>2. \A i \in 1 .. n - 1 : w[i] \in Words
    BY <1>0
  <2>3. 1 \in Int /\ n - 1 \in Int
    BY <1>0
  <2>4. /\ v \in Seq(Words)
        /\ Len(v) = IF 1 <= n - 1 THEN (n - 1) - 1 + 1 ELSE 0
        /\ \A i \in 1 .. (n - 1) - 1 + 1 : v[i] = w[1 + i - 1]
    <3> HIDE DEF n
    <3> QED BY <2>2, <2>3, SubSeqProperties
  <2> HIDE DEF v, n
  <2>5. Len(v) = n - 1
    BY <1>0, <1>1, <2>4
  <2>6. ASSUME NEW i \in 1 .. n - 1 PROVE v[i] = w[i]
    <3>1. i \in 1 .. (n - 1) - 1 + 1 /\ 1 + i - 1 = i
      BY <1>0
    <3> QED BY <2>4, <3>1
  <2>7. v # <<>> /\ w # <<>>
    <3>1. Len(v) # 0 /\ Len(w) # 0
      BY <1>0, <1>1, <2>5 DEF n
    <3> QED BY <3>1, EmptySeq
  <2> QED BY <1>0, <1>1, <2>1, <2>4, <2>5, <2>6, <2>7 DEF n
<1>2. CASE ~(n >= 2)
  BY <1>0, <1>2 DEF Stem
<1> QED BY <1>1, <1>2

\* The text of words starts with the first word, and has one token only where
\* there is one word.
LEMMA FirstWord ==
    ASSUME NEW t, NEW w, IsDotted(t, w)
    PROVE  /\ t = <<>> <=> w = <<>>
           /\ w # <<>> => Head(t) = w[1]
           /\ \A x : t = <<x>> <=> Len(w) = 1 /\ w[1] = x
<1> DEFINE n == Len(w)
           X == Words \cup {"."}
<1>0. n \in Nat /\ w \in Seq(Words) /\ t \in Seq(X) /\ Len(t) \in Nat
  BY DEF IsDotted
<1>1. Len(t) = IF w = <<>> THEN 0 ELSE 2 * n - 1
  BY DEF IsDotted
<1>2. w = <<>> <=> n = 0
  BY <1>0, EmptySeq
<1>3. t = <<>> <=> Len(t) = 0
  BY <1>0, EmptySeq
<1>4. t = <<>> <=> w = <<>>
  <2> HIDE DEF n
  <2> QED BY <1>0, <1>1, <1>2, <1>3
<1>5. ASSUME n # 0 PROVE t[1] = w[1]
  <2>1. 1 \in 1 .. Len(w) /\ 2 * 1 - 1 = 1
    BY <1>0, <1>5
  <2>2. t[2 * 1 - 1] = w[1]
    BY <2>1 DEF IsDotted
  <2> QED BY <2>1, <2>2
<1>6. ASSUME w # <<>> PROVE Head(t) = w[1]
  <2>1. t # <<>> /\ n # 0
    BY <1>2, <1>4, <1>6
  <2>2. Head(t) = t[1]
    BY <1>0, <2>1, HeadTailProperties
  <2> QED BY <1>5, <2>1, <2>2
<1>7. ASSUME NEW x, t = <<x>> PROVE n = 1 /\ w[1] = x
  <2>1. Len(t) = 1 /\ t[1] = x
    BY <1>7
  <2>2. n = 1
    <3>1. w # <<>>
      BY <1>1, <2>1
    <3>2. 1 = 2 * n - 1
      BY <1>1, <2>1, <3>1
    <3> HIDE DEF n
    <3> QED BY <1>0, <3>2
  <2> QED BY <1>5, <2>1, <2>2
<1>8. ASSUME NEW x, n = 1, w[1] = x PROVE t = <<x>>
  <2>1. Len(t) = 1 /\ t[1] = x
    <3>1. w # <<>>
      BY <1>2, <1>8
    <3>2. Len(t) = 2 * n - 1
      BY <1>1, <3>1
    <3> QED BY <1>5, <1>8, <3>2
  <2>2. 1 \in 1 .. Len(t)
    BY <2>1
  <2>3. x \in X
    BY <1>0, <2>1, <2>2
  <2>4. <<x>> \in Seq(X) /\ Len(<<x>>) = 1 /\ <<x>>[1] = x
    BY <2>3
  <2>5. \A i \in 1 .. Len(t) : t[i] = <<x>>[i]
    BY <2>1, <2>4
  <2> HIDE DEF X
  <2>6. t \in Seq(X) /\ <<x>> \in Seq(X) /\ Len(t) = Len(<<x>>)
    BY <1>0, <2>1, <2>4
  <2> DEFINE u == <<x>>
  <2> HIDE DEF u
  <2> QED BY <2>5, <2>6, SeqEqual DEF u
<1> QED BY <1>4, <1>6, <1>7, <1>8

\* A name is a path that ends in its words.
LEMMA NameIsPath ==
    ASSUME NEW t, NEW w, IsDotted(t, w)
    PROVE  EndsIn(t, 0, w)
<1>1. <<>> \in Seq(Tokens) /\ Len(<<>>) = 0
  OBVIOUS
<1>2. t \in Seq(Words \cup {"."})
  BY DEF IsDotted
<1>3. t \in Seq(Tokens)
  BY <1>2 DEF Tokens
<1>4. <<>> \o t = t
  BY <1>3, ConcatEmptySeq
<1>5. Holds(<<>> \o t, Len(<<>>), Len(<<>> \o t), w)
  BY <1>1, PutAfter
<1>6. Holds(t, 0, Len(t), w)
  BY <1>1, <1>4, <1>5
<1> QED BY <1>3, <1>6 DEF EndsIn

\* getFileName returns the stem of the last part of the path.
LEMMA FileNameIs ==
    ASSUME NEW s, NEW p, NEW w, EndsIn(s, p, w)
    PROVE  IsDotted(getFileName(s), Stem(w))
<1> DEFINE q == Len(s)
           n == Len(w)
           r == rfind(s, ".", q)
<1>0. /\ q \in Nat /\ p \in Nat /\ p <= q /\ w \in Seq(Words) /\ n \in Nat
      /\ Holds(s, p, q, w) /\ (p # 0 => s[p] = "/")
  BY DEF EndsIn, Holds
<1>1. rfind(s, "/", q) = p
  BY <1>0, LastSlash
<1>2. getFileName(s) = IF r # 0 /\ r > p THEN SubSeq(s, p + 1, r - 1) ELSE SubSeq(s, p + 1, q)
  BY <1>1 DEF getFileName
<1>3. /\ n >= 2 => r = q - 1 /\ q = p + 2 * n - 1
      /\ n <= 1 => r < p \/ r = 0
  BY LastDot
<1>4. CASE n >= 2
  <2> HIDE DEF q, r
  <2>1. r = q - 1 /\ q = p + 2 * n - 1 /\ r # 0 /\ r > p /\ r - 1 = q - 2 /\ q - 2 \in Nat
    BY <1>0, <1>3, <1>4
  <2>2. getFileName(s) = SubSeq(s, p + 1, q - 2)
    BY <1>2, <2>1
  <2> DEFINE v == Stem(w)
  <2>3. v \in Seq(Words) /\ Len(v) = n - 1 /\ \A i \in 1 .. Len(v) : v[i] = w[i]
    BY <1>0, <1>4, StemFacts
  <2> HIDE DEF v
  <2>4. v # <<>>
    BY <1>4, <2>3, EmptySeq
  <2>5. q - 2 - p = 2 * Len(v) - 1 /\ p <= q - 2
    BY <1>0, <1>4, <2>1, <2>3
  <2>6. ASSUME NEW i \in 1 .. Len(v) PROVE s[p + (2 * i - 1)] = v[i]
    <3>1. i \in 1 .. Len(w)
      BY <1>0, <2>3
    <3> QED BY <1>0, <2>3, <3>1 DEF Holds
  <2>7. ASSUME NEW i \in 1 .. Len(v) - 1 PROVE s[p + 2 * i] = "."
    <3>1. i \in 1 .. Len(w) - 1
      BY <1>0, <2>3
    <3> QED BY <1>0, <3>1 DEF Holds
  <2>8. ASSUME NEW j \in p + 1 .. q - 2 PROVE s[j] \in Words \cup {"."}
    <3>1. j \in p + 1 .. q
      BY <1>0
    <3> QED BY <1>0, <3>1 DEF Holds
  <2>9. Holds(s, p, q - 2, v)
    BY <1>0, <2>1, <2>3, <2>4, <2>5, <2>6, <2>7, <2>8 DEF Holds
  <2>10. IsDotted(SubSeq(s, p + 1, q - 2), v)
    BY <2>9, CutOut
  <2> QED BY <2>2, <2>10 DEF v
<1>5. CASE ~(n >= 2)
  <2> HIDE DEF r
  <2>1. ~(r # 0 /\ r > p)
    <3>1. r \in 0 .. q
      BY <1>0, RfindFacts DEF r
    <3>2. r < p \/ r = 0
      BY <1>0, <1>3, <1>5
    <3> QED BY <1>0, <3>1, <3>2
  <2>2. getFileName(s) = SubSeq(s, p + 1, q)
    BY <1>2, <2>1
  <2>3. Stem(w) = w
    BY <1>5 DEF Stem
  <2>4. IsDotted(SubSeq(s, p + 1, q), w)
    BY <1>0, CutOut
  <2> QED BY <2>2, <2>3, <2>4
<1> QED BY <1>4, <1>5

\* checkFileNamePrefix looks at the first word of a name.
LEMMA PrefixIs ==
    ASSUME NEW t, NEW w, IsDotted(t, w)
    PROVE  checkFileNamePrefix(t) <=> w # <<>> /\ w[1] \in LogWords
<1> DEFINE g == getFileName(t)
           v == Stem(w)
<1>1. EndsIn(t, 0, w)
  BY NameIsPath
<1>2. IsDotted(g, v)
  BY <1>1, FileNameIs
<1>3. w \in Seq(Words)
  BY DEF IsDotted
<1>4. v = <<>> <=> w = <<>>
  BY <1>3, StemFacts
<1>5. ASSUME w # <<>> PROVE v[1] = w[1]
  <2>1. v \in Seq(Words) /\ \A i \in 1 .. Len(v) : v[i] = w[i]
    BY <1>3, StemFacts
  <2>2. v # <<>>
    BY <1>4, <1>5
  <2> HIDE DEF v
  <2>3. 1 \in 1 .. Len(v)
    BY <2>1, <2>2
  <2> QED BY <2>1, <2>3
<1>6. checkFileNamePrefix(t) <=> g # <<>> /\ Head(g) \in LogWords
  BY DEF checkFileNamePrefix
<1> HIDE DEF g, v
<1>7. (g = <<>> <=> v = <<>>) /\ (v # <<>> => Head(g) = v[1])
  BY <1>2, FirstWord
<1> QED BY <1>4, <1>5, <1>6, <1>7

\* getFileExt returns a histogram's extension only where it is the last word
\* of a name of several words, wherever else in the path there are dots.
LEMMA FileExtIs ==
    ASSUME NEW s, NEW p, NEW w, EndsIn(s, p, w), NEW e \in exts
    PROVE  getFileExt(s) = <<e>> <=> Len(w) >= 2 /\ w[Len(w)] = e
<1> DEFINE q == Len(s)
           n == Len(w)
           r == rfind(s, ".", q)
<1>0. /\ q \in Nat /\ p \in Nat /\ p <= q /\ w \in Seq(Words) /\ n \in Nat
      /\ Holds(s, p, q, w) /\ (p # 0 => s[p] = "/") /\ s \in Seq(Tokens)
  BY DEF EndsIn, Holds
<1>1. getFileExt(s) = IF r # 0 THEN SubSeq(s, r + 1, q) ELSE <<>>
  BY DEF getFileExt
<1>2. /\ n >= 2 => r = q - 1 /\ q = p + 2 * n - 1
      /\ n <= 1 => r < p \/ r = 0
  BY LastDot
<1>3. r \in 0 .. q
  BY <1>0, RfindFacts
<1>4. \A i \in 1 .. q : s[i] \in Tokens
  BY <1>0
<1> HIDE DEF r, q
<1>5. ASSUME r # 0
      PROVE  LET t == SubSeq(s, r + 1, q)
             IN  Len(t) = q - r /\ \A i \in 1 .. q - r : t[i] = s[r + i]
  <2> DEFINE t == SubSeq(s, r + 1, q)
  <2>1. r + 1 \in Int /\ q \in Int /\ \A i \in r + 1 .. q : s[i] \in Tokens
    BY <1>0, <1>3, <1>4
  <2>2. /\ Len(t) = IF r + 1 <= q THEN q - (r + 1) + 1 ELSE 0
        /\ \A i \in 1 .. q - (r + 1) + 1 : t[i] = s[(r + 1) + i - 1]
    BY <2>1, SubSeqProperties
  <2> HIDE DEF t
  <2>3. Len(t) = q - r
    BY <1>0, <1>3, <2>2
  <2>4. ASSUME NEW i \in 1 .. q - r PROVE t[i] = s[r + i]
    <3>1. i \in 1 .. q - (r + 1) + 1 /\ (r + 1) + i - 1 = r + i
      BY <1>0, <1>3
    <3> QED BY <2>2, <3>1
  <2> QED BY <2>3, <2>4 DEF t
<1> DEFINE t == SubSeq(s, r + 1, q)
<1>6. CASE n >= 2
  <2>1. r = q - 1 /\ r # 0 /\ q - r = 1 /\ r + 1 = q /\ 1 \in 1 .. q - r /\ q - p = 2 * n - 1
    BY <1>0, <1>2, <1>6
  <2>2. getFileExt(s) = t
    BY <1>1, <2>1
  <2>3. Len(t) = 1 /\ t[1] = s[q]
    BY <1>5, <2>1
  <2>4. n \in 1 .. Len(w) /\ p + (2 * n - 1) = q
    BY <1>0, <1>6, <2>1
  <2>5. s[p + (2 * n - 1)] = w[n]
    BY <1>0, <2>4 DEF Holds
  <2>6. t[1] = w[n]
    BY <2>3, <2>4, <2>5
  <2>7. t \in Seq(Tokens)
    <3>1. r + 1 \in Int /\ q \in Int /\ \A i \in r + 1 .. q : s[i] \in Tokens
      BY <1>0, <1>3, <1>4
    <3> QED BY <3>1, SubSeqProperties
  <2> HIDE DEF t, n
  <2>8. t = <<e>> => w[n] = e
    BY <2>6
  <2>9. ASSUME w[n] = e PROVE t = <<e>>
    <3>1. e \in Tokens
      BY <2>3, <2>6, <2>7, <2>9
    <3> DEFINE u == <<e>>
    <3>2. u \in Seq(Tokens) /\ Len(u) = 1 /\ u[1] = e
      BY <3>1
    <3> HIDE DEF u
    <3>3. \A i \in 1 .. Len(t) : t[i] = u[i]
      BY <2>3, <2>6, <2>9, <3>2
    <3>4. Len(t) = Len(u)
      BY <2>3, <3>2
    <3>5. t = u
      BY <2>7, <3>2, <3>3, <3>4, SeqEqual
    <3> QED BY <3>5 DEF u
  <2> QED BY <1>6, <2>2, <2>8, <2>9 DEF n
<1>7. CASE ~(n >= 2)
  <2>1. r < p \/ r = 0
    BY <1>0, <1>2, <1>7
  <2>2. ASSUME getFileExt(s) = <<e>> PROVE FALSE
    <3> DEFINE one == <<e>>
    <3>o. one # <<>> /\ Len(one) = 1 /\ one[1] = e
      OBVIOUS
    <3> HIDE DEF one
    <3>1. r # 0 /\ t = one
      <4> HIDE DEF t
      <4>1. getFileExt(s) = one /\ getFileExt(s) = IF r # 0 THEN t ELSE <<>>
        BY <1>1, <2>2 DEF one, t
      <4> QED BY <3>o, <4>1
    <3>2. Len(t) = q - r /\ \A i \in 1 .. q - r : t[i] = s[r + i]
      BY <1>5, <3>1
    <3>3. Len(t) = 1 /\ t[1] = e
      BY <3>1, <3>o
    <3> HIDE DEF t
    <3>4. q - r = 1 /\ r + 1 = p /\ p # 0 /\ 1 \in 1 .. q - r
      <4>1. q \in Nat /\ p \in Nat /\ p <= q /\ r \in 0 .. q /\ r < p /\ q - r = 1
        BY <1>0, <1>3, <2>1, <3>1, <3>2, <3>3
      <4> QED BY <4>1
    <3>5. s[r + 1] = e
      BY <3>2, <3>3, <3>4
    <3>6. s[p] = "/"
      BY <1>0, <3>4
    <3>7. e = "/"
      BY <3>4, <3>5, <3>6
    <3> QED BY <3>7 DEF exts, LOG, DB
  <2> QED BY <1>7, <2>2
<1> QED BY <1>6, <1>7

\* getParentDir returns the directory the file is in.
LEMMA ParentIs ==
    ASSUME NEW s, NEW p, NEW w, EndsIn(s, p, w)
    PROVE  /\ p <= 1 => getParentDir(s) = <<>>
           /\ \A o, v, x : Holds(s, o, p - 1, v) /\ (o # 0 => s[o] = "/") =>
                  (getParentDir(s) = <<x>> <=> Len(v) = 1 /\ v[1] = x)
<1>0. p \in Nat /\ Holds(s, p, Len(s), w) /\ (p # 0 => s[p] = "/")
  BY DEF EndsIn, Holds
<1>1. rfind(s, "/", Len(s)) = p
  BY <1>0, LastSlash
<1>2. getParentDir(s) = IF p <= 1 THEN <<>> ELSE SubSeq(s, rfind(s, "/", p - 1) + 1, p - 1)
  BY <1>1 DEF getParentDir
<1>3. ASSUME NEW o, NEW v, NEW x, Holds(s, o, p - 1, v), o # 0 => s[o] = "/"
      PROVE  getParentDir(s) = <<x>> <=> Len(v) = 1 /\ v[1] = x
  <2>1. CASE p <= 1
    <3>1. getParentDir(s) = <<>>
      BY <1>2, <2>1
    <3>2. <<>> # <<x>>
      OBVIOUS
    <3>3. Len(v) # 1
      <4>1. o \in Nat /\ o <= p - 1 /\ p - 1 \in Nat /\ v \in Seq(Words)
        BY <1>3 DEF Holds
      <4>2. (p - 1) - o = 0
        BY <1>0, <2>1, <4>1
      <4> SUFFICES ASSUME Len(v) = 1 PROVE FALSE
        OBVIOUS
      <4>3. v # <<>>
        BY EmptySeq
      <4>4. (p - 1) - o = 2 * Len(v) - 1
        BY <1>3, <4>3 DEF Holds
      <4> QED BY <4>2, <4>4
    <3> QED BY <3>1, <3>2, <3>3
  <2>2. CASE ~(p <= 1)
    <3>1. rfind(s, "/", p - 1) = o
      BY <1>3, LastSlash
    <3>2. getParentDir(s) = SubSeq(s, o + 1, p - 1)
      BY <1>2, <2>2, <3>1
    <3>3. IsDotted(SubSeq(s, o + 1, p - 1), v)
      BY <1>3, CutOut
    <3>4. IsDotted(getParentDir(s), v)
      BY <3>2, <3>3
    <3> QED BY <3>4, FirstWord
  <2> QED BY <2>1, <2>2
<1> QED BY <1>2, <1>3

\* A slash and a name after a path make a path that ends in the name.
LEMMA SlashAfter ==
    ASSUME NEW u \in Seq(Tokens), NEW t, NEW w, IsDotted(t, w)
    PROVE  /\ EndsIn(u \o (<<"/">> \o t), Len(u) + 1, w)
           /\ \A i \in 1 .. Len(u) : (u \o (<<"/">> \o t))[i] = u[i]
<1> DEFINE d == <<"/">>
           c == u \o d
           v == c \o t
           m == Len(u)
<1>1. d \in Seq(Tokens) /\ Len(d) = 1 /\ d[1] = "/"
  BY DEF Tokens
<1>t. t \in Seq(Tokens)
  <2>1. t \in Seq(Words \cup {"."})
    BY DEF IsDotted
  <2> QED BY <2>1 DEF Tokens
<1> HIDE DEF d
<1>v. v = u \o (d \o t)
  BY <1>1, <1>t, ConcatAssociative
<1>2. /\ c \in Seq(Tokens) /\ m \in Nat /\ Len(c) = m + Len(d)
      /\ \A i \in 1 .. m : c[i] = u[i]
      /\ \A i \in 1 .. Len(d) : c[m + i] = d[i]
  <2>1. d \in Seq(Tokens)
    BY <1>1
  <2> QED BY <2>1, ConcatFacts
<1> HIDE DEF c, m
<1>3. Len(c) = m + 1 /\ c[m + 1] = "/"
  <2>1. 1 \in 1 .. Len(d)
    BY <1>1
  <2> QED BY <1>1, <1>2, <2>1
<1>4. /\ v \in Seq(Tokens) /\ Holds(v, Len(c), Len(v), w)
      /\ \A i \in 1 .. Len(c) : v[i] = c[i]
  BY <1>2, PutAfter
<1> HIDE DEF v
<1>5. m + 1 \in 1 .. Len(c)
  BY <1>2, <1>3
<1>6. EndsIn(v, m + 1, w)
  BY <1>3, <1>4, <1>5 DEF EndsIn
<1>7. ASSUME NEW i \in 1 .. m PROVE v[i] = u[i]
  <2>1. i \in 1 .. Len(c)
    BY <1>2, <1>3
  <2> QED BY <1>2, <1>4, <2>1
<1> DEFINE x == u \o (d \o t)
<1>8. v = x
  BY <1>v DEF v, c
<1>9. EndsIn(x, Len(u) + 1, w) /\ \A i \in 1 .. Len(u) : x[i] = u[i]
  <2> HIDE DEF x
  <2> QED BY <1>6, <1>7, <1>8 DEF m
<1> QED BY <1>9 DEF d

\* Three sequences in a row.
Regroup(a, b, c) == (a \o b) \o c = a \o (b \o c)

\* It does not matter which two are joined first.
LEMMA RegroupFacts ==
    ASSUME NEW a, NEW b, NEW c, a \in Seq(Tokens), b \in Seq(Tokens), c \in Seq(Tokens)
    PROVE  Regroup(a, b, c)
  BY ConcatAssociative DEF Regroup

\* The path of a file ends in its name, and before it in its directory.
LEMMA TextShape ==
    ASSUME NEW f, f \in [absolute : BOOLEAN, dirs : Seq(Seq(Words)), name : Seq(Words)]
    PROVE  \E p \in Nat :
               /\ EndsIn(Text(f), p, f.name)
               /\ f.dirs = <<>> => p <= 1
               /\ f.dirs # <<>> =>
                      \E o : /\ Holds(Text(f), o, p - 1, f.dirs[Len(f.dirs)])
                             /\ o # 0 => Text(f)[o] = "/"
<1> DEFINE k == Len(f.dirs)
           root == IF f.absolute THEN <<"/">> ELSE <<>>
           word(i) == IF i <= k THEN f.dirs[i] ELSE f.name
           parts == [i \in 1 .. k + 1 |-> Dotted(word(i))]
<1>0. /\ k \in Nat /\ f.name \in Seq(Words) /\ f.dirs \in Seq(Seq(Words))
      /\ \A i \in 1 .. k : f.dirs[i] \in Seq(Words)
  OBVIOUS
<1>1. Text(f) = root \o Joined(parts, "/")
  BY DEF Text
<1>2. root \in Seq(Tokens) /\ Len(root) \in Nat /\ Len(root) <= 1 /\ (Len(root) # 0 => root[Len(root)] = "/")
  <2>1. CASE f.absolute
    <3>1. root = <<"/">>
      BY <2>1
    <3>2. <<"/">> \in Seq(Tokens) /\ Len(<<"/">>) = 1 /\ <<"/">>[1] = "/"
      BY DEF Tokens
    <3> HIDE DEF root
    <3>3. root \in Seq(Tokens) /\ Len(root) = 1 /\ root[1] = "/"
      BY <3>1, <3>2
    <3> QED BY <3>3
  <2>2. CASE ~f.absolute
    <3>1. root = <<>>
      BY <2>2
    <3> QED BY <3>1
  <2> QED BY <2>1, <2>2
<1>3. \A i \in 1 .. k + 1 : word(i) \in Seq(Words)
  BY <1>0
<1>4. f.dirs = <<>> <=> k = 0
  BY <1>0, EmptySeq
<1>5. word(k + 1) = f.name /\ (k # 0 => word(k) = f.dirs[k])
  BY <1>0
<1> HIDE DEF k, root, word
<1>6. \A i \in 1 .. k + 1 : IsDotted(Dotted(word(i)), word(i))
  BY <1>3, DottedFacts
<1>7. \A i \in 1 .. k + 1 : Dotted(word(i)) \in Seq(Tokens)
  <2> SUFFICES ASSUME NEW i \in 1 .. k + 1 PROVE Dotted(word(i)) \in Seq(Tokens)
    OBVIOUS
  <2> DEFINE t == Dotted(word(i))
  <2> HIDE DEF t
  <2>1. t \in Seq(Words \cup {"."})
    BY <1>6 DEF IsDotted, t
  <2>2. t \in Seq(Tokens)
    BY <2>1 DEF Tokens
  <2> QED BY <2>2 DEF t
<1>8. /\ parts \in [1 .. k + 1 -> Seq(Tokens)]
      /\ \A i \in 1 .. k + 1 : parts[i] = Dotted(word(i))
  BY <1>7
<1> HIDE DEF parts
<1>9. parts \in Seq(Seq(Tokens)) /\ Len(parts) = k + 1 /\ parts # <<>>
  <2>0. k + 1 \in Nat
    BY <1>0
  <2>1. parts \in Seq(Seq(Tokens))
    BY <1>8, <2>0, SeqDef
  <2>2. Len(parts) = k + 1
    BY <1>8, <2>0, <2>1, LenProperties
  <2> QED BY <1>0, <2>1, <2>2
<1>10. "/" \in Tokens /\ <<"/">> \in Seq(Tokens)
  BY DEF Tokens
<1>11. PICK h \in [1 .. k + 1 -> Seq(Tokens)] :
            /\ h[1] = parts[1]
            /\ \A i \in 2 .. k + 1 : h[i] = h[i - 1] \o (<<"/">> \o parts[i])
            /\ Joined(parts, "/") = h[k + 1]
  <2>1. \E h \in [1 .. Len(parts) -> Seq(Tokens)] :
             /\ h[1] = parts[1]
             /\ \A i \in 2 .. Len(parts) : h[i] = h[i - 1] \o (<<"/">> \o parts[i])
             /\ Joined(parts, "/") = h[Len(parts)]
    BY <1>9, <1>10, JoinedFacts
  <2> QED BY <1>9, <2>1
\* The path, one part longer each time.
<1> DEFINE Q(i) == root \o h[i]
<1>12. \A i \in 1 .. k + 1 : Q(i) \in Seq(Tokens)
  BY <1>2, <1>11, ConcatProperties
<1>13. EndsIn(Q(1), Len(root), word(1))
  <2>1. 1 \in 1 .. k + 1
    BY <1>0
  <2>2. Q(1) = root \o parts[1] /\ IsDotted(parts[1], word(1))
    BY <1>6, <1>8, <1>11, <2>1
  <2> DEFINE u == root \o parts[1]
  <2>3. /\ u \in Seq(Tokens) /\ Holds(u, Len(root), Len(u), word(1))
        /\ \A i \in 1 .. Len(root) : u[i] = root[i]
    BY <1>2, <2>2, PutAfter
  <2> HIDE DEF u, Q
  <2>4. Len(root) # 0 => u[Len(root)] = "/"
    <3> SUFFICES ASSUME Len(root) # 0 PROVE u[Len(root)] = "/"
      OBVIOUS
    <3>1. Len(root) \in 1 .. Len(root)
      BY <1>2
    <3> QED BY <1>2, <2>3, <3>1
  <2>5. EndsIn(u, Len(root), word(1))
    BY <2>3, <2>4 DEF EndsIn
  <2> QED BY <2>2, <2>5 DEF u
<1>14. ASSUME NEW i \in 2 .. k + 1
       PROVE  /\ EndsIn(Q(i), Len(Q(i - 1)) + 1, word(i))
              /\ \A j \in 1 .. Len(Q(i - 1)) : Q(i)[j] = Q(i - 1)[j]
  <2>1. i \in 1 .. k + 1 /\ i - 1 \in 1 .. k + 1
    BY <1>0
  <2>2. h[i] = h[i - 1] \o (<<"/">> \o parts[i])
    BY <1>11
  <2>3. root \in Seq(Tokens) /\ h[i - 1] \in Seq(Tokens)
    BY <1>2, <1>11, <2>1
  <2>4. IsDotted(parts[i], word(i))
    BY <1>6, <1>8, <2>1
  <2> DEFINE a == h[i - 1]
             last == parts[i]
             b == h[i]
             before == Q(i - 1)
             y == Q(i)
  <2>5. a \in Seq(Tokens) /\ root \in Seq(Tokens) /\ IsDotted(last, word(i))
    BY <2>3, <2>4
  <2>6. last \in Seq(Tokens) /\ <<"/">> \in Seq(Tokens)
    BY <1>8, <1>10, <2>1
  <2> DEFINE e == <<"/">> \o last
  <2>7. b = a \o e
    BY <2>2
  <2>8. before = root \o a /\ y = root \o b /\ before \in Seq(Tokens)
    BY <1>12, <2>1
  <2> HIDE DEF Q, a, last, b, before, y
  <2>9. e \in Seq(Tokens)
    BY <2>6, ConcatProperties
  <2>10. before \o e = y
    <3> HIDE DEF e
    <3>1. (root \o a) \o e = root \o (a \o e)
      <4>1. root \in Seq(Tokens)
        BY <2>5
      <4>2. a \in Seq(Tokens)
        BY <2>5
      <4> QED BY <2>9, <4>1, <4>2, RegroupFacts DEF Regroup
    <3> QED BY <2>7, <2>8, <3>1
  <2> DEFINE x == before \o e
  <2>11. EndsIn(x, Len(before) + 1, word(i)) /\ \A j \in 1 .. Len(before) : x[j] = before[j]
    BY <2>5, <2>8, SlashAfter
  <2> HIDE DEF x
  <2>12. x = y
    BY <2>10 DEF x
  <2>13. EndsIn(y, Len(before) + 1, word(i)) /\ \A j \in 1 .. Len(before) : y[j] = before[j]
    BY <2>11, <2>12
  <2> QED BY <2>13 DEF before, y
<1>15. Text(f) = Q(k + 1)
  BY <1>1, <1>11
<1> HIDE DEF Q
<1>16. CASE k = 0
  <2>1. EndsIn(Text(f), Len(root), f.name)
    <3>1. Q(1) = Q(k + 1) /\ word(1) = word(k + 1)
      BY <1>16
    <3> QED BY <1>5, <1>13, <1>15, <3>1
  <2> QED BY <1>2, <1>4, <1>16, <2>1
<1>17. CASE k # 0
  <2>1. k \in 1 .. k + 1 /\ k + 1 \in 2 .. k + 1 /\ (k + 1) - 1 = k
    BY <1>0, <1>17
  <2> DEFINE u == Q(k)
  <2>2. /\ EndsIn(Text(f), Len(u) + 1, f.name)
        /\ \A j \in 1 .. Len(u) : Text(f)[j] = u[j]
    <3>1. /\ EndsIn(Q(k + 1), Len(Q((k + 1) - 1)) + 1, word(k + 1))
          /\ \A j \in 1 .. Len(Q((k + 1) - 1)) : Q(k + 1)[j] = Q((k + 1) - 1)[j]
      BY <1>14, <2>1
    <3> QED BY <1>5, <1>15, <2>1, <3>1
  <2>3. PICK o : EndsIn(u, o, f.dirs[k])
    <3>1. CASE k = 1
      <4>1. EndsIn(Q(k), Len(root), word(k))
        BY <1>13, <3>1
      <4> QED BY <1>5, <1>17, <4>1
    <3>2. CASE k # 1
      <4>1. k \in 2 .. k + 1
        BY <1>0, <1>17, <3>2
      <4>2. EndsIn(Q(k), Len(Q(k - 1)) + 1, word(k))
        BY <1>14, <4>1
      <4> QED BY <1>5, <1>17, <4>2
    <3> QED BY <3>1, <3>2
  <2>4. u \in Seq(Tokens)
    BY <1>12, <2>1
  <2> HIDE DEF u
  <2>5. Len(u) \in Nat /\ Len(u) + 1 \in Nat /\ (Len(u) + 1) - 1 = Len(u)
    BY <2>4
  <2>6. Holds(u, o, Len(u), f.dirs[k]) /\ (o # 0 => u[o] = "/")
    BY <2>3 DEF EndsIn
  <2>7. Holds(Text(f), o, Len(u), f.dirs[k])
    BY <2>2, <2>6, HoldsStays
  <2>8. o # 0 => Text(f)[o] = "/"
    <3> SUFFICES ASSUME o # 0 PROVE Text(f)[o] = "/"
      OBVIOUS
    <3>0. o \in Nat /\ o <= Len(u)
      BY <2>6 DEF Holds
    <3>1. o \in 1 .. Len(u)
      BY <2>5, <3>0
    <3> QED BY <2>2, <2>6, <3>1
  <2>9. Holds(Text(f), o, (Len(u) + 1) - 1, f.dirs[Len(f.dirs)])
    BY <2>5, <2>7 DEF k
  <2> QED BY <1>4, <1>17, <2>2, <2>5, <2>8, <2>9
<1> QED BY <1>16, <1>17

\* The file is in the directory ycsb; its name begins like a log's.
InYcsb(f) == f.dirs # <<>> /\ f.dirs[Len(f.dirs)] = <<"ycsb">>
LogName(f) == Len(f.name) > 0 /\ f.name[1] \in LogWords

\* What a file is, by the words of its name and its directory.
LEMMA ClassFacts ==
    ASSUME NEW f, Len(f.name) \in Nat
    PROVE  LET n == Len(f.name) IN
           /\ LogName(f) => Class(f) = LOG
           /\ ~LogName(f) /\ InYcsb(f) /\ n > 1 /\ f.name[n] \in exts => Class(f) = f.name[n]
           /\ ~LogName(f) /\ InYcsb(f) /\ ~(n > 1 /\ f.name[n] \in exts) => Class(f) = NoExt
           /\ ~LogName(f) /\ ~InYcsb(f) /\ n \in 1 .. 2 /\ f.name[1] = DB => Class(f) = DB
           /\ ~LogName(f) /\ ~InYcsb(f) /\ ~(n \in 1 .. 2 /\ f.name[1] = DB) => Class(f) = NoExt
<1> DEFINE n == Len(f.name)
           a == n = 0
           b == n > 0 /\ f.name[1] \in LogWords
           c == n > 1 /\ f.name[1] \notin LogWords /\ InYcsb(f) /\ f.name[n] \in exts
           d == n \in 1 .. 2 /\ f.name[1] = DB /\ ~InYcsb(f)
<1>1. Class(f) = CASE a -> NoExt [] b -> LOG [] c -> f.name[n] [] d -> DB [] OTHER -> NoExt
  BY DEF Class, InYcsb
<1>2. /\ a => ~b /\ ~c /\ ~d
      /\ b => ~a /\ ~c
      /\ b => ~d
      /\ c => ~a /\ ~b /\ ~d
  BY IoStatAssumption
<1> HIDE DEF a, b, c, d
<1>3. /\ a => Class(f) = NoExt
      /\ b => Class(f) = LOG
      /\ c => Class(f) = f.name[n]
      /\ d => Class(f) = DB
      /\ ~a /\ ~b /\ ~c /\ ~d => Class(f) = NoExt
  BY <1>1, <1>2
<1>4. n \in Nat
  OBVIOUS
<1> HIDE DEF n
<1>5. /\ LogName(f) => b
      /\ ~LogName(f) /\ InYcsb(f) /\ n > 1 /\ f.name[n] \in exts => c
      /\ ~LogName(f) /\ InYcsb(f) /\ ~(n > 1 /\ f.name[n] \in exts) => ~b /\ ~c /\ ~d
      /\ ~LogName(f) /\ ~InYcsb(f) /\ n \in 1 .. 2 /\ f.name[1] = DB => d
      /\ ~LogName(f) /\ ~InYcsb(f) /\ ~(n \in 1 .. 2 /\ f.name[1] = DB) => ~b /\ ~c /\ ~d
  BY <1>4 DEF LogName, b, c, d, n
<1> QED BY <1>3, <1>5 DEF n

\* The library looks for the extension in the text of a path, and finds the
\* one the file belongs to, wherever dots and slashes are in its directories
\* and its name: getFileName, getParentDir and getFileExt do not mistake one
\* part of the path for another (ncl_stat.h, prepareHist).
THEOREM ExtIsClass ==
    ASSUME NEW f, f \in [absolute : BOOLEAN, dirs : Seq(Seq(Words)), name : Seq(Words)]
    PROVE  Ext(Text(f)) = Class(f)
<1> DEFINE s == Text(f)
           w == f.name
           n == Len(w)
           v == f.dirs[Len(f.dirs)]
           name == getFileName(s)
           yc == InYcsb(f)
           pre == LogName(f)
           ext == IF checkFileNamePrefix(name) THEN <<LOG>>
                  ELSE IF getParentDir(s) = <<"ycsb">> THEN getFileExt(s)
                  ELSE name
<1>0. w \in Seq(Words) /\ n \in Nat /\ f.dirs \in Seq(Seq(Words)) /\ (w = <<>> <=> n = 0)
  <2>1. w \in Seq(Words) /\ n \in Nat /\ f.dirs \in Seq(Seq(Words))
    OBVIOUS
  <2> HIDE DEF w
  <2> QED BY <2>1, EmptySeq
<1>1. PICK p \in Nat :
           /\ EndsIn(s, p, w)
           /\ f.dirs = <<>> => p <= 1
           /\ f.dirs # <<>> => \E o : Holds(s, o, p - 1, v) /\ (o # 0 => s[o] = "/")
  BY TextShape
<1>2. Ext(s) = IF ext \in {<<e>> : e \in exts} THEN Head(ext) ELSE NoExt
  BY DEF Ext
<1>3. v = v /\ (f.dirs # <<>> => v \in Seq(Words))
  BY <1>0
<1>4. /\ pre => Class(f) = LOG
      /\ ~pre /\ yc /\ n > 1 /\ w[n] \in exts => Class(f) = w[n]
      /\ ~pre /\ yc /\ ~(n > 1 /\ w[n] \in exts) => Class(f) = NoExt
      /\ ~pre /\ ~yc /\ n \in 1 .. 2 /\ w[1] = DB => Class(f) = DB
      /\ ~pre /\ ~yc /\ ~(n \in 1 .. 2 /\ w[1] = DB) => Class(f) = NoExt
  BY <1>0, ClassFacts
<1>y. (yc <=> f.dirs # <<>> /\ v = <<"ycsb">>) /\ (pre <=> n > 0 /\ w[1] \in LogWords)
  BY DEF InYcsb, LogName
<1> HIDE DEF s, w, v, yc, pre
<1>5. IsDotted(name, Stem(w))
  BY <1>1, FileNameIs
<1> DEFINE x == Stem(w)
<1>6. /\ x \in Seq(Words) /\ Len(x) = IF n >= 2 THEN n - 1 ELSE n
      /\ \A i \in 1 .. Len(x) : x[i] = w[i]
      /\ x = <<>> <=> w = <<>>
  BY <1>0, StemFacts
<1> HIDE DEF x, n
<1>7. n # 0 => x[1] = w[1]
  <2> SUFFICES ASSUME n # 0 PROVE x[1] = w[1]
    OBVIOUS
  <2>1. Len(x) >= 1 /\ Len(x) \in Nat
    BY <1>0, <1>6
  <2>2. 1 \in 1 .. Len(x)
    BY <2>1
  <2> QED BY <1>6, <2>2
<1>8. checkFileNamePrefix(name) <=> pre
  <2>1. checkFileNamePrefix(name) <=> x # <<>> /\ x[1] \in LogWords
    BY <1>5, PrefixIs DEF x
  <2>2. n > 0 <=> n # 0
    BY <1>0
  <2> HIDE DEF name
  <2> QED BY <1>0, <1>6, <1>7, <1>y, <2>1, <2>2
<1>9. getParentDir(s) = <<"ycsb">> <=> yc
  <2>1. CASE f.dirs = <<>>
    <3>1. getParentDir(s) = <<>>
      BY <1>1, <2>1, ParentIs
    <3>2. <<>> # <<"ycsb">>
      OBVIOUS
    <3> QED BY <1>y, <2>1, <3>1, <3>2
  <2>2. CASE f.dirs # <<>>
    <3>1. PICK o : Holds(s, o, p - 1, v) /\ (o # 0 => s[o] = "/")
      BY <1>1, <2>2
    <3>2. getParentDir(s) = <<"ycsb">> <=> Len(v) = 1 /\ v[1] = "ycsb"
      <4> DEFINE y == "ycsb"
                 g == getParentDir(s)
      <4> HIDE DEF y, g
      <4>1. \A a, b, c : Holds(s, a, p - 1, b) /\ (a # 0 => s[a] = "/") =>
                            (g = <<c>> <=> Len(b) = 1 /\ b[1] = c)
        BY <1>1, ParentIs DEF g
      <4>2. g = <<y>> <=> Len(v) = 1 /\ v[1] = y
        BY <3>1, <4>1
      <4> QED BY <4>2 DEF y, g
    <3>3. v = <<"ycsb">> <=> Len(v) = 1 /\ v[1] = "ycsb"
      <4>1. v \in Seq(Words)
        BY <1>3, <2>2
      <4> QED BY <4>1
    <3> QED BY <1>y, <2>2, <3>2, <3>3
  <2> QED BY <2>1, <2>2
<1>10. \A e \in exts : getFileExt(s) = <<e>> <=> n > 1 /\ w[n] = e
  <2> SUFFICES ASSUME NEW e \in exts PROVE getFileExt(s) = <<e>> <=> n > 1 /\ w[n] = e
    OBVIOUS
  <2>1. getFileExt(s) = <<e>> <=> Len(w) >= 2 /\ w[Len(w)] = e
    BY <1>1, FileExtIs
  <2>2. n >= 2 <=> n > 1
    BY <1>0
  <2> QED BY <2>1, <2>2 DEF n
<1>11. \A e : name = <<e>> <=> n \in 1 .. 2 /\ w[1] = e
  <2> SUFFICES ASSUME NEW e PROVE name = <<e>> <=> n \in 1 .. 2 /\ w[1] = e
    OBVIOUS
  <2>1. name = <<e>> <=> Len(x) = 1 /\ x[1] = e
    BY <1>5, FirstWord DEF x
  <2>2. Len(x) = 1 <=> n \in 1 .. 2
    BY <1>0, <1>6
  <2>3. n \in 1 .. 2 => n # 0
    OBVIOUS
  <2> HIDE DEF name
  <2> QED BY <1>7, <2>1, <2>2, <2>3
<1> HIDE DEF name
<1>12. ASSUME NEW e \in exts, ext = <<e>> PROVE Ext(s) = e
  <2>1. ext \in {<<c>> : c \in exts}
    <3> HIDE DEF ext
    <3> QED BY <1>12
  <2>2. Head(<<e>>) = e
    OBVIOUS
  <2> HIDE DEF ext
  <2> QED BY <1>2, <1>12, <2>1, <2>2
<1>13. ASSUME \A e \in exts : ext # <<e>> PROVE Ext(s) = NoExt
  <2> HIDE DEF ext
  <2>1. ext \notin {<<e>> : e \in exts}
    BY <1>13
  <2> QED BY <1>2, <2>1
<1>14. LOG \in exts /\ DB \in exts /\ LOG \in LogWords /\ exts = {LOG, DB}
  BY IoStatAssumption DEF exts
<1>15. CASE pre
  <2>1. ext = <<LOG>>
    BY <1>8, <1>15
  <2> HIDE DEF ext
  <2> QED BY <1>4, <1>12, <1>14, <1>15, <2>1 DEF s
<1>16. CASE ~pre /\ yc
  <2>1. ext = getFileExt(s)
    BY <1>8, <1>9, <1>16
  <2> HIDE DEF ext
  <2>2. CASE n > 1 /\ w[n] \in exts
    <3>1. ext = <<w[n]>>
      BY <1>10, <2>1, <2>2
    <3>2. Ext(s) = w[n]
      BY <1>12, <2>2, <3>1
    <3> QED BY <1>4, <1>16, <2>2, <3>2 DEF s
  <2>3. CASE ~(n > 1 /\ w[n] \in exts)
    <3>1. \A e \in exts : ext # <<e>>
      BY <1>10, <2>1, <2>3
    <3>2. Ext(s) = NoExt
      BY <1>13, <3>1
    <3> QED BY <1>4, <1>16, <2>3, <3>2 DEF s
  <2> QED BY <2>2, <2>3
<1>17. CASE ~pre /\ ~yc
  <2>1. ext = name
    BY <1>8, <1>9, <1>17
  <2>n. n \in 1 .. 2 => w[1] # LOG
    <3> SUFFICES ASSUME n \in 1 .. 2, w[1] = LOG PROVE FALSE
      OBVIOUS
    <3>1. n > 0
      BY <1>0
    <3>2. w[1] \in LogWords
      BY <1>14
    <3> QED BY <1>17, <1>y, <3>1, <3>2
  <2> HIDE DEF ext
  <2>2. CASE n \in 1 .. 2 /\ w[1] = DB
    <3>1. ext = <<DB>>
      BY <1>11, <2>1, <2>2
    <3>2. Ext(s) = DB
      BY <1>12, <1>14, <3>1
    <3> QED BY <1>4, <1>17, <2>2, <3>2 DEF s
  <2>3. CASE ~(n \in 1 .. 2 /\ w[1] = DB)
    <3>1. \A e \in exts : ext # <<e>>
      BY <1>11, <1>14, <2>1, <2>n, <2>3
    <3>2. Ext(s) = NoExt
      BY <1>13, <3>1
    <3> QED BY <1>4, <1>17, <2>3, <3>2 DEF s
  <2> QED BY <2>2, <2>3
<1> QED BY <1>15, <1>16, <1>17

\* At most d comes, goes or changes its value from f, S to g, T.
OneChanges(d, f, S, g, T) ==
    /\ d \in Fds /\ S \in SUBSET Fds /\ T \in SUBSET Fds /\ S \ {d} = T \ {d}
    /\ f \in [Fds -> Int] /\ g \in [Fds -> Int] /\ \A x \in Fds \ {d} : g[x] = f[x]

\* A sum after one element came, went or changed its value.
LEMMA SumChanges ==
    ASSUME NEW d, NEW f, NEW S, NEW g, NEW T, OneChanges(d, f, S, g, T)
    PROVE  /\ SumOf(f, S) \in Int /\ SumOf(g, T) \in Int
           /\ SumOf(g, T) - SumOf(f, S) =
                  (IF d \in T THEN g[d] ELSE 0) - (IF d \in S THEN f[d] ELSE 0)
<1> DEFINE R == S \ {d}
<1>1. IsFiniteSet(S) /\ IsFiniteSet(T) /\ IsFiniteSet(R)
  BY IoStatAssumption, FS_Subset DEF OneChanges
<1>2. /\ \A x \in S : f[x] \in Int
      /\ \A x \in T : g[x] \in Int
      /\ \A x \in R : f[x] \in Int /\ f[x] = g[x]
  BY DEF OneChanges
<1>3. T \ {d} = R
  BY DEF OneChanges
<1> HIDE DEF R
<1>4. SumOf(f, R) \in Int /\ SumOf(g, R) = SumOf(f, R)
  BY <1>1, <1>2, SumFacts
<1>5. SumOf(f, S) = (IF d \in S THEN f[d] ELSE 0) + SumOf(f, R)
  <2>1. CASE d \in S
    <3>1. SumOf(f, S) = f[d] + SumOf(f, S \ {d})
      BY <1>1, <1>2, <2>1, SumFacts
    <3> QED BY <2>1, <3>1 DEF R
  <2>2. CASE d \notin S
    <3>1. R = S
      BY <2>2 DEF R
    <3> QED BY <1>4, <2>2, <3>1
  <2> QED BY <2>1, <2>2
<1>6. SumOf(g, T) = (IF d \in T THEN g[d] ELSE 0) + SumOf(f, R)
  <2>1. CASE d \in T
    <3>1. SumOf(g, T) = g[d] + SumOf(g, T \ {d})
      BY <1>1, <1>2, <2>1, SumFacts
    <3> QED BY <1>3, <1>4, <2>1, <3>1
  <2>2. CASE d \notin T
    <3>1. R = T
      BY <1>3, <2>2
    <3> QED BY <1>4, <2>2, <3>1
  <2> QED BY <2>1, <2>2
<1> DEFINE a == IF d \in S THEN f[d] ELSE 0
           b == IF d \in T THEN g[d] ELSE 0
<1>7. a \in Int /\ b \in Int
  BY DEF OneChanges
<1> HIDE DEF a, b
<1>8. SumOf(f, S) = a + SumOf(f, R) /\ SumOf(g, T) = b + SumOf(f, R)
  BY <1>5, <1>6 DEF a, b
<1>9. SumOf(f, S) \in Int /\ SumOf(g, T) \in Int /\ SumOf(g, T) - SumOf(f, S) = b - a
  BY <1>4, <1>7, <1>8
<1> QED BY <1>9 DEF a, b

-----------------------------------------------------------------------------
(* The invariant. *)

\* What a descriptor adds to the histogram of e at the next sync.
Counting(e) == {d \in Fds : fd_stat[d] = e}

\* The tables of the library agree with what the kernel has open: a descriptor
\* feeds the histogram of its file's class, and is counted exactly when there
\* is one.
TablesAgree ==
    \A d \in Fds :
        /\ fd_stat[d] = Class(open_file[d])
        /\ fd_stat[d] = NoExt => fd_accumulated[d] = Absent
        /\ fd_stat[d] # NoExt => fd_accumulated[d] \in Nat

\* The files of the application and of the thread that saves.
AllFiles == Files \cup {stat_name(e) : e \in exts}

StatType ==
    /\ open_file \in [Fds -> AllFiles \cup {NoFile}]
    /\ fd_stat \in [Fds -> exts \cup {NoExt}]
    /\ fd_accumulated \in [Fds -> Int] /\ unsynced \in [Fds -> Nat]
    /\ ext_stat \in [exts -> Nat] /\ requested \in [exts -> Nat] /\ dropped \in [exts -> Nat] /\ oversized \in [exts -> Nat]
    /\ asked \in SUBSET Fds /\ bytes \in 0 .. MaxBytes

Conserved ==
    \A e \in exts : requested[e] = ext_stat[e] + dropped[e] + oversized[e] + SumOf(fd_accumulated, Counting(e))

StatInv == StatType /\ TablesAgree /\ Conserved /\ OthersSynced

\* The files of the thread that saves have the shape of every other.
LEMMA AllFilesShape ==
    AllFiles \subseteq [absolute : BOOLEAN, dirs : Seq(Seq(Words)), name : Seq(Words)]
<1>1. ASSUME NEW e \in exts
      PROVE  stat_name(e) \in [absolute : BOOLEAN, dirs : Seq(Seq(Words)), name : Seq(Words)]
  <2>1. saved_as[e] \in Words /\ "csv" \in Words
    BY IoStatAssumption
  <2> DEFINE a == saved_as[e]
  <2> HIDE DEF a
  <2>2. <<a, "csv">> \in Seq(Words)
    BY <2>1 DEF a
  <2>3. <<>> \in Seq(Seq(Words))
    OBVIOUS
  <2> QED BY <2>2, <2>3 DEF stat_name, a
<1> QED BY <1>1, IoStatAssumption DEF AllFiles

\* The classes, and none for no file.
LEMMA ClassType ==
    /\ \A f \in AllFiles \cup {NoFile} : Class(f) \in exts \cup {NoExt}
    /\ Class(NoFile) = NoExt /\ NoExt \notin exts /\ 0 \in Nat /\ Absent \in Int
<1>1. NoExt \notin exts /\ LOG \in exts /\ DB \in exts
  BY DEF NoExt, exts, LOG, DB
<1>2. ASSUME NEW f \in AllFiles PROVE Class(f) \in exts \cup {NoExt}
  <2>1. Len(f.name) \in Nat
    <3>1. f.name \in Seq(Words)
      BY AllFilesShape
    <3> QED BY <3>1
  <2> DEFINE n == Len(f.name)
  <2>2. /\ LogName(f) => Class(f) = LOG
        /\ ~LogName(f) /\ InYcsb(f) /\ n > 1 /\ f.name[n] \in exts => Class(f) = f.name[n]
        /\ ~LogName(f) /\ InYcsb(f) /\ ~(n > 1 /\ f.name[n] \in exts) => Class(f) = NoExt
        /\ ~LogName(f) /\ ~InYcsb(f) /\ n \in 1 .. 2 /\ f.name[1] = DB => Class(f) = DB
        /\ ~LogName(f) /\ ~InYcsb(f) /\ ~(n \in 1 .. 2 /\ f.name[1] = DB) => Class(f) = NoExt
    BY <2>1, ClassFacts
  <2> HIDE DEF n
  <2> QED BY <1>1, <2>2
<1>3. Class(NoFile) = NoExt
  <2>1. NoFile.name = <<>> /\ NoFile.dirs = <<>> /\ Len(NoFile.name) = 0 /\ Len(NoFile.name) \in Nat
    BY DEF NoFile
  <2>2. ~LogName(NoFile) /\ ~InYcsb(NoFile)
    BY <2>1 DEF LogName, InYcsb
  <2>3. Len(NoFile.name) \notin 1 .. 2
    BY <2>1
  <2> QED BY <2>1, <2>2, <2>3, ClassFacts
<1> QED BY <1>1, <1>2, <1>3 DEF Absent

\* Adding to the sum of an extension.
LEMMA AddFacts ==
    ASSUME NEW f \in [exts -> Nat], NEW c, NEW n, c \in exts => n \in Nat
    PROVE  /\ Add(f, c, n) \in [exts -> Nat]
           /\ \A e \in exts : Add(f, c, n)[e] = f[e] + IF e = c THEN n ELSE 0
<1>1. CASE c \in exts
  <2>1. Add(f, c, n) = [f EXCEPT ![c] = @ + n]
    BY <1>1 DEF Add
  <2>2. n \in Nat /\ f[c] + n \in Nat
    BY <1>1
  <2> QED BY <1>1, <2>1, <2>2
<1>2. CASE c \notin exts
  BY <1>2 DEF Add
<1> QED BY <1>1, <1>2

\* What hdr_record_value is given is recorded or is too large.
LEMMA RecordFacts ==
    ASSUME ext_stat \in [exts -> Nat], oversized \in [exts -> Nat],
           NEW c, NEW n, n \in Nat, hdr_record_value(c, n)
    PROVE  /\ ext_stat' \in [exts -> Nat] /\ oversized' \in [exts -> Nat]
           /\ \A e \in exts : ext_stat'[e] + oversized'[e]
                              = ext_stat[e] + oversized[e] + IF e = c THEN n ELSE 0
<1>1. CASE n <= HistMax
  <2>1. ext_stat' = Add(ext_stat, c, n) /\ oversized' = oversized
    BY <1>1 DEF hdr_record_value
  <2>2. /\ ext_stat' \in [exts -> Nat]
        /\ \A e \in exts : ext_stat'[e] = ext_stat[e] + IF e = c THEN n ELSE 0
    BY <2>1, AddFacts
  <2> QED BY <2>1, <2>2
<1>2. CASE ~(n <= HistMax)
  <2>1. oversized' = Add(oversized, c, n) /\ ext_stat' = ext_stat
    BY <1>2 DEF hdr_record_value
  <2>2. /\ oversized' \in [exts -> Nat]
        /\ \A e \in exts : oversized'[e] = oversized[e] + IF e = c THEN n ELSE 0
    BY <2>1, AddFacts
  <2> QED BY <2>1, <2>2
<1> QED BY <1>1, <1>2

\* What is requested, and not recorded, dropped or too large, changes by what the descriptor
\* counts.
Balanced(d) ==
    \A e \in exts :
        (requested'[e] - ext_stat'[e] - dropped'[e] - oversized'[e]) - (requested[e] - ext_stat[e] - dropped[e] - oversized[e])
        = (IF fd_stat'[d] = e THEN fd_accumulated'[d] ELSE 0)
          - (IF fd_stat[d] = e THEN fd_accumulated[d] ELSE 0)

\* Then the sums stay equal, where only that descriptor changes.
LEMMA ConservedStep ==
    ASSUME StatInv, NEW d \in Fds,
           fd_stat' \in [Fds -> exts \cup {NoExt}], fd_accumulated' \in [Fds -> Int],
           \A x \in Fds \ {d} : fd_stat'[x] = fd_stat[x] /\ fd_accumulated'[x] = fd_accumulated[x],
           ext_stat' \in [exts -> Nat], requested' \in [exts -> Nat], dropped' \in [exts -> Nat],
           oversized' \in [exts -> Nat],
           Balanced(d)
    PROVE  Conserved'
<1> SUFFICES ASSUME NEW e \in exts
             PROVE  requested'[e] = ext_stat'[e] + dropped'[e] + oversized'[e] + SumOf(fd_accumulated', Counting(e)')
  BY DEF Conserved, SumOf, MapThenSumSet, MapThenFoldSet
<1> DEFINE S == Counting(e)
           T == Counting(e)'
           f == fd_accumulated
           g == fd_accumulated'
<1>1. S \in SUBSET Fds /\ T \in SUBSET Fds /\ S \ {d} = T \ {d} /\ IsFiniteSet(Fds)
  BY IoStatAssumption DEF Counting
<1>2. (d \in S <=> fd_stat[d] = e) /\ (d \in T <=> fd_stat'[d] = e)
  BY DEF Counting
<1>3. f \in [Fds -> Int] /\ g \in [Fds -> Int] /\ \A x \in Fds \ {d} : g[x] = f[x]
  BY DEF StatInv, StatType
<1>4. requested[e] = ext_stat[e] + dropped[e] + oversized[e] + SumOf(f, S)
  BY DEF StatInv, Conserved
<1>5. /\ requested[e] \in Nat /\ ext_stat[e] \in Nat /\ dropped[e] \in Nat /\ oversized[e] \in Nat
      /\ requested'[e] \in Nat /\ ext_stat'[e] \in Nat /\ dropped'[e] \in Nat /\ oversized'[e] \in Nat
  BY DEF StatInv, StatType
<1> HIDE DEF S, T, f, g
<1> DEFINE p == IF d \in T THEN g[d] ELSE 0
           q == IF d \in S THEN f[d] ELSE 0
           W == requested[e] - ext_stat[e] - dropped[e] - oversized[e]
           V == requested'[e] - ext_stat'[e] - dropped'[e] - oversized'[e]
<1>6. SumOf(f, S) \in Int /\ SumOf(g, T) \in Int /\ SumOf(g, T) - SumOf(f, S) = p - q
  <2>1. OneChanges(d, f, S, g, T)
    BY <1>1, <1>3 DEF OneChanges
  <2> QED BY <2>1, SumChanges
<1>7. V - W = SumOf(g, T) - SumOf(f, S)
  <2>1. /\ p = IF fd_stat'[d] = e THEN fd_accumulated'[d] ELSE 0
        /\ q = IF fd_stat[d] = e THEN fd_accumulated[d] ELSE 0
    BY <1>2 DEF f, g
  <2>2. V - W = (IF fd_stat'[d] = e THEN fd_accumulated'[d] ELSE 0)
                - (IF fd_stat[d] = e THEN fd_accumulated[d] ELSE 0)
    BY DEF Balanced
  <2> HIDE DEF p, q, V, W
  <2> QED BY <1>6, <2>1, <2>2
<1>8. requested'[e] = ext_stat'[e] + dropped'[e] + oversized'[e] + SumOf(g, T)
  <2>1. W = SumOf(f, S) /\ V \in Int /\ W \in Int
    BY <1>4, <1>5, <1>6
  <2>2. V = SumOf(g, T)
    <3> DEFINE A == SumOf(f, S)
               B == SumOf(g, T)
    <3>1. A \in Int /\ B \in Int /\ V - W = B - A /\ W = A
      BY <1>6, <1>7, <2>1
    <3> HIDE DEF V, W, A, B
    <3>2. V = B
      BY <2>1, <3>1
    <3> QED BY <3>2 DEF B
  <2> QED BY <1>5, <1>6, <2>2
<1> QED BY <1>8 DEF g, T

\* At the start nothing is open, counted or recorded.
LEMMA StatInit_Inv == StatInit => StatInv
<1> SUFFICES ASSUME StatInit PROVE StatInv
  OBVIOUS
<1>1. StatType
  BY IoStatAssumption, ClassType DEF StatInit, StatType
<1>2. TablesAgree
  BY ClassType DEF StatInit, TablesAgree
<1>3. Conserved
  <2> SUFFICES ASSUME NEW e \in exts
               PROVE  requested[e] = ext_stat[e] + dropped[e] + oversized[e] + SumOf(fd_accumulated, Counting(e))
    BY DEF Conserved
  <2>1. Counting(e) = {}
    BY ClassType DEF StatInit, Counting
  <2>2. SumOf(fd_accumulated, {}) = 0
    <3>1. IsFiniteSet({}) /\ \A x \in {} : fd_accumulated[x] \in Int
      BY FS_EmptySet
    <3> QED BY <3>1, SumFacts
  <2>3. requested[e] = 0 /\ ext_stat[e] = 0 /\ dropped[e] = 0 /\ oversized[e] = 0
    BY DEF StatInit
  <2> QED BY <2>1, <2>2, <2>3
<1>4. OthersSynced
  BY DEF StatInit, OthersSynced
<1> QED BY <1>1, <1>2, <1>3, <1>4 DEF StatInv

\* An open gives the descriptor the histogram of its file, also where the
\* number was used before.
LEMMA Open_Inv ==
    ASSUME StatInv, NEW d \in Fds, NEW f \in AllFiles, open(d, f)
    PROVE  StatInv'
<1> DEFINE c == Class(f)
<1>1. Ext(Text(f)) = c
  <2>1. f \in [absolute : BOOLEAN, dirs : Seq(Seq(Words)), name : Seq(Words)]
    BY AllFilesShape
  <2> QED BY <2>1, ExtIsClass
<1>2. c \in exts \cup {NoExt} /\ NoExt \notin exts
  BY ClassType
<1>3. fd_stat[d] = NoExt /\ fd_accumulated[d] = Absent
  BY ClassType DEF StatInv, TablesAgree, open
<1>4. /\ open_file' = [open_file EXCEPT ![d] = f] /\ unsynced' = [unsynced EXCEPT ![d] = 0]
      /\ asked' = asked \ {d}
      /\ ext_stat' = ext_stat /\ requested' = requested /\ dropped' = dropped /\ oversized' = oversized /\ bytes' = bytes
  BY DEF open
<1>5. /\ c \in exts => /\ fd_stat' = [fd_stat EXCEPT ![d] = c]
                       /\ fd_accumulated' = [fd_accumulated EXCEPT ![d] = 0]
      /\ c = NoExt => fd_stat' = fd_stat /\ fd_accumulated' = fd_accumulated
  BY <1>1, <1>2 DEF open, prepareHist
<1>6. /\ fd_stat \in [Fds -> exts \cup {NoExt}] /\ fd_accumulated \in [Fds -> Int]
      /\ unsynced \in [Fds -> Nat] /\ open_file \in [Fds -> AllFiles \cup {NoFile}]
  BY DEF StatInv, StatType
<1> HIDE DEF c
<1>7. /\ fd_stat' \in [Fds -> exts \cup {NoExt}] /\ fd_accumulated' \in [Fds -> Int]
      /\ fd_stat'[d] = c
      /\ c \in exts => fd_accumulated'[d] = 0
      /\ c = NoExt => fd_accumulated'[d] = Absent
      /\ \A x \in Fds \ {d} : fd_stat'[x] = fd_stat[x] /\ fd_accumulated'[x] = fd_accumulated[x]
  <2>1. CASE c \in exts
    BY <1>2, <1>5, <1>6, <2>1
  <2>2. CASE c = NoExt
    BY <1>2, <1>3, <1>5, <1>6, <2>2
  <2> QED BY <1>2, <2>1, <2>2
<1>8. /\ open_file'[d] = f /\ unsynced'[d] = 0
      /\ \A x \in Fds \ {d} : open_file'[x] = open_file[x] /\ unsynced'[x] = unsynced[x]
      /\ open_file' \in [Fds -> AllFiles \cup {NoFile}] /\ unsynced' \in [Fds -> Nat]
  BY <1>4, <1>6
<1>9. StatType'
  BY <1>4, <1>7, <1>8 DEF StatInv, StatType
<1>10. TablesAgree'
  <2> SUFFICES ASSUME NEW x \in Fds
               PROVE  /\ fd_stat'[x] = Class(open_file'[x])
                      /\ fd_stat'[x] = NoExt => fd_accumulated'[x] = Absent
                      /\ fd_stat'[x] # NoExt => fd_accumulated'[x] \in Nat
    BY DEF TablesAgree, Class
  <2>1. CASE x = d
    BY <1>2, <1>7, <1>8, <2>1 DEF c
  <2>2. CASE x # d
    BY <1>7, <1>8, <2>2 DEF StatInv, TablesAgree
  <2> QED BY <2>1, <2>2
<1>11. Balanced(d)
  <2> SUFFICES ASSUME NEW e \in exts
               PROVE  (requested[e] - ext_stat[e] - dropped[e] - oversized[e]) - (requested[e] - ext_stat[e] - dropped[e] - oversized[e])
                      = (IF fd_stat'[d] = e THEN fd_accumulated'[d] ELSE 0)
                        - (IF fd_stat[d] = e THEN fd_accumulated[d] ELSE 0)
    BY <1>4 DEF Balanced
  <2>1. (IF fd_stat[d] = e THEN fd_accumulated[d] ELSE 0) = 0
    BY <1>2, <1>3
  <2>2. (IF fd_stat'[d] = e THEN fd_accumulated'[d] ELSE 0) = 0
    BY <1>7
  <2>3. requested[e] \in Nat /\ ext_stat[e] \in Nat /\ dropped[e] \in Nat /\ oversized[e] \in Nat
    BY DEF StatInv, StatType
  <2> QED BY <2>1, <2>2, <2>3
<1>12. Conserved'
  <2>1. ext_stat' \in [exts -> Nat] /\ requested' \in [exts -> Nat] /\ dropped' \in [exts -> Nat] /\ oversized' \in [exts -> Nat]
    BY <1>9 DEF StatType
  <2> QED BY <1>7, <1>11, <2>1, ConservedStep
<1>13. OthersSynced'
  <2> SUFFICES ASSUME NEW x \in asked', Class(open_file'[x]) = NoExt PROVE unsynced'[x] = 0
    BY DEF OthersSynced, Class
  <2>1. x \in asked /\ x \in Fds \ {d}
    BY <1>4 DEF StatInv, StatType
  <2>2. Class(open_file[x]) = NoExt /\ unsynced'[x] = unsynced[x]
    BY <1>8, <2>1
  <2> QED BY <2>1, <2>2 DEF StatInv, OthersSynced
<1> QED BY <1>9, <1>10, <1>12, <1>13 DEF StatInv

\* A write counts the bytes asked for, for the class of the file that is open.
LEMMA Write_Inv ==
    ASSUME StatInv, NEW d \in Fds, NEW n \in Lens, NEW k \in 0 .. n, write(d, n, k)
    PROVE  StatInv'
<1> DEFINE c == fd_stat[d]
<1>0. n \in Nat /\ k \in Nat
  BY IoStatAssumption
<1>1. /\ c = Class(open_file[d]) /\ c \in exts \cup {NoExt} /\ NoExt \notin exts
      /\ c = NoExt => fd_accumulated[d] = Absent
      /\ c # NoExt => fd_accumulated[d] \in Nat
  BY ClassType DEF StatInv, StatType, TablesAgree
<1>2. /\ fd_stat' = fd_stat /\ open_file' = open_file /\ dropped' = dropped
      /\ asked' = asked \ {d} /\ unsynced' = [unsynced EXCEPT ![d] = @ + k]
      /\ bytes' = bytes + n /\ bytes + n <= MaxBytes
      /\ requested' = Add(requested, c, n)
  BY <1>1 DEF write
<1>3. c \in exts => /\ fd_accumulated' = [fd_accumulated EXCEPT ![d] = @ + n]
                    /\ ext_stat' = ext_stat /\ oversized' = oversized
  <2> SUFFICES ASSUME c \in exts PROVE fd_stat[d] # NoExt /\ fd_accumulated[d] # Absent
    BY DEF write, record_value
  <2>1. fd_accumulated[d] \in Nat
    BY <1>1
  <2> QED BY <1>1, <2>1 DEF Absent
<1>4. c = NoExt => /\ fd_accumulated' = fd_accumulated /\ ext_stat' = ext_stat
                   /\ oversized' = oversized
  BY <1>1 DEF write, record_value, hdr_record_value, Add
<1>5. /\ fd_stat \in [Fds -> exts \cup {NoExt}] /\ fd_accumulated \in [Fds -> Int]
      /\ unsynced \in [Fds -> Nat] /\ ext_stat \in [exts -> Nat]
      /\ requested \in [exts -> Nat] /\ dropped \in [exts -> Nat] /\ oversized \in [exts -> Nat]
  BY DEF StatInv, StatType
<1>6. /\ requested' \in [exts -> Nat]
      /\ \A e \in exts : requested'[e] = requested[e] + IF e = c THEN n ELSE 0
  BY <1>0, <1>2, <1>5, AddFacts
<1>7. /\ fd_accumulated' \in [Fds -> Int] /\ ext_stat' = ext_stat /\ oversized' = oversized
      /\ c \in exts => fd_accumulated'[d] = fd_accumulated[d] + n
      /\ c = NoExt => fd_accumulated'[d] = fd_accumulated[d]
      /\ \A x \in Fds \ {d} : fd_accumulated'[x] = fd_accumulated[x]
  <2>1. CASE c \in exts
    BY <1>0, <1>1, <1>3, <1>5, <2>1
  <2>2. CASE c = NoExt
    BY <1>1, <1>4, <1>5, <2>2
  <2> QED BY <1>1, <2>1, <2>2
<1>8. StatType'
  <2>1. unsynced' \in [Fds -> Nat]
    BY <1>0, <1>2, <1>5
  <2>2. bytes' \in 0 .. MaxBytes
    BY <1>0, <1>2, IoStatAssumption DEF StatInv, StatType
  <2>3. asked' \in SUBSET Fds /\ open_file' \in [Fds -> AllFiles \cup {NoFile}]
    BY <1>2 DEF StatInv, StatType
  <2> QED BY <1>2, <1>5, <1>6, <1>7, <2>1, <2>2, <2>3 DEF StatType
<1>9. TablesAgree'
  <2> SUFFICES ASSUME NEW x \in Fds
               PROVE  /\ fd_stat'[x] = Class(open_file'[x])
                      /\ fd_stat'[x] = NoExt => fd_accumulated'[x] = Absent
                      /\ fd_stat'[x] # NoExt => fd_accumulated'[x] \in Nat
    BY DEF TablesAgree, Class
  <2>0. /\ fd_stat[x] = Class(open_file[x])
        /\ fd_stat[x] = NoExt => fd_accumulated[x] = Absent
        /\ fd_stat[x] # NoExt => fd_accumulated[x] \in Nat
    BY DEF StatInv, TablesAgree
  <2>1. CASE x = d
    <3>1. c # NoExt => fd_accumulated'[d] \in Nat
      BY <1>0, <1>1, <1>7
    <3> QED BY <1>2, <1>7, <2>0, <2>1, <3>1
  <2>2. CASE x # d
    BY <1>2, <1>7, <2>0, <2>2
  <2> QED BY <2>1, <2>2
<1>10. Balanced(d)
  <2> SUFFICES ASSUME NEW e \in exts
               PROVE  (requested'[e] - ext_stat[e] - dropped[e] - oversized[e]) - (requested[e] - ext_stat[e] - dropped[e] - oversized[e])
                      = (IF c = e THEN fd_accumulated'[d] ELSE 0)
                        - (IF c = e THEN fd_accumulated[d] ELSE 0)
    BY <1>2, <1>7 DEF Balanced
  <2>0. requested[e] \in Nat /\ ext_stat[e] \in Nat /\ dropped[e] \in Nat /\ oversized[e] \in Nat
    BY <1>5
  <2>1. CASE c = e
    <3>1. /\ requested'[e] = requested[e] + n /\ fd_accumulated'[d] = fd_accumulated[d] + n
          /\ fd_accumulated[d] \in Nat
      BY <1>1, <1>6, <1>7, <2>1
    <3> HIDE DEF c
    <3> QED BY <1>0, <2>0, <2>1, <3>1
  <2>2. CASE c # e
    <3>1. requested'[e] = requested[e] + 0
      BY <1>6, <2>2
    <3> HIDE DEF c
    <3> QED BY <2>0, <2>2, <3>1
  <2> QED BY <2>1, <2>2
<1>11. Conserved'
  <2>1. /\ fd_stat' \in [Fds -> exts \cup {NoExt}]
        /\ ext_stat' \in [exts -> Nat] /\ dropped' \in [exts -> Nat] /\ oversized' \in [exts -> Nat]
        /\ \A x \in Fds \ {d} : fd_stat'[x] = fd_stat[x] /\ fd_accumulated'[x] = fd_accumulated[x]
    BY <1>2, <1>5, <1>7
  <2> QED BY <1>6, <1>7, <1>10, <2>1, ConservedStep
<1>12. OthersSynced'
  <2>1. \A x \in Fds \ {d} : unsynced'[x] = unsynced[x]
    BY <1>2, <1>5
  <2> QED BY <1>2, <2>1 DEF StatInv, StatType, OthersSynced, Class
<1> QED BY <1>8, <1>9, <1>11, <1>12 DEF StatInv

\* A sync records what is counted and starts again from 0; where nothing is
\* counted the kernel syncs.
LEMMA Sync_Inv ==
    ASSUME StatInv, NEW d \in Fds, sync_internal(d)
    PROVE  StatInv'
<1> DEFINE c == fd_stat[d]
           m == fd_accumulated[d]
<1>1. /\ c = Class(open_file[d]) /\ c \in exts \cup {NoExt} /\ NoExt \notin exts
      /\ c = NoExt => m = Absent
      /\ c # NoExt => m \in Nat
  BY ClassType DEF StatInv, StatType, TablesAgree
<1>2. /\ fd_stat' = fd_stat /\ open_file' = open_file /\ dropped' = dropped
      /\ requested' = requested /\ bytes' = bytes /\ asked' = asked \cup {d}
  BY DEF sync_internal
<1>3. /\ fd_stat \in [Fds -> exts \cup {NoExt}] /\ fd_accumulated \in [Fds -> Int]
      /\ unsynced \in [Fds -> Nat] /\ ext_stat \in [exts -> Nat]
      /\ requested \in [exts -> Nat] /\ dropped \in [exts -> Nat] /\ oversized \in [exts -> Nat]
  BY DEF StatInv, StatType
<1>4. asked' \in SUBSET Fds /\ open_file' \in [Fds -> AllFiles \cup {NoFile}] /\ bytes' \in 0 .. MaxBytes
  BY <1>2 DEF StatInv, StatType
<1>5. CASE record_accum_value(d) /\ UNCHANGED unsynced
  <2>1. /\ m > 0 /\ hdr_record_value(c, m) /\ unsynced' = unsynced
        /\ fd_accumulated' = [fd_accumulated EXCEPT ![d] = 0]
    BY <1>5 DEF record_accum_value
  <2>2. c \in exts /\ m \in Nat
    BY <1>1, <2>1 DEF Absent
  <2>3. /\ fd_accumulated' \in [Fds -> Int] /\ fd_accumulated'[d] = 0
        /\ \A x \in Fds \ {d} : fd_accumulated'[x] = fd_accumulated[x]
    BY <1>3, <2>1
  <2>4. /\ ext_stat' \in [exts -> Nat] /\ oversized' \in [exts -> Nat]
        /\ \A e \in exts : ext_stat'[e] + oversized'[e]
                           = ext_stat[e] + oversized[e] + IF e = c THEN m ELSE 0
    BY <1>3, <2>1, <2>2, RecordFacts
  <2>5. StatType'
    BY <1>2, <1>3, <1>4, <2>1, <2>3, <2>4 DEF StatType
  <2>6. TablesAgree'
    <3> SUFFICES ASSUME NEW x \in Fds
                 PROVE  /\ fd_stat'[x] = Class(open_file'[x])
                        /\ fd_stat'[x] = NoExt => fd_accumulated'[x] = Absent
                        /\ fd_stat'[x] # NoExt => fd_accumulated'[x] \in Nat
      BY DEF TablesAgree, Class
    <3>0. /\ fd_stat[x] = Class(open_file[x])
          /\ fd_stat[x] = NoExt => fd_accumulated[x] = Absent
          /\ fd_stat[x] # NoExt => fd_accumulated[x] \in Nat
      BY DEF StatInv, TablesAgree
    <3>1. CASE x = d
      BY <1>1, <1>2, <2>2, <2>3, <3>0, <3>1
    <3>2. CASE x # d
      BY <1>2, <2>3, <3>0, <3>2
    <3> QED BY <3>1, <3>2
  <2>7. Balanced(d)
    <3> SUFFICES ASSUME NEW e \in exts
                 PROVE  (requested[e] - ext_stat'[e] - dropped[e] - oversized'[e])
                        - (requested[e] - ext_stat[e] - dropped[e] - oversized[e])
                        = (IF c = e THEN 0 ELSE 0) - (IF c = e THEN m ELSE 0)
      BY <1>2, <2>3 DEF Balanced
    <3>0. /\ requested[e] \in Nat /\ ext_stat[e] \in Nat /\ dropped[e] \in Nat /\ oversized[e] \in Nat
          /\ ext_stat'[e] \in Nat /\ oversized'[e] \in Nat
      BY <1>3, <2>4
    <3>1. CASE c = e
      <4>1. ext_stat'[e] + oversized'[e] = ext_stat[e] + oversized[e] + m
        BY <2>4, <3>1
      <4> HIDE DEF c, m
      <4> QED BY <2>2, <3>0, <3>1, <4>1
    <3>2. CASE c # e
      <4>1. ext_stat'[e] + oversized'[e] = ext_stat[e] + oversized[e] + 0
        BY <2>4, <3>2
      <4> HIDE DEF c, m
      <4> QED BY <3>0, <3>2, <4>1
    <3> QED BY <3>1, <3>2
  <2>8. Conserved'
    <3>1. /\ fd_stat' \in [Fds -> exts \cup {NoExt}]
          /\ requested' \in [exts -> Nat] /\ dropped' \in [exts -> Nat]
          /\ \A x \in Fds \ {d} : fd_stat'[x] = fd_stat[x] /\ fd_accumulated'[x] = fd_accumulated[x]
      BY <1>2, <1>3, <2>3
    <3> QED BY <2>3, <2>4, <2>7, <3>1, ConservedStep
  <2>9. OthersSynced'
    <3> SUFFICES ASSUME NEW x \in asked', Class(open_file'[x]) = NoExt PROVE unsynced'[x] = 0
      BY DEF OthersSynced, Class
    <3>1. x # d
      BY <1>1, <1>2, <2>2
    <3>2. x \in asked /\ Class(open_file[x]) = NoExt
      BY <1>2, <3>1
    <3> QED BY <2>1, <3>2 DEF StatInv, OthersSynced
  <2> QED BY <2>5, <2>6, <2>8, <2>9 DEF StatInv
<1>6. CASE /\ ~(fd_accumulated[d] > 0) /\ unsynced' = [unsynced EXCEPT ![d] = 0]
           /\ UNCHANGED <<ext_stat, oversized, fd_accumulated>>
  <2>1. unsynced' \in [Fds -> Nat] /\ unsynced'[d] = 0 /\ \A x \in Fds \ {d} : unsynced'[x] = unsynced[x]
    BY <1>3, <1>6
  <2>2. StatType'
    BY <1>2, <1>3, <1>4, <1>6, <2>1 DEF StatType
  <2>3. TablesAgree'
    BY <1>2, <1>6 DEF StatInv, TablesAgree, Class
  <2>4. Conserved'
    <3>1. /\ fd_accumulated' = fd_accumulated /\ fd_stat' = fd_stat
          /\ requested' = requested /\ ext_stat' = ext_stat /\ dropped' = dropped /\ oversized' = oversized
      BY <1>2, <1>6
    <3>2. Balanced(d)
      <4> SUFFICES ASSUME NEW e \in exts
                   PROVE  (requested[e] - ext_stat[e] - dropped[e] - oversized[e]) - (requested[e] - ext_stat[e] - dropped[e] - oversized[e])
                          = (IF c = e THEN m ELSE 0) - (IF c = e THEN m ELSE 0)
        BY <3>1 DEF Balanced
      <4>0. requested[e] \in Nat /\ ext_stat[e] \in Nat /\ dropped[e] \in Nat /\ oversized[e] \in Nat /\ m \in Int
        BY <1>3
      <4> HIDE DEF c, m
      <4> QED BY <4>0
    <3> QED BY <1>3, <3>1, <3>2, ConservedStep
  <2>5. OthersSynced'
    <3> SUFFICES ASSUME NEW x \in asked', Class(open_file'[x]) = NoExt PROVE unsynced'[x] = 0
      BY DEF OthersSynced, Class
    <3>1. CASE x = d
      BY <2>1, <3>1
    <3>2. CASE x # d
      <4>1. x \in asked /\ x \in Fds \ {d} /\ Class(open_file[x]) = NoExt
        BY <1>2, <1>4, <3>2
      <4> QED BY <2>1, <4>1 DEF StatInv, OthersSynced
    <3> QED BY <3>1, <3>2
  <2> QED BY <2>2, <2>3, <2>4, <2>5 DEF StatInv
<1> QED BY <1>5, <1>6 DEF sync_internal

\* A close forgets the descriptor, with what it had counted.
LEMMA Close_Inv ==
    ASSUME StatInv, NEW d \in Fds, close(d)
    PROVE  StatInv'
<1> DEFINE c == fd_stat[d]
           m == fd_accumulated[d]
<1>1. /\ c \in exts \cup {NoExt} /\ NoExt \notin exts
      /\ c # NoExt => m \in Nat
  BY ClassType DEF StatInv, StatType, TablesAgree
<1>2. /\ dropped' = Add(dropped, c, m) /\ fd_stat' = [fd_stat EXCEPT ![d] = NoExt]
      /\ fd_accumulated' = [fd_accumulated EXCEPT ![d] = Absent]
      /\ open_file' = [open_file EXCEPT ![d] = NoFile] /\ unsynced' = [unsynced EXCEPT ![d] = 0]
      /\ asked' = asked \ {d} /\ ext_stat' = ext_stat /\ requested' = requested /\ bytes' = bytes
      /\ oversized' = oversized
  BY DEF close
<1>3. /\ fd_stat \in [Fds -> exts \cup {NoExt}] /\ fd_accumulated \in [Fds -> Int]
      /\ unsynced \in [Fds -> Nat] /\ ext_stat \in [exts -> Nat]
      /\ requested \in [exts -> Nat] /\ dropped \in [exts -> Nat] /\ oversized \in [exts -> Nat]
      /\ open_file \in [Fds -> AllFiles \cup {NoFile}] /\ asked \in SUBSET Fds
      /\ bytes \in 0 .. MaxBytes
  BY DEF StatInv, StatType
<1>4. /\ dropped' \in [exts -> Nat]
      /\ \A e \in exts : dropped'[e] = dropped[e] + IF e = c THEN m ELSE 0
  <2>1. c \in exts => m \in Nat
    BY <1>1
  <2> HIDE DEF c, m
  <2> QED BY <1>2, <1>3, <2>1, AddFacts
<1>5. /\ fd_stat' \in [Fds -> exts \cup {NoExt}] /\ fd_stat'[d] = NoExt
      /\ fd_accumulated' \in [Fds -> Int] /\ fd_accumulated'[d] = Absent
      /\ open_file' \in [Fds -> AllFiles \cup {NoFile}] /\ open_file'[d] = NoFile
      /\ unsynced' \in [Fds -> Nat]
      /\ \A x \in Fds \ {d} : /\ fd_stat'[x] = fd_stat[x] /\ fd_accumulated'[x] = fd_accumulated[x]
                              /\ open_file'[x] = open_file[x] /\ unsynced'[x] = unsynced[x]
  BY <1>2, <1>3, ClassType
<1>6. StatType'
  BY <1>2, <1>3, <1>4, <1>5 DEF StatType
<1>7. TablesAgree'
  <2> SUFFICES ASSUME NEW x \in Fds
               PROVE  /\ fd_stat'[x] = Class(open_file'[x])
                      /\ fd_stat'[x] = NoExt => fd_accumulated'[x] = Absent
                      /\ fd_stat'[x] # NoExt => fd_accumulated'[x] \in Nat
    BY DEF TablesAgree, Class
  <2>1. CASE x = d
    BY <1>5, <2>1, ClassType
  <2>2. CASE x # d
    BY <1>5, <2>2 DEF StatInv, TablesAgree
  <2> QED BY <2>1, <2>2
<1>8. Balanced(d)
  <2> SUFFICES ASSUME NEW e \in exts
               PROVE  (requested[e] - ext_stat[e] - dropped'[e] - oversized[e])
                      - (requested[e] - ext_stat[e] - dropped[e] - oversized[e])
                      = 0 - (IF c = e THEN m ELSE 0)
    BY <1>1, <1>2, <1>5 DEF Balanced
  <2>0. requested[e] \in Nat /\ ext_stat[e] \in Nat /\ dropped[e] \in Nat /\ oversized[e] \in Nat
    BY <1>3
  <2>1. CASE c = e
    <3>1. dropped'[e] = dropped[e] + m /\ m \in Nat
      BY <1>1, <1>4, <2>1
    <3> HIDE DEF c, m
    <3> QED BY <2>0, <2>1, <3>1
  <2>2. CASE c # e
    <3>1. dropped'[e] = dropped[e] + 0
      BY <1>4, <2>2
    <3> HIDE DEF c, m
    <3> QED BY <2>0, <2>2, <3>1
  <2> QED BY <2>1, <2>2
<1>9. Conserved'
  <2>1. /\ ext_stat' \in [exts -> Nat] /\ requested' \in [exts -> Nat] /\ oversized' \in [exts -> Nat]
        /\ \A x \in Fds \ {d} : fd_stat'[x] = fd_stat[x] /\ fd_accumulated'[x] = fd_accumulated[x]
    BY <1>2, <1>3, <1>5
  <2> QED BY <1>4, <1>5, <1>8, <2>1, ConservedStep
<1>10. OthersSynced'
  <2> SUFFICES ASSUME NEW x \in asked', Class(open_file'[x]) = NoExt PROVE unsynced'[x] = 0
    BY DEF OthersSynced, Class
  <2>1. x \in asked /\ x \in Fds \ {d}
    BY <1>2, <1>3
  <2>2. Class(open_file[x]) = NoExt /\ unsynced'[x] = unsynced[x]
    BY <1>5, <2>1
  <2> QED BY <2>1, <2>2 DEF StatInv, OthersSynced
<1> QED BY <1>6, <1>7, <1>9, <1>10 DEF StatInv

\* The invariant of the library: a descriptor has a count exactly when its file
\* is a log or a table, whatever number the kernel handed out before, and every
\* byte the application asked to write is in one place, be it too much for a
\* histogram (open, write, fsync, close and save of ncl_stat.cc).
THEOREM StatInductive == StatSpec => []StatInv
<1>1. ASSUME StatInv, [StatNext]_statVars PROVE StatInv'
  <2>1. CASE UNCHANGED statVars
    <3>1. /\ fd_stat' = fd_stat /\ fd_accumulated' = fd_accumulated /\ ext_stat' = ext_stat
          /\ open_file' = open_file /\ unsynced' = unsynced /\ asked' = asked
          /\ requested' = requested /\ dropped' = dropped /\ oversized' = oversized /\ bytes' = bytes
      BY <2>1 DEF statVars
    <3>2. StatType' /\ TablesAgree' /\ OthersSynced'
      <4>1. StatType'
        BY <1>1, <3>1 DEF StatInv, StatType
      <4>2. TablesAgree'
        <5> SUFFICES ASSUME NEW x \in Fds
                     PROVE  /\ fd_stat'[x] = Class(open_file'[x])
                            /\ fd_stat'[x] = NoExt => fd_accumulated'[x] = Absent
                            /\ fd_stat'[x] # NoExt => fd_accumulated'[x] \in Nat
          BY DEF TablesAgree, Class
        <5> QED BY <1>1, <3>1 DEF StatInv, TablesAgree
      <4>3. OthersSynced'
        <5> SUFFICES ASSUME NEW x \in asked', Class(open_file'[x]) = NoExt PROVE unsynced'[x] = 0
          BY DEF OthersSynced, Class
        <5> QED BY <1>1, <3>1 DEF StatInv, OthersSynced
      <4> QED BY <4>1, <4>2, <4>3
    <3>3. Conserved'
      <4> SUFFICES ASSUME NEW e \in exts
                   PROVE  requested'[e] = ext_stat'[e] + dropped'[e] + oversized'[e] + SumOf(fd_accumulated', Counting(e)')
        BY DEF Conserved, SumOf, MapThenSumSet, MapThenFoldSet
      <4>1. Counting(e)' = Counting(e)
        BY <3>1 DEF Counting
      <4> QED BY <1>1, <3>1, <4>1 DEF StatInv, Conserved
    <3> QED BY <3>2, <3>3 DEF StatInv
  <2>2. CASE StatNext
    <3>1. PICK d \in Fds : \/ \E f \in Files : open(d, f)
                           \/ \E n \in Lens : \E k \in 0 .. n : write(d, n, k)
                           \/ sync_internal(d)
                           \/ close(d)
                           \/ \E e \in exts : save(d, e)
      BY <2>2 DEF StatNext
    <3>2. (\E e \in exts : save(d, e)) => \E f \in AllFiles : open(d, f)
      BY DEF save, AllFiles
    <3>3. Files \subseteq AllFiles
      BY DEF AllFiles
    <3> QED BY <1>1, <3>1, <3>2, <3>3, Open_Inv, Write_Inv, Sync_Inv, Close_Inv
  <2> QED BY <1>1, <2>1, <2>2
<1> QED BY <1>1, StatInit_Inv, PTL DEF StatSpec

\* OthersSynced: an fsync that returned has synced, for every file that is
\* neither a log nor a table, also one that got the descriptor of a log just
\* closed (sync_internal, ncl_stat.cc:262).
THEOREM OthersSyncedAlways == StatSpec => []OthersSynced
<1>1. StatInv => OthersSynced
  BY DEF StatInv
<1> QED BY <1>1, StatInductive, PTL

\* BytesConserved: every byte the application asks to write to a log or a table
\* is recorded in the histogram of its kind, counted for the next sync, was
\* dropped by close, or made a count the histogram is too small for
\* (record_value, record_accum_value and close, ncl_stat.cc:52, 98, 222, 275).
THEOREM BytesConservedAlways == StatSpec => []BytesConserved
<1>1. StatInv => BytesConserved
  <2> SUFFICES ASSUME StatInv, NEW e \in exts
               PROVE  requested[e] = ext_stat[e] + dropped[e] + oversized[e] +
                          SumOf(fd_accumulated, {d \in Fds : Class(open_file[d]) = e})
    BY DEF BytesConserved, SumOf
  <2>1. {d \in Fds : Class(open_file[d]) = e} = Counting(e)
    BY DEF StatInv, TablesAgree, Counting
  <2> QED BY <2>1 DEF StatInv, Conserved
<1> QED BY <1>1, StatInductive, PTL

=============================================================================
