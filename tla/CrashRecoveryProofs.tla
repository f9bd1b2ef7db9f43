------------------------- MODULE CrashRecoveryProofs ------------------------
(***************************************************************************)
(* The client that crashes and starts again, for every number of servers,  *)
(* replication factor, buffer size and bound: what a client stores in its  *)
(* ZooKeeper node its successor reads back, and the state stays well typed *)
(* through crashes, recoveries and whatever a dead peer seems to answer.   *)
(*                                                                         *)
(* With two replicas, a quorum being both of them, the source of every     *)
(* recovery has every acknowledged write, and so has every peer that was   *)
(* given the file.                                                         *)
(***************************************************************************)
EXTENDS CrashRecovery, QuorumDurableProofs, SequenceTheorems, WellFoundedInduction

-----------------------------------------------------------------------------
(* Induction and recursion over the natural numbers. *)

\* A set of naturals that is not empty has a smallest element.
LEMMA SmallestExists ==
    ASSUME NEW S, S \subseteq Nat, S # {}
    PROVE  \E i \in S : \A j \in S : i <= j
<1> DEFINE R == OpToRel(<, Nat)
<1>1. IsWellFoundedOn(R, Nat)
  BY NatLessThanWellFounded
<1>2. \A x, y \in Nat : <<x, y>> \in R <=> x < y
  BY DEF OpToRel
<1> HIDE DEF R
<1>3. PICK i \in S : \A j \in S : ~(<<j, i>> \in R)
  BY <1>1, WFMin
<1>4. \A j \in S : i \in Nat /\ j \in Nat /\ ~(j < i)
  BY <1>2, <1>3
<1> QED BY <1>4

\* Induction in the form of sets.
LEMMA NatSetInduction ==
    ASSUME NEW T, T \subseteq Nat, 0 \in T, \A n \in T : n + 1 \in T
    PROVE  T = Nat
<1> DEFINE B == Nat \ T
<1> SUFFICES ASSUME B # {} PROVE FALSE
  OBVIOUS
<1>0. B \subseteq Nat
  OBVIOUS
<1> HIDE DEF B
<1>1. PICK i \in B : \A j \in B : i <= j
  BY <1>0, SmallestExists
<1>2. i \in Nat /\ i \notin T
  BY <1>0 DEF B
<1>3. i # 0 /\ i - 1 \in Nat /\ (i - 1) + 1 = i
  BY <1>2
<1>4. i - 1 \in B
  BY <1>2, <1>3 DEF B
<1> QED BY <1>1, <1>2, <1>3, <1>4

\* g follows the recursion up to m.
Follows(g, V, v0, step, m) ==
    g \in [0 .. m -> V] /\ g[0] = v0 /\ \A i \in 0 .. m - 1 : g[i + 1] = step[i][g[i]]

\* f follows it all along.
Recurs(f, V, v0, step) ==
    f \in [Nat -> V] /\ f[0] = v0 /\ \A n \in Nat : f[n + 1] = step[n][f[n]]

\* A step function and a first value define a function on the naturals.
LEMMA RecursionExists ==
    ASSUME NEW V, NEW v0 \in V, NEW step \in [Nat -> [V -> V]]
    PROVE  \E f : Recurs(f, V, v0, step)
<1> DEFINE Exists == {m \in Nat : \E g : Follows(g, V, v0, step, m)}
<1>1. 0 \in Exists
  <2>1. Follows([i \in 0 .. 0 |-> v0], V, v0, step, 0)
    BY DEF Follows
  <2> QED BY <2>1
<1>2. ASSUME NEW m \in Exists PROVE m + 1 \in Exists
  <2>1. PICK g : Follows(g, V, v0, step, m)
    BY <1>2
  <2>2. m \in Nat /\ g \in [0 .. m -> V] /\ g[0] = v0
        /\ \A i \in 0 .. m - 1 : g[i + 1] = step[i][g[i]]
    BY <1>2, <2>1 DEF Follows
  <2> DEFINE h == [i \in 0 .. m + 1 |-> IF i = m + 1 THEN step[m][g[m]] ELSE g[i]]
  <2>3. step[m][g[m]] \in V
    <3>1. g[m] \in V /\ step[m] \in [V -> V]
      BY <2>2
    <3> QED BY <3>1
  <2>4. h \in [0 .. m + 1 -> V]
    BY <2>2, <2>3
  <2>5. h[0] = v0
    BY <2>2
  <2>6. ASSUME NEW i \in 0 .. (m + 1) - 1 PROVE h[i + 1] = step[i][h[i]]
    <3>1. h[i] = g[i]
      BY <2>2, <2>6
    <3>2. CASE i = m
      BY <2>2, <3>1, <3>2
    <3>3. CASE i # m
      <4>1. i \in 0 .. m - 1 /\ i + 1 \in 0 .. m + 1 /\ i + 1 # m + 1
        BY <2>2, <3>3
      <4> QED BY <2>2, <3>1, <4>1
    <3> QED BY <3>2, <3>3
  <2> HIDE DEF h
  <2>7. Follows(h, V, v0, step, m + 1)
    BY <2>4, <2>5, <2>6 DEF Follows
  <2>8. m + 1 \in Nat
    BY <2>2
  <2> QED BY <2>7, <2>8
<1>3. Exists = Nat
  <2>1. Exists \subseteq Nat
    OBVIOUS
  <2> HIDE DEF Exists
  <2> QED BY <1>1, <1>2, <2>1, NatSetInduction
<1> DEFINE pick == [m \in Nat |-> CHOOSE g : Follows(g, V, v0, step, m)]
<1>4. ASSUME NEW m \in Nat PROVE Follows(pick[m], V, v0, step, m)
  <2>1. \E g : Follows(g, V, v0, step, m)
    BY <1>3
  <2> QED BY <2>1
<1> HIDE DEF pick
<1>5. ASSUME NEW m \in Nat PROVE \A i \in Nat : i <= m => pick[m][i] = pick[i][i]
  <2> DEFINE Agree == {i \in Nat : i <= m => \A k \in Nat : i <= k => pick[m][i] = pick[k][i]}
  <2>1. 0 \in Agree
    <3>1. \A k \in Nat : pick[k][0] = v0
      BY <1>4 DEF Follows
    <3> QED BY <3>1
  <2>2. ASSUME NEW i \in Agree PROVE i + 1 \in Agree
    <3>1. i \in Nat
      BY <2>2
    <3>2. ASSUME i + 1 <= m, NEW k \in Nat, i + 1 <= k PROVE pick[m][i + 1] = pick[k][i + 1]
      <4>1. pick[m][i] = pick[k][i]
        BY <2>2, <3>1, <3>2
      <4>2. i \in 0 .. m - 1 /\ i \in 0 .. k - 1
        BY <3>1, <3>2
      <4>3. pick[m][i + 1] = step[i][pick[m][i]]
        BY <1>4, <4>2 DEF Follows
      <4>4. pick[k][i + 1] = step[i][pick[k][i]]
        BY <1>4, <4>2 DEF Follows
      <4> QED BY <4>1, <4>3, <4>4
    <3> QED BY <3>1, <3>2
  <2>3. Agree = Nat
    <3>1. Agree \subseteq Nat
      OBVIOUS
    <3> HIDE DEF Agree
    <3> QED BY <2>1, <2>2, <3>1, NatSetInduction
  <2>4. \A i \in Nat : i \in Agree
    BY <2>3
  <2> QED BY <2>4
<1> DEFINE f == [m \in Nat |-> pick[m][m]]
<1>6. f \in [Nat -> V]
  <2>1. ASSUME NEW m \in Nat PROVE pick[m][m] \in V
    <3>1. m \in 0 .. m
      OBVIOUS
    <3> QED BY <1>4, <3>1 DEF Follows
  <2> QED BY <2>1
<1>7. f[0] = v0
  BY <1>4 DEF Follows
<1>8. ASSUME NEW n \in Nat PROVE f[n + 1] = step[n][f[n]]
  <2>1. n + 1 \in Nat /\ n \in 0 .. (n + 1) - 1 /\ n <= n + 1
    OBVIOUS
  <2>2. pick[n + 1][n + 1] = step[n][pick[n + 1][n]]
    BY <1>4, <2>1 DEF Follows
  <2>3. pick[n + 1][n] = pick[n][n]
    BY <1>5, <2>1
  <2> QED BY <2>1, <2>2, <2>3
<1> HIDE DEF f
<1> QED BY <1>6, <1>7, <1>8 DEF Recurs

-----------------------------------------------------------------------------
(* generateIpString and parseIpString. *)

\* The order in which the addresses are written lists every one.
LEMMA InOrderLists ==
    ASSUME NEW P, IsFiniteSet(P)
    PROVE  /\ InOrder(P) \in [1 .. Cardinality(P) -> P]
           /\ {InOrder(P)[i] : i \in 1 .. Cardinality(P)} = P
<1> DEFINE n == Cardinality(P)
<1>1. PICK g : g \in Bijection(1 .. n, P)
  BY FS_CardinalityType DEF ExistsBijection
<1>2. g \in [1 .. n -> P] /\ \A x \in P : \E i \in 1 .. n : g[i] = x
  BY <1>1 DEF Bijection, Surjection, Injection
<1>3. {g[i] : i \in DOMAIN g} = P
  BY <1>2
<1>4. \E f \in [1 .. n -> P] : {f[i] : i \in DOMAIN f} = P
  BY <1>2, <1>3
<1>5. InOrder(P) \in [1 .. n -> P] /\ {InOrder(P)[i] : i \in DOMAIN InOrder(P)} = P
  BY <1>4 DEF InOrder
<1> QED BY <1>5

\* The characters of a list of addresses.
Alphabet == Letters \cup {":"}

\* A list of peers is written down one by one.
LEMMA JoinedText ==
    ASSUME NEW n \in Nat, NEW list \in [1 .. n -> DOMAIN Addr]
    PROVE  /\ joined(list) \in [0 .. n -> Seq(Alphabet)]
           /\ joined(list)[0] = <<>>
           /\ \A i \in 1 .. n : joined(list)[i] =
                (IF i = 1 THEN <<>> ELSE Append(joined(list)[i - 1], ":")) \o Addr[list[i]]
<1> DEFINE V == Seq(Alphabet)
           step == [i \in Nat |-> [t \in V |->
                      IF i < n THEN (IF i = 0 THEN <<>> ELSE Append(t, ":")) \o Addr[list[i + 1]]
                               ELSE t]]
<1>0. \A i \in 1 .. n : Addr[list[i]] \in V
  <2>1. \A i \in 1 .. n : Addr[list[i]] \in Seq(Letters)
    BY AddrAssumption
  <2> QED BY <2>1 DEF Alphabet
<1>1. step \in [Nat -> [V -> V]]
  <2>1. ASSUME NEW i \in Nat, NEW t \in V
        PROVE  (IF i < n THEN (IF i = 0 THEN <<>> ELSE Append(t, ":")) \o Addr[list[i + 1]]
                         ELSE t) \in V
    <3>1. Append(t, ":") \in V /\ <<>> \in V
      BY DEF Alphabet
    <3>2. CASE i < n
      <4>1. i + 1 \in 1 .. n
        BY <3>2
      <4>2. Addr[list[i + 1]] \in V
        BY <1>0, <4>1
      <4> HIDE DEF V
      <4>3. (IF i = 0 THEN <<>> ELSE Append(t, ":")) \in V
        BY <3>1
      <4> QED BY <3>2, <4>2, <4>3, ConcatProperties DEF V
    <3> QED BY <3>2
  <2> QED BY <2>1
<1>2. <<>> \in V
  OBVIOUS
<1>3. PICK f \in [Nat -> V] : f[0] = <<>> /\ \A i \in Nat : f[i + 1] = step[i][f[i]]
  <2> DEFINE v0 == <<>>
  <2>1. v0 \in V
    BY <1>2
  <2> HIDE DEF V, step, v0
  <2>2. \E f : Recurs(f, V, v0, step)
    BY <1>1, <2>1, RecursionExists
  <2> QED BY <2>2 DEF Recurs, v0
<1>4. Len(list) = n
  OBVIOUS
<1> DEFINE Text(g) == [i \in 0 .. n |-> IF i = 0 THEN <<>>
                         ELSE (IF i = 1 THEN <<>> ELSE Append(g[i - 1], ":")) \o Addr[list[i]]]
           h == [i \in 0 .. n |-> f[i]]
<1>5. h = Text(h)
  <2>1. ASSUME NEW i \in 0 .. n, i # 0
        PROVE  h[i] = (IF i = 1 THEN <<>> ELSE Append(h[i - 1], ":")) \o Addr[list[i]]
    <3>1. i - 1 \in Nat /\ (i - 1) + 1 = i /\ i - 1 < n /\ i - 1 \in 0 .. n
      BY <2>1
    <3>2. f[i] = step[i - 1][f[i - 1]]
      BY <1>3, <3>1
    <3>3. f[i - 1] \in V
      BY <1>3, <3>1
    <3>4. step[i - 1][f[i - 1]] =
            (IF i - 1 = 0 THEN <<>> ELSE Append(f[i - 1], ":")) \o Addr[list[i]]
      BY <3>1, <3>3
    <3>5. h[i] = f[i] /\ h[i - 1] = f[i - 1]
      BY <2>1, <3>1
    <3>6. i - 1 = 0 <=> i = 1
      BY <2>1
    <3> HIDE DEF h, step
    <3> QED BY <3>2, <3>4, <3>5, <3>6
  <2>2. h[0] = <<>>
    BY <1>3
  <2>3. DOMAIN h = 0 .. n
    OBVIOUS
  <2>4. \A i \in 0 .. n : h[i] = Text(h)[i]
    <3> HIDE DEF h
    <3> QED BY <2>1, <2>2
  <2>5. h = [i \in 0 .. n |-> h[i]]
    OBVIOUS
  <2> HIDE DEF h
  <2> QED BY <2>4, <2>5
<1>6. joined(list) = CHOOSE g : g = Text(g)
  BY <1>4 DEF joined
<1> DEFINE J == joined(list)
<1>7. J = Text(J)
  <2> HIDE DEF Text, h
  <2> QED BY <1>5, <1>6
<1>8. J[0] = <<>> /\ \A i \in 1 .. n : J[i] =
         (IF i = 1 THEN <<>> ELSE Append(J[i - 1], ":")) \o Addr[list[i]]
  <2>1. J[0] = Text(J)[0] /\ \A i \in 1 .. n : J[i] = Text(J)[i]
    <3> HIDE DEF J, Text
    <3> QED BY <1>7
  <2>2. Text(J)[0] = <<>>
    <3> HIDE DEF J
    <3> QED OBVIOUS
  <2>3. \A i \in 1 .. n : Text(J)[i] =
         (IF i = 1 THEN <<>> ELSE Append(J[i - 1], ":")) \o Addr[list[i]]
    <3> DEFINE Longer(i) == (IF i = 1 THEN <<>> ELSE Append(J[i - 1], ":")) \o Addr[list[i]]
    <3>1. Text(J) = [i \in 0 .. n |-> IF i = 0 THEN <<>> ELSE Longer(i)]
      OBVIOUS
    <3>2. \A i \in 1 .. n : i \in 0 .. n /\ i # 0
      OBVIOUS
    <3> HIDE DEF Longer, Text
    <3>3. \A i \in 1 .. n : Text(J)[i] = Longer(i)
      BY <3>1, <3>2
    <3> QED BY <3>3 DEF Longer
  <2> HIDE DEF J, Text
  <2> QED BY <2>1, <2>2, <2>3
<1>9. J = [i \in 0 .. n |-> J[i]]
  <2> HIDE DEF J
  <2> QED BY <1>7
<1> DEFINE Typed == {i \in Nat : i <= n => J[i] \in V}
<1>10. 0 \in Typed
  <2> HIDE DEF J, V
  <2> QED BY <1>2, <1>8
<1>11. ASSUME NEW i \in Typed PROVE i + 1 \in Typed
  <2> SUFFICES ASSUME i + 1 <= n PROVE J[i + 1] \in V
    OBVIOUS
  <2>1. i + 1 \in 1 .. n /\ (i + 1) - 1 = i /\ i \in Nat /\ i <= n
    OBVIOUS
  <2>2. J[i] \in V
    BY <1>11, <2>1
  <2>3. J[i + 1] = (IF i + 1 = 1 THEN <<>> ELSE Append(J[i], ":")) \o Addr[list[i + 1]]
    <3> HIDE DEF J
    <3> QED BY <1>8, <2>1
  <2>4. Append(J[i], ":") \in V
    <3> HIDE DEF J
    <3> QED BY <2>2 DEF Alphabet
  <2>5. Addr[list[i + 1]] \in V
    BY <1>0, <2>1
  <2> HIDE DEF J, V
  <2>6. (IF i + 1 = 1 THEN <<>> ELSE Append(J[i], ":")) \in V
    BY <1>2, <2>4
  <2> QED BY <2>3, <2>5, <2>6, ConcatProperties DEF V
<1>12. Typed = Nat
  <2>1. Typed \subseteq Nat
    OBVIOUS
  <2> HIDE DEF Typed
  <2> QED BY <1>10, <1>11, <2>1, NatSetInduction
<1>13. \A i \in 0 .. n : J[i] \in V
  <2>1. \A i \in Nat : i \in Typed
    BY <1>12
  <2> HIDE DEF J, V
  <2> QED BY <2>1
<1>14. J \in [0 .. n -> V]
  <2> HIDE DEF J, V
  <2> QED BY <1>9, <1>13
<1> QED BY <1>8, <1>14

\* The k-th address begins at Begin(list, k) and ends before End(list, k).
End(list, k) == Len(joined(list)[k])
Begin(list, k) == IF k = 1 THEN 0 ELSE End(list, k - 1) + 1

\* The text of m addresses begins with that of k of them, and a colon.
Extends(list, k, m) ==
    /\ \A j \in 1 .. End(list, k) : joined(list)[m][j] = joined(list)[k][j]
    /\ k < m => End(list, k) < End(list, m) /\ joined(list)[m][End(list, k) + 1] = ":"

\* One more address.
LEMMA JoinedOne ==
    ASSUME NEW n \in Nat, NEW list \in [1 .. n -> DOMAIN Addr], NEW k \in 1 .. n
    PROVE  /\ End(list, k) = Begin(list, k) + Len(Addr[list[k]])
           /\ Begin(list, k) \in Nat /\ End(list, k) \in Nat
           /\ Begin(list, k) < End(list, k)
           /\ \A j \in 1 .. Len(Addr[list[k]]) :
                joined(list)[k][Begin(list, k) + j] = Addr[list[k]][j]
           /\ k > 1 => Extends(list, k - 1, k)
<1> DEFINE t == joined(list)[k]
           a == Addr[list[k]]
           u == IF k = 1 THEN <<>> ELSE Append(joined(list)[k - 1], ":")
<1>0. joined(list)[k - 1] \in Seq(Alphabet)
  <2>1. joined(list) \in [0 .. n -> Seq(Alphabet)]
    BY JoinedText
  <2>2. k - 1 \in 0 .. n
    OBVIOUS
  <2> QED BY <2>1, <2>2
<1>1. t = u \o a
  BY JoinedText
<1>2. a \in Seq(Alphabet) /\ Len(a) \in Nat /\ Len(a) # 0
  <2>1. a \in Seq(Letters) /\ a # <<>>
    BY AddrAssumption
  <2> HIDE DEF a
  <2> QED BY <2>1 DEF Alphabet
<1>3. u \in Seq(Alphabet) /\ Len(u) = Begin(list, k)
  <2>1. CASE k = 1
    BY <2>1 DEF Begin
  <2>2. CASE k # 1
    <3>1. joined(list)[k - 1] \in Seq(Alphabet)
      BY <1>0
    <3>2. u = Append(joined(list)[k - 1], ":") /\ Begin(list, k) = Len(joined(list)[k - 1]) + 1
      BY <2>2 DEF Begin, End
    <3>3. ":" \in Alphabet
      BY DEF Alphabet
    <3> HIDE DEF u
    <3> QED BY <3>1, <3>2, <3>3, AppendProperties
  <2> QED BY <2>1, <2>2
<1> HIDE DEF a, u
<1>4. /\ Len(t) = Len(u) + Len(a)
      /\ \A i \in 1 .. Len(u) + Len(a) : t[i] = IF i <= Len(u) THEN u[i] ELSE a[i - Len(u)]
  BY <1>1, <1>2, <1>3, ConcatProperties
<1>5. Len(u) \in Nat
  BY <1>3
<1>6. End(list, k) = Len(t)
  BY DEF End
<1> HIDE DEF t
<1>7. \A j \in 1 .. Len(a) : t[Begin(list, k) + j] = a[j]
  BY <1>2, <1>3, <1>4, <1>5
<1>8. ASSUME k > 1 PROVE Extends(list, k - 1, k)
  <2> DEFINE w == joined(list)[k - 1]
  <2>1. w \in Seq(Alphabet)
    BY <1>0
  <2>2. u = Append(w, ":")
    BY <1>8 DEF u
  <2>3. End(list, k - 1) = Len(w)
    BY DEF End
  <2> HIDE DEF w
  <2>4. Len(u) = Len(w) + 1 /\ u[Len(w) + 1] = ":" /\ Len(w) \in Nat
        /\ \A j \in 1 .. Len(w) : u[j] = w[j]
    <3>1. ":" \in Alphabet
      BY DEF Alphabet
    <3> QED BY <2>1, <2>2, <3>1, AppendProperties
  <2>5. \A j \in 1 .. Len(w) : t[j] = w[j]
    BY <1>2, <1>4, <1>5, <2>4
  <2>6. Len(w) < Len(t) /\ t[Len(w) + 1] = ":"
    BY <1>2, <1>4, <1>5, <2>4
  <2> QED BY <1>6, <2>3, <2>5, <2>6 DEF Extends, t, w
<1> QED BY <1>2, <1>3, <1>4, <1>5, <1>6, <1>7, <1>8 DEF t, a

\* The text of fewer addresses begins that of more.
LEMMA JoinedPrefix ==
    ASSUME NEW n \in Nat, NEW list \in [1 .. n -> DOMAIN Addr], NEW k \in 1 .. n
    PROVE  \A m \in k .. n : Extends(list, k, m)
<1> DEFINE T == {d \in Nat : k + d <= n => Extends(list, k, k + d)}
<1>1. 0 \in T
  BY DEF Extends
<1>2. ASSUME NEW d \in T PROVE d + 1 \in T
  <2> SUFFICES ASSUME k + (d + 1) <= n PROVE Extends(list, k, k + (d + 1))
    OBVIOUS
  <2> DEFINE m == k + d
  <2>1. m \in 1 .. n /\ m + 1 \in 1 .. n /\ m + 1 > 1 /\ (m + 1) - 1 = m /\ k + (d + 1) = m + 1
        /\ k <= m
    OBVIOUS
  <2>2. Extends(list, k, m)
    BY <1>2, <2>1
  <2> HIDE DEF m, T
  <2>3. Extends(list, m, m + 1)
    BY <2>1, JoinedOne
  <2>4. End(list, k) \in Nat /\ End(list, m) \in Nat /\ End(list, m + 1) \in Nat
    BY <2>1, JoinedOne
  <2> DEFINE J == joined(list)
             e(i) == End(list, i)
  <2>5. e(k) <= e(m)
    BY <2>1, <2>2, <2>4 DEF Extends
  <2>6. /\ \A j \in 1 .. e(k) : J[m][j] = J[k][j]
        /\ k < m => e(k) < e(m) /\ J[m][e(k) + 1] = ":"
    BY <2>2 DEF Extends
  <2>7. /\ \A j \in 1 .. e(m) : J[m + 1][j] = J[m][j]
        /\ e(m) < e(m + 1) /\ J[m + 1][e(m) + 1] = ":"
    BY <2>1, <2>3 DEF Extends
  <2>8. e(k) \in Nat /\ e(m) \in Nat /\ e(m + 1) \in Nat
    BY <2>4
  <2>a. k \in Nat /\ m \in Nat
    BY <2>1
  <2> HIDE DEF J, e
  <2>9. \A j \in 1 .. e(k) : J[m + 1][j] = J[k][j]
    BY <2>5, <2>6, <2>7, <2>8
  <2>10. e(k) < e(m + 1)
    BY <2>5, <2>7, <2>8
  <2>11. J[m + 1][e(k) + 1] = ":"
    <3>1. CASE k = m
      BY <3>1, <2>7
    <3>2. CASE k # m
      <4>1. k < m
        BY <2>a, <2>1, <3>2
      <4>2. e(k) < e(m) /\ J[m][e(k) + 1] = ":"
        BY <4>1, <2>6
      <4>3. e(k) + 1 \in 1 .. e(m)
        BY <4>2, <2>8
      <4> QED BY <4>2, <4>3, <2>7
    <3> QED BY <3>1, <3>2
  <2> QED BY <2>1, <2>9, <2>10, <2>11 DEF Extends, J, e
<1>3. T = Nat
  <2>1. T \subseteq Nat
    OBVIOUS
  <2> HIDE DEF T
  <2> QED BY <1>1, <1>2, <2>1, NatSetInduction
<1> SUFFICES ASSUME NEW m \in k .. n PROVE Extends(list, k, m)
  OBVIOUS
<1>4. m - k \in Nat /\ k + (m - k) = m
  OBVIOUS
<1>5. m - k \in T
  BY <1>3, <1>4
<1>6. k + (m - k) <= n => Extends(list, k, k + (m - k))
  BY <1>5
<1> QED BY <1>4, <1>6

\* What parseIpString meets in the text of n addresses: after the k-th one it
\* finds the next colon, or none after the last, and cuts the address out.
LEMMA CutAddress ==
    ASSUME NEW n \in Nat, NEW list \in [1 .. n -> DOMAIN Addr], NEW k \in 1 .. n
    PROVE  LET s == joined(list)[n]
               next == IF k < n THEN End(list, k) ELSE -1
           IN  /\ find(s, ":", Begin(list, k)) = next
               /\ substr(s, Begin(list, k), next - Begin(list, k)) = Addr[list[k]]
<1> DEFINE s == joined(list)[n]
           a == Addr[list[k]]
           b == Begin(list, k)
           e == End(list, k)
           next == IF k < n THEN e ELSE -1
<1>0. n \in 1 .. n /\ n \in k .. n
  OBVIOUS
<1>1. /\ e = b + Len(a) /\ b \in Nat /\ e \in Nat /\ b < e
      /\ \A j \in 1 .. Len(a) : joined(list)[k][b + j] = a[j]
  BY JoinedOne
<1>2. /\ \A j \in 1 .. e : s[j] = joined(list)[k][j]
      /\ k < n => e < Len(s) /\ s[e + 1] = ":"
      /\ k = n => e = Len(s)
  BY <1>0, JoinedPrefix DEF Extends, End
<1>3. a \in Seq(Letters) /\ Len(a) \in Nat
  <2>1. a \in Seq(Letters)
    BY AddrAssumption
  <2> QED BY <2>1
<1>4. s \in Seq(Alphabet) /\ Len(s) \in Nat
  <2>0. n \in 0 .. n
    OBVIOUS
  <2>1. joined(list) \in [0 .. n -> Seq(Alphabet)]
    BY JoinedText
  <2>2. s \in Seq(Alphabet)
    BY <2>0, <2>1
  <2> HIDE DEF s
  <2> QED BY <2>2
<1>k. k \in Nat /\ k <= n
  OBVIOUS
<1> HIDE DEF s, a, b, e
<1>5. \A j \in 1 .. Len(a) : s[b + j] = a[j]
  BY <1>1, <1>2, <1>3
<1>6. \A i \in b .. e - 1 : s[i + 1] # ":"
  <2> SUFFICES ASSUME NEW i \in b .. e - 1 PROVE s[i + 1] # ":"
    OBVIOUS
  <2>1. (i + 1) - b \in 1 .. Len(a) /\ b + ((i + 1) - b) = i + 1
    BY <1>1, <1>3
  <2>2. s[i + 1] = a[(i + 1) - b]
    BY <1>5, <2>1
  <2>3. a[(i + 1) - b] \in Letters
    BY <1>3, <2>1
  <2> QED BY <2>2, <2>3, AddrAssumption
<1> DEFINE at == {i \in b .. Len(s) - 1 : s[i + 1] = ":"}
<1>7. find(s, ":", b) = next
  <2>0. find(s, ":", b) = IF at = {} THEN -1 ELSE CHOOSE i \in at : \A j \in at : i <= j
    BY DEF find
  <2>1. CASE k < n
    <3>1. e < Len(s) /\ s[e + 1] = ":"
      BY <1>2, <2>1
    <3>2. e \in at
      BY <1>1, <1>4, <3>1
    <3>3. \A j \in at : e <= j
      <4> SUFFICES ASSUME NEW j \in at, ~(e <= j) PROVE FALSE
        OBVIOUS
      <4>1. j \in b .. e - 1
        BY <1>1, <1>4
      <4> QED BY <1>6, <4>1
    <3>4. at \subseteq Int
      BY <1>1, <1>4
    <3> HIDE DEF at
    <3>5. \A i \in at : (\A j \in at : i <= j) => i = e
      BY <3>2, <3>3, <3>4
    <3>6. (CHOOSE i \in at : \A j \in at : i <= j) = e
      BY <3>2, <3>3, <3>5
    <3> QED BY <2>0, <2>1, <3>2, <3>6
  <2>2. CASE ~(k < n)
    <3>1. e = Len(s)
      BY <1>2, <1>k, <2>2
    <3>2. at = {}
      BY <1>6, <3>1
    <3> QED BY <2>0, <2>2, <3>2
  <2> QED BY <2>1, <2>2
<1>8. (IF next - b < 0 THEN Len(s) ELSE b + (next - b)) = e
  BY <1>1, <1>2, <1>k
<1>9. substr(s, b, next - b) = SubSeq(s, b + 1, e)
  <2> HIDE DEF next
  <2> QED BY <1>8 DEF substr
<1>10. SubSeq(s, b + 1, e) = a
  <2>1. e <= Len(s)
    BY <1>1, <1>2, <1>4, <1>k
  <2>2. e - (b + 1) + 1 = Len(a)
    BY <1>1, <1>3
  <2> DEFINE c == SubSeq(s, b + 1, e)
  <2>3. c \in Seq(Alphabet) /\ Len(c) = Len(a)
        /\ \A i \in 1 .. Len(a) : c[i] = s[(b + 1) + i - 1]
    BY <1>1, <1>3, <1>4, <2>1, <2>2, SubSeqProperties
  <2>4. a \in Seq(Alphabet)
    BY <1>3 DEF Alphabet
  <2> HIDE DEF c
  <2>5. \A i \in 1 .. Len(a) : c[i] = a[i]
    BY <1>1, <1>3, <1>5, <2>3
  <2>6. c = a
    BY <2>3, <2>4, <2>5, SeqEqual
  <2> QED BY <2>6 DEF c
<1>11. find(s, ":", b) = next /\ substr(s, b, next - b) = a
  BY <1>7, <1>9, <1>10
<1> QED BY <1>11 DEF s, a, b, e

\* The variables of the loop after k addresses.
LoopAt(list, n, k) ==
    [pos |-> Begin(list, k), next_pos |-> IF k < n THEN End(list, k) ELSE -1,
     peers |-> {Addr[list[j]] : j \in 1 .. k}, cnt |-> k]

\* The loop of parseIpString, as a function of its variables.
LoopFirst == [pos |-> 0, next_pos |-> -1, peers |-> {}, cnt |-> 0]
LoopStep(s, was) ==
    LET from == was.next_pos + 1
        next == find(s, ":", from)
    IN  [pos |-> from, next_pos |-> next,
         peers |-> was.peers \cup {substr(s, from, next - from)}, cnt |-> was.cnt + 1]
LoopNext(s, was, k) == IF k > 1 /\ was.next_pos = -1 THEN was ELSE LoopStep(s, was)
LoopRule(s, f) == [k \in Nat |-> IF k = 0 THEN LoopFirst ELSE LoopNext(s, f[k - 1], k)]

\* One iteration takes one address more.
LEMMA OneIteration ==
    ASSUME NEW n \in Nat, NEW list \in [1 .. n -> DOMAIN Addr], NEW k \in 1 .. n,
           NEW was, was = IF k = 1 THEN LoopFirst ELSE LoopAt(list, n, k - 1)
    PROVE  LoopNext(joined(list)[n], was, k) = LoopAt(list, n, k)
<1> DEFINE s == joined(list)[n]
           next == IF k < n THEN End(list, k) ELSE -1
<1>1. was.next_pos + 1 = Begin(list, k)
  <2>1. CASE k = 1
    BY <2>1 DEF Begin, LoopFirst
  <2>2. CASE k # 1
    <3>1. k - 1 < n
      OBVIOUS
    <3>2. was.next_pos = End(list, k - 1)
      BY <2>2, <3>1 DEF LoopAt
    <3> QED BY <2>2, <3>2 DEF Begin
  <2> QED BY <2>1, <2>2
<1>2. ~(k > 1 /\ was.next_pos = -1)
  <2> SUFFICES ASSUME k > 1 PROVE was.next_pos # -1
    OBVIOUS
  <2>1. k - 1 < n /\ k # 1 /\ k - 1 \in 1 .. n
    OBVIOUS
  <2>2. was.next_pos = End(list, k - 1)
    BY <2>1 DEF LoopAt
  <2>3. End(list, k - 1) \in Nat
    BY <2>1, JoinedOne
  <2> QED BY <2>2, <2>3
<1>3. find(s, ":", Begin(list, k)) = next /\ substr(s, Begin(list, k), next - Begin(list, k)) = Addr[list[k]]
  BY CutAddress
<1>4. was.cnt + 1 = k
  <2>1. CASE k = 1
    BY <2>1 DEF LoopFirst
  <2>2. CASE k # 1
    <3>1. was.cnt = k - 1
      BY <2>2 DEF LoopAt
    <3> QED BY <3>1
  <2> QED BY <2>1, <2>2
<1>5. was.peers \cup {Addr[list[k]]} = {Addr[list[j]] : j \in 1 .. k}
  <2>1. CASE k = 1
    <3>1. was.peers = {}
      BY <2>1 DEF LoopFirst
    <3>2. 1 .. k = {1}
      BY <2>1
    <3> QED BY <2>1, <3>1, <3>2
  <2>2. CASE k # 1
    <3>1. was.peers = {Addr[list[j]] : j \in 1 .. k - 1}
      BY <2>2 DEF LoopAt
    <3>2. 1 .. k = (1 .. k - 1) \cup {k}
      OBVIOUS
    <3> QED BY <3>1, <3>2
  <2> QED BY <2>1, <2>2
<1>6. LoopNext(s, was, k) = LoopStep(s, was)
  BY <1>2 DEF LoopNext
<1> HIDE DEF s, next
<1>7. LoopStep(s, was) = [pos |-> Begin(list, k), next_pos |-> next,
                          peers |-> was.peers \cup {Addr[list[k]]}, cnt |-> k]
  BY <1>1, <1>3, <1>4 DEF LoopStep
<1> QED BY <1>5, <1>6, <1>7 DEF LoopAt, s, next

\* The loop has them all after as many iterations, and stops.
LEMMA LoopReads ==
    ASSUME NEW n \in Nat \ {0}, NEW list \in [1 .. n -> DOMAIN Addr]
    PROVE  \A k \in Nat : k >= n =>
             parseIps(joined(list)[n], -1)[k] = LoopAt(list, n, n)
<1> DEFINE s == joined(list)[n]
           F == parseIps(s, -1)
           g == [k \in Nat |-> IF k = 0 THEN LoopFirst
                               ELSE LoopAt(list, n, IF k < n THEN k ELSE n)]
<1>1. F = CHOOSE f : f = LoopRule(s, f)
  <2> HIDE DEF s
  <2> QED BY DEF parseIps, LoopRule, LoopNext, LoopStep, LoopFirst
<1>2. ASSUME NEW k \in Nat, k # 0 PROVE g[k] = LoopNext(s, g[k - 1], k)
  <2>0. k - 1 \in Nat
    BY <1>2
  <2>1. CASE k <= n
    <3>1. g[k] = LoopAt(list, n, k)
      BY <1>2, <2>1
    <3>2. g[k - 1] = IF k = 1 THEN LoopFirst ELSE LoopAt(list, n, k - 1)
      BY <1>2, <2>0, <2>1
    <3>3. k \in 1 .. n
      BY <1>2, <2>1
    <3> HIDE DEF g
    <3> QED BY <3>1, <3>2, <3>3, OneIteration
  <2>2. CASE ~(k <= n)
    <3>1. g[k] = LoopAt(list, n, n)
      BY <1>2, <2>2
    <3>2. g[k - 1] = LoopAt(list, n, n)
      BY <1>2, <2>0, <2>2
    <3>3. LoopAt(list, n, n).next_pos = -1 /\ k > 1
      BY <1>2, <2>2 DEF LoopAt
    <3> HIDE DEF g
    <3> QED BY <3>1, <3>2, <3>3 DEF LoopNext
  <2> QED BY <2>1, <2>2
<1>3. g = LoopRule(s, g)
  <2>1. g[0] = LoopFirst
    OBVIOUS
  <2>2. g = [k \in Nat |-> g[k]]
    OBVIOUS
  <2> HIDE DEF g
  <2>3. \A k \in Nat : g[k] = IF k = 0 THEN LoopFirst ELSE LoopNext(s, g[k - 1], k)
    BY <1>2, <2>1
  <2> QED BY <2>2, <2>3 DEF LoopRule
<1>4. F = LoopRule(s, F)
  <2> HIDE DEF g, F
  <2> QED BY <1>1, <1>3
<1>5. F[0] = LoopFirst /\ \A k \in Nat : k # 0 => F[k] = LoopNext(s, F[k - 1], k)
  <2> HIDE DEF F
  <2>1. \A k \in Nat : F[k] = LoopRule(s, F)[k]
    BY <1>4
  <2>2. \A k \in Nat : LoopRule(s, F)[k] = IF k = 0 THEN LoopFirst ELSE LoopNext(s, F[k - 1], k)
    BY DEF LoopRule
  <2> QED BY <2>1, <2>2
<1> DEFINE Same == {k \in Nat : F[k] = g[k]}
<1>6. 0 \in Same
  <2>1. g[0] = LoopFirst
    OBVIOUS
  <2> HIDE DEF F, g
  <2> QED BY <1>5, <2>1
<1>7. ASSUME NEW k \in Same PROVE k + 1 \in Same
  <2> HIDE DEF F, g
  <2>1. k \in Nat /\ k + 1 \in Nat /\ k + 1 # 0 /\ (k + 1) - 1 = k /\ F[k] = g[k]
    BY <1>7
  <2>2. F[k + 1] = LoopNext(s, F[k], k + 1) /\ g[k + 1] = LoopNext(s, g[k], k + 1)
    BY <1>2, <1>5, <2>1
  <2> QED BY <2>1, <2>2
<1>8. Same = Nat
  <2>1. Same \subseteq Nat
    OBVIOUS
  <2> HIDE DEF Same
  <2> QED BY <1>6, <1>7, <2>1, NatSetInduction
<1>9. \A k \in Nat : k >= n => g[k] = LoopAt(list, n, n)
  OBVIOUS
<1>10. \A k \in Nat : F[k] = g[k]
  <2> HIDE DEF F, g
  <2> QED BY <1>8
<1> HIDE DEF g, F
<1>11. \A k \in Nat : k >= n => F[k] = LoopAt(list, n, n)
  BY <1>9, <1>10
<1> QED BY <1>11 DEF F

\* A list has at least as many characters as addresses.
LEMMA EndGrows ==
    ASSUME NEW n \in Nat, NEW list \in [1 .. n -> DOMAIN Addr]
    PROVE  \A k \in 1 .. n : k <= End(list, k)
<1> DEFINE T == {k \in Nat : k \in 1 .. n => k <= End(list, k)}
<1>1. 0 \in T
  OBVIOUS
<1>2. ASSUME NEW k \in T PROVE k + 1 \in T
  <2> SUFFICES ASSUME k + 1 \in 1 .. n PROVE k + 1 <= End(list, k + 1)
    OBVIOUS
  <2>1. /\ Begin(list, k + 1) \in Nat /\ End(list, k + 1) \in Nat
        /\ Begin(list, k + 1) < End(list, k + 1)
    BY JoinedOne
  <2>2. CASE k = 0
    BY <2>1, <2>2
  <2>3. CASE k # 0
    <3>1. k \in 1 .. n /\ k \in Nat
      BY <2>3
    <3>2. k <= End(list, k) /\ End(list, k) \in Nat
      BY <1>2, <3>1, JoinedOne
    <3>3. Begin(list, k + 1) = End(list, k) + 1
      BY <3>1 DEF Begin
    <3> HIDE DEF T
    <3> QED BY <2>1, <3>1, <3>2, <3>3
  <2> QED BY <2>2, <2>3
<1>3. T = Nat
  <2>1. T \subseteq Nat
    OBVIOUS
  <2> HIDE DEF T
  <2> QED BY <1>1, <1>2, <2>1, NatSetInduction
<1>4. \A k \in Nat : k \in T
  BY <1>3
<1> QED BY <1>4

\* What a client stores in its node without an epoch, as all of them do, it
\* reads back: the addresses of its peers, and their number.
LEMMA ReadBack ==
    ASSUME NEW P, P \subseteq DOMAIN Addr, IsFiniteSet(P)
    PROVE  parseIpString(generateIpString(P, 0)) =
             [epoch |-> 0, peers |-> {Addr[p] : p \in P}, count |-> Cardinality(P)]
<1> DEFINE n == Cardinality(P)
           list == InOrder(P)
           s == joined(list)[n]
<1>1. n \in Nat /\ list \in [1 .. n -> P] /\ {list[i] : i \in 1 .. n} = P
  BY FS_CardinalityType, InOrderLists
<1>2. list \in [1 .. n -> DOMAIN Addr]
  BY <1>1
<1> HIDE DEF list, n
<1>3. joined(list) \in [0 .. n -> Seq(Alphabet)] /\ joined(list)[0] = <<>>
  BY <1>1, <1>2, JoinedText
<1>4. s \in Seq(Alphabet)
  <2>1. n \in 0 .. n
    BY <1>1
  <2> QED BY <1>3, <2>1
<1>5. generateIpString(P, 0) = s
  <2>1. generateIpString(P, 0) = <<>> \o s
    BY DEF generateIpString, list, n
  <2> HIDE DEF s
  <2> QED BY <1>4, <2>1, ConcatEmptySeq
<1>6. find(s, "/", 0) = -1
  <2> HIDE DEF s
  <2>1. \A i \in 0 .. Len(s) - 1 : s[i + 1] \in Alphabet
    <3>1. Len(s) \in Nat
      BY <1>4
    <3>2. \A i \in 0 .. Len(s) - 1 : i + 1 \in 1 .. Len(s)
      BY <3>1
    <3> QED BY <1>4, <3>2, ElementOfSeq
  <2>2. "/" \notin Alphabet
    BY AddrAssumption DEF Alphabet
  <2>3. {i \in 0 .. Len(s) - 1 : s[i + 1] = "/"} = {}
    BY <2>1, <2>2
  <2> QED BY <2>3 DEF find
<1>7. CASE n = 0
  <2>1. s = <<>>
    BY <1>3, <1>7
  <2>2. P = {}
    BY <1>1, <1>7
  <2> HIDE DEF s
  <2>3. parseIpString(s) = [epoch |-> 0, peers |-> {}, count |-> 0]
    BY <2>1 DEF parseIpString
  <2>4. {Addr[p] : p \in P} = {}
    BY <2>2
  <2> QED BY <1>5, <1>7, <2>3, <2>4 DEF n
<1>8. CASE n # 0
  <2>1. n \in Nat \ {0} /\ n \in 1 .. n
    BY <1>1, <1>8
  <2>2. Len(s) = End(list, n) /\ n <= Len(s) /\ Len(s) \in Nat
    <3>1. Len(s) = End(list, n)
      BY DEF End
    <3>2. n <= End(list, n) /\ End(list, n) \in Nat
      BY <1>1, <1>2, <2>1, EndGrows, JoinedOne
    <3> QED BY <3>1, <3>2
  <2>3. parseIps(s, -1)[Len(s) + 1] = LoopAt(list, n, n)
    <3>1. Len(s) + 1 \in Nat /\ Len(s) + 1 >= n
      BY <1>1, <2>2
    <3> QED BY <1>2, <2>1, <3>1, LoopReads
  <2>4. s # <<>> /\ -1 # Len(s) - 1
    <3> HIDE DEF s
    <3> QED BY <2>1, <2>2
  <2> HIDE DEF s
  <2>5. parseIpString(s) = [epoch |-> 0, peers |-> LoopAt(list, n, n).peers,
                            count |-> LoopAt(list, n, n).cnt]
    BY <1>6, <2>3, <2>4 DEF parseIpString
  <2>6. LoopAt(list, n, n).peers = {Addr[list[j]] : j \in 1 .. n} /\ LoopAt(list, n, n).cnt = n
    BY DEF LoopAt
  <2>7. {Addr[list[j]] : j \in 1 .. n} = {Addr[p] : p \in P}
    BY <1>1
  <2> QED BY <1>5, <2>5, <2>6, <2>7 DEF n
<1> QED BY <1>7, <1>8

-----------------------------------------------------------------------------
(* findSize. *)

\* findSize is a size inside the region: everything behind it is zero, and the
\* last byte before it is not.
LEMMA FindSizeExact ==
    ASSUME NEW m \in [Cells -> Nat]
    PROVE  /\ findSize(m) \in 0 .. BufSize
           /\ findSize(m) = 0 \/ m[findSize(m) - 1] # 0
           /\ \A c \in Cells : c >= findSize(m) => m[c] = 0
<1> DEFINE E(n) == \A c \in Cells : c >= n => m[c] = 0
           S == {n \in 0 .. BufSize : E(n)}
<1> USE BufSizeAssumption
<1>1. BufSize \in S
  BY DEF Cells
<1>2. PICK n \in S : \A j \in S : n <= j
  <2>1. S \subseteq Nat
    OBVIOUS
  <2>2. S # {}
    BY <1>1
  <2> HIDE DEF S
  <2> QED BY <2>1, <2>2, SmallestExists
<1>3. n = 0 \/ m[n - 1] # 0
  <2> SUFFICES ASSUME n # 0, m[n - 1] = 0 PROVE FALSE
    OBVIOUS
  <2>1. n - 1 \in 0 .. BufSize
    BY <1>2
  <2>2. \A c \in Cells : c >= n - 1 => c = n - 1 \/ c >= n
    BY <1>2 DEF Cells
  <2>3. E(n - 1)
    BY <1>2, <2>2
  <2>4. n <= n - 1
    BY <1>2, <2>1, <2>3
  <2> QED BY <1>2, <2>4
<1>4. \E k \in 0 .. BufSize : (k = 0 \/ m[k - 1] # 0) /\ E(k)
  BY <1>2, <1>3
<1> QED BY <1>4 DEF findSize

-----------------------------------------------------------------------------
(* Type correctness. *)

\* What a connected peer or a stack answers to GET_INFO is a sequence number
\* and a size; only the former need fit the buffer.
LEMMA AnswersType ==
    ASSUME CRTypeOK, NEW answer \in Answers, NEW s \in getRecoverSrcPeer(answer)
    PROVE  s \in peers /\ answer[s].size \in Nat
<1>1. PICK stack \in [peers \ conn -> [seq : 0 .. MaxGarbage, size : 0 .. MaxGarbage]] :
        answer = [p \in peers |-> IF p \in conn THEN [seq |-> mr_seq[p], size |-> findSize(mr[p])]
                                  ELSE stack[p]]
  BY DEF Answers
<1>2. s \in peers
  BY <1>1 DEF getRecoverSrcPeer
<1>3. CASE s \in conn
  <2>1. mr[s] \in [Cells -> Nat]
    <3>1. mr \in [Peers -> [Cells -> 0 .. MaxWrites]] /\ peers \in SUBSET Peers
      BY DEF CRTypeOK, TypeOK, RdmaTypeOK, ClientTypeOK
    <3>2. mr[s] \in [Cells -> 0 .. MaxWrites]
      BY <1>2, <3>1
    <3> QED BY <3>2
  <2>2. findSize(mr[s]) \in 0 .. BufSize
    BY <2>1, FindSizeExact
  <2>3. answer[s].size = findSize(mr[s])
    BY <1>1, <1>2, <1>3
  <2> QED BY <1>2, <2>2, <2>3, BufSizeAssumption
<1>4. CASE s \notin conn
  <2>1. answer[s] = stack[s] /\ stack[s] \in [seq : 0 .. MaxGarbage, size : 0 .. MaxGarbage]
    BY <1>1, <1>2, <1>4
  <2>2. answer[s].size \in 0 .. MaxGarbage
    BY <2>1
  <2> QED BY <1>2, <2>2, RecoveryAssumption
<1> QED BY <1>2, <1>3, <1>4

\* A restarted client reads in its node what its predecessor wrote there, and
\* finds the same servers.
LEMMA NodeType ==
    ASSUME TypeOK
    PROVE  /\ {p \in Peers : Addr[p] \in parseIpString(generateIpString(zknode, 0)).peers} = zknode
           /\ parseIpString(generateIpString(zknode, 0)).peers = {Addr[p] : p \in zknode}
<1>1. IsFiniteSet(zknode) /\ zknode \subseteq Peers
  BY ConstantsAssumption, FS_Subset DEF TypeOK, ZkTypeOK
<1>2. zknode \subseteq DOMAIN Addr
  BY <1>1, RecoveryAssumption
<1>3. parseIpString(generateIpString(zknode, 0)) =
        [epoch |-> 0, peers |-> {Addr[p] : p \in zknode}, count |-> Cardinality(zknode)]
  BY <1>1, <1>2, ReadBack
<1>4. parseIpString(generateIpString(zknode, 0)).peers = {Addr[p] : p \in zknode}
  BY <1>3
<1>5. \A p, q \in Peers : Addr[p] = Addr[q] => p = q
  BY AddrAssumption, RecoveryAssumption
<1>6. {p \in Peers : Addr[p] \in {Addr[q] : q \in zknode}} = zknode
  BY <1>1, <1>5
<1> QED BY <1>4, <1>6

\* What Restart does, in terms of the servers.
LEMMA RestartPeers ==
    ASSUME TypeOK, Restart
    PROVE  /\ peers' = zknode /\ conn' = zknode /\ exists_watch' = zknode \cap servers
           /\ zknode \subseteq alive
<1>1. /\ peers' = zknode /\ conn' = zknode /\ exists_watch' = zknode \cap servers
  BY NodeType DEF Restart
<1>2. {Addr[p] : p \in zknode} \subseteq {Addr[p] : p \in alive}
  BY NodeType DEF Restart
<1>3. zknode \subseteq Peers /\ alive \subseteq Peers
  BY DEF TypeOK, ZkTypeOK, RdmaTypeOK
<1>4. \A p, q \in Peers : Addr[p] = Addr[q] => p = q
  BY AddrAssumption, RecoveryAssumption
<1> QED BY <1>1, <1>2, <1>3, <1>4

\* Crashes, restarts and recoveries keep the types.
LEMMA CRTypeStep == CRTypeOK /\ [CRNext]_crVars => CRTypeOK'
<1> SUFFICES ASSUME CRTypeOK, [CRNext]_crVars PROVE CRTypeOK'
  OBVIOUS
<1> USE ConstantsAssumption, BufSizeAssumption, RecoveryAssumption
<1>t. TypeOK
  BY DEF CRTypeOK
<1>1. ASSUME [Next]_vars, UNCHANGED recoverVars PROVE CRTypeOK'
  <2>1. TypeOK'
    BY <1>t, <1>1, TypeStep
  <2> QED BY <1>1, <2>1 DEF CRTypeOK, recoverVars
<1>2. CASE ClientCrash
  <2>0. Zeroed \in [Cells -> 0 .. MaxWrites]
    BY DEF Zeroed
  <2>1. RdmaTypeOK'
    BY <1>t, <1>2, <2>0 DEF ClientCrash, TypeOK, RdmaTypeOK
  <2>2. ZkTypeOK' /\ ClientTypeOK'
    <3>1. op_queue' \in [Peers -> Seq(Writes)]
      <4>1. op_queue' = [p \in Peers |-> <<>>]
        BY <1>2 DEF ClientCrash
      <4>2. <<>> \in Seq(Writes)
        OBVIOUS
      <4> QED BY <4>1, <4>2
    <3>2. events' \in Seq(EventOf(Peers))
      BY <1>2 DEF ClientCrash
    <3>3. ZkTypeOK'
      BY <1>t, <1>2, <3>2 DEF ClientCrash, TypeOK, ZkTypeOK
    <3>4. ClientTypeOK'
      <4>1. /\ rep_factor' = rep_factor /\ peers' = {} /\ file_size' = 0 /\ seq' = 0
            /\ recover_lock' = FALSE /\ in_use' = FALSE
        BY <1>2 DEF ClientCrash
      <4>2. rep_factor' \in Nat /\ file_size' \in 0 .. BufSize /\ seq' \in Nat
        BY <1>t, <4>1 DEF TypeOK, ClientTypeOK
      <4> QED BY <3>1, <4>1, <4>2 DEF ClientTypeOK
    <3> QED BY <3>3, <3>4
  <2>3. WriterTypeOK' /\ WatcherTypeOK' /\ HistoryTypeOK'
    BY <1>t, <1>2 DEF ClientCrash, TypeOK, WriterTypeOK, WatcherTypeOK, HistoryTypeOK
  <2>4. /\ cli' \in {"up", "down", "info", "read", "sync", "wait"}
        /\ recover_src' \in Peers \cup {NoPeer} /\ recover_size' \in Nat
        /\ syncing' \in SUBSET Peers /\ forgot' \in SUBSET Writes
        /\ clientCrashes' \in 0 .. MaxClientCrashes
    BY <1>2 DEF ClientCrash, CRTypeOK
  <2> QED BY <2>1, <2>2, <2>3, <2>4 DEF CRTypeOK, TypeOK
<1>3. CASE Restart
  <2>0. peers' = zknode /\ conn' = zknode
    BY <1>t, <1>3, RestartPeers DEF Restart
  <2>1. RdmaTypeOK'
    BY <1>t, <1>3, <2>0 DEF Restart, TypeOK, RdmaTypeOK, ZkTypeOK
  <2>2. ZkTypeOK' /\ ClientTypeOK'
    <3>1. exists_watch' \in SUBSET Peers
      BY <1>t, <1>3, RestartPeers DEF Restart, TypeOK, ZkTypeOK
    <3> QED BY <1>t, <1>3, <2>0, <3>1 DEF Restart, TypeOK, ZkTypeOK, ClientTypeOK
  <2>3. WriterTypeOK' /\ WatcherTypeOK' /\ HistoryTypeOK'
    BY <1>t, <1>3 DEF Restart, TypeOK, WriterTypeOK, WatcherTypeOK, HistoryTypeOK,
       writerVars, watcherVars, historyVars
  <2>4. /\ cli' \in {"up", "down", "info", "read", "sync", "wait"}
        /\ recover_src' \in Peers \cup {NoPeer} /\ recover_size' \in Nat
        /\ syncing' \in SUBSET Peers /\ forgot' \in SUBSET Writes
        /\ clientCrashes' \in 0 .. MaxClientCrashes
    BY <1>3 DEF Restart, CRTypeOK
  <2> QED BY <2>1, <2>2, <2>3, <2>4 DEF CRTypeOK, TypeOK
<1>9. CASE OpenTruncated
  <2>1. RdmaTypeOK' /\ ZkTypeOK' /\ ClientTypeOK'
    BY <1>t, <1>9 DEF OpenTruncated, TypeOK, RdmaTypeOK, ZkTypeOK, ClientTypeOK, rdmaVars, zkVars
  <2>2. WriterTypeOK' /\ WatcherTypeOK'
    BY <1>t, <1>9 DEF OpenTruncated, TypeOK, WriterTypeOK, WatcherTypeOK, writerVars, watcherVars
  <2>3. HistoryTypeOK'
    BY <1>t, <1>9 DEF OpenTruncated, TypeOK, HistoryTypeOK, RdmaTypeOK
  <2>4. forgot' \in SUBSET Writes
    BY <1>9 DEF OpenTruncated, CRTypeOK, Acked
  <2> QED BY <1>9, <2>1, <2>2, <2>3, <2>4 DEF OpenTruncated, CRTypeOK, TypeOK
<1>4. CASE GetInfo
  <2>1. RdmaTypeOK' /\ ZkTypeOK' /\ ClientTypeOK'
    BY <1>t, <1>4 DEF GetInfo, TypeOK, RdmaTypeOK, ZkTypeOK, ClientTypeOK, rdmaVars, zkVars,
       clientVars
  <2>2. WriterTypeOK' /\ WatcherTypeOK' /\ HistoryTypeOK'
    BY <1>t, <1>4 DEF GetInfo, TypeOK, WriterTypeOK, WatcherTypeOK, HistoryTypeOK,
       writerVars, watcherVars, historyVars
  <2>3. recover_src' \in Peers \cup {NoPeer} /\ recover_size' \in Nat
    <3>1. PICK answer \in Answers :
            \/ UNCHANGED <<recover_src, recover_size>>
            \/ \E s \in getRecoverSrcPeer(answer) :
                 recover_src' = s /\ recover_size' = answer[s].size
      BY <1>4 DEF GetInfo
    <3>2. CASE UNCHANGED <<recover_src, recover_size>>
      BY <3>2 DEF CRTypeOK
    <3>3. CASE \E s \in getRecoverSrcPeer(answer) :
                 recover_src' = s /\ recover_size' = answer[s].size
      <4>1. PICK s \in getRecoverSrcPeer(answer) :
              recover_src' = s /\ recover_size' = answer[s].size
        BY <3>3
      <4>2. s \in peers /\ answer[s].size \in Nat
        BY AnswersType
      <4> QED BY <1>t, <4>1, <4>2 DEF TypeOK, ClientTypeOK
    <3> QED BY <3>1, <3>2, <3>3
  <2>4. /\ cli' \in {"up", "down", "info", "read", "sync", "wait"}
        /\ syncing' \in SUBSET Peers /\ forgot' \in SUBSET Writes
        /\ clientCrashes' \in 0 .. MaxClientCrashes
    BY <1>4 DEF GetInfo, CRTypeOK, Acked
  <2> QED BY <2>1, <2>2, <2>3, <2>4 DEF CRTypeOK, TypeOK
<1>5. CASE ReadSource
  <2>1. RdmaTypeOK'
    BY <1>t, <1>5 DEF ReadSource, TypeOK, RdmaTypeOK
  <2>0. recover_size \in 0 .. BufSize
    BY <1>5 DEF ReadSource, CRTypeOK
  <2>2. ZkTypeOK' /\ ClientTypeOK'
    BY <1>t, <1>5, <2>0 DEF ReadSource, TypeOK, ZkTypeOK, ClientTypeOK, zkVars
  <2>3. WriterTypeOK' /\ WatcherTypeOK' /\ HistoryTypeOK'
    BY <1>t, <1>5 DEF ReadSource, TypeOK, WriterTypeOK, WatcherTypeOK, HistoryTypeOK,
       writerVars, watcherVars, historyVars
  <2> QED BY <1>5, <2>1, <2>2, <2>3 DEF ReadSource, CRTypeOK, TypeOK
<1>6. CASE SyncPeers
  <2>0. sendq' \in [Peers -> Seq(WR)]
    <3>1. 0 .. file_size - 1 \in SUBSET Cells /\ 0 \in Nat
      BY <1>t DEF TypeOK, ClientTypeOK, Cells
    <3>2. \A p \in Peers : sendq[p] \in Seq(WR)
      BY <1>t DEF TypeOK, RdmaTypeOK
    <3>3. \A p \in Peers : writeTwoPlace(sendq[p], 0 .. file_size - 1, 0) \in Seq(WR)
      BY <3>1, <3>2, PostProperties
    <3> QED BY <1>6, <3>2, <3>3 DEF SyncPeers
  <2>1. RdmaTypeOK'
    BY <1>t, <1>6, <2>0 DEF SyncPeers, TypeOK, RdmaTypeOK
  <2>2. ZkTypeOK' /\ ClientTypeOK'
    BY <1>t, <1>6 DEF SyncPeers, TypeOK, ZkTypeOK, ClientTypeOK, zkVars, clientVars
  <2>3. WriterTypeOK' /\ WatcherTypeOK' /\ HistoryTypeOK'
    BY <1>t, <1>6 DEF SyncPeers, TypeOK, WriterTypeOK, WatcherTypeOK, HistoryTypeOK,
       writerVars, watcherVars, historyVars
  <2>4. syncing' \in SUBSET Peers
    BY <1>t, <1>6 DEF SyncPeers, TypeOK, ClientTypeOK
  <2> QED BY <1>6, <2>1, <2>2, <2>3, <2>4 DEF SyncPeers, CRTypeOK, TypeOK
<1>7. CASE SyncDone
  <2>1. RdmaTypeOK' /\ ZkTypeOK' /\ ClientTypeOK'
    BY <1>t, <1>7 DEF SyncDone, TypeOK, RdmaTypeOK, ZkTypeOK, ClientTypeOK, rdmaVars, zkVars
  <2>2. WriterTypeOK' /\ WatcherTypeOK'
    BY <1>t, <1>7 DEF SyncDone, TypeOK, WriterTypeOK, WatcherTypeOK, writerVars, watcherVars
  <2>3. HistoryTypeOK'
    BY <1>t, <1>7 DEF SyncDone, TypeOK, HistoryTypeOK, RdmaTypeOK
  <2> QED BY <1>7, <2>1, <2>2, <2>3 DEF SyncDone, CRTypeOK, TypeOK
<1>8. CASE UNCHANGED crVars
  BY <1>1, <1>8 DEF crVars
<1> QED BY <1>1, <1>2, <1>3, <1>4, <1>5, <1>6, <1>7, <1>8, <1>9 DEF CRNext, Next

\* CRTypeOK holds always, for every buffer and whatever a peer that died seems
\* to have answered: TryRecover never gives the file a size beyond its buffer
\* (client.cc:584, 602).
THEOREM CRTypeCorrect == CRSpec => []CRTypeOK
<1>1. CRInit => CRTypeOK
  <2> SUFFICES ASSUME CRInit PROVE CRTypeOK
    OBVIOUS
  <2>1. TypeOK
    BY TypeInit DEF CRInit
  <2> QED BY <2>1, BufSizeAssumption, RecoveryAssumption DEF CRInit, CRTypeOK
<1>2. CRTypeOK /\ [CRNext]_crVars => CRTypeOK'
  BY CRTypeStep
<1> QED BY <1>1, <1>2, PTL DEF CRSpec

\* A client always reads in its node the addresses of the peers that were
\* written there, cut out by the loop of parseIpString, for addresses of any
\* length (util.h:55, 72).
THEOREM NodeReadBackAlways ==
    CRSpec => []\A P \in {peers, zknode} :
        parseIpString(generateIpString(P, 0)) =
            [epoch |-> 0, peers |-> {Addr[p] : p \in P}, count |-> Cardinality(P)]
<1> DEFINE Good0 == \A P \in {peers, zknode} :
             parseIpString(generateIpString(P, 0)) =
                 [epoch |-> 0, peers |-> {Addr[p] : p \in P}, count |-> Cardinality(P)]
<1>1. CRTypeOK => Good0
  <2> SUFFICES ASSUME CRTypeOK, NEW P \in {peers, zknode}
               PROVE  parseIpString(generateIpString(P, 0)) =
                        [epoch |-> 0, peers |-> {Addr[p] : p \in P}, count |-> Cardinality(P)]
    OBVIOUS
  <2>1. P \in SUBSET Peers
    BY DEF CRTypeOK, TypeOK, ClientTypeOK, ZkTypeOK
  <2>2. IsFiniteSet(P)
    BY <2>1, ConstantsAssumption, FS_Subset
  <2>3. P \subseteq DOMAIN Addr
    BY <2>1, RecoveryAssumption
  <2> QED BY <2>2, <2>3, ReadBack
<1> QED BY <1>1, CRTypeCorrect, PTL

-----------------------------------------------------------------------------
(* Two replicas: no recovery loses an acknowledged write. *)

\* Two replicas, servers that stay down once they are down, and no session
\* expired wrongly: without any of the three RecoversAcked is false.
TwoReplicas == /\ RepFactor = 2 /\ Cardinality(InitServers) >= 2
               /\ MaxExpiries = 0 /\ MaxStarts = 0

\* A peer whose failure ClientWatcher will never hear of: it died while it was
\* being added, before zoo_wexists.
Lost == peers \ (servers \cup Deleted)

\* A peer is being added.
Adding == cpc \in {"exists", "recover", "rwait"}

\* What a client has at each stage of its life.  A dead one has nothing; until
\* it has read the file, the only work requests are empty ones.
LifeInv ==
    /\ in_use <=> cli = "up"
    /\ cli # "up" => wpc = "idle" /\ flagged = {} /\ op_queue = [p \in Peers |-> <<>>]
    /\ cli \notin {"up", "down"} => seq_word = 0
    /\ cli = "down" => /\ peers = {} /\ exists_watch = {} /\ ~child_watch /\ events = <<>>
                       /\ cpc = "idle" /\ sendq = [p \in Peers |-> <<>>] /\ synced = {}
                       /\ file_size = 0 /\ seq_word = 0
    /\ cli \in {"info", "read"} => /\ file_size = 0
                                   /\ \A p \in Peers : \A wr \in Range(sendq[p]) : wr.cells = {}
    /\ cli \in {"up", "down", "info"} => recover_src = NoPeer /\ recover_size = 0
    /\ cli # "wait" => syncing = {}

\* A server that is gone is gone for good: a registered server is alive or its
\* session has still to expire, and a peer is connected as long as it lives.
ServerInv ==
    /\ rep_factor = 2
    /\ servers = alive \cup orphans /\ alive \cap orphans = {}
    /\ conn = peers \cap alive /\ synced \subseteq conn
    /\ \A p \in Peers \ alive : mr_seq[p] = 0
    /\ Adding => new_peer \in peers

\* The watches and the events of the failures ClientWatcher has still to hear
\* of, and which event it is at.
EventInv ==
    /\ exists_watch \subseteq peers \cap servers
    /\ Deleted \subseteq peers \ servers
    /\ OnlyOnce(events)
    /\ cpc = "exists" => new_peer \notin exists_watch \cup Deleted
    /\ cpc = "idle" <=> ev = "none"
    /\ cpc \in {"update", "failed", "watch"} => ev = "deleted"
    /\ cpc = "joined" => ev = "child"

\* ClientWatcher waits for a server to join only when it has them all, or when
\* it has missed a failure.
JoinInv ==
    /\ child_watch \/ ChildEvent \in Range(events) \/ ev = "child" \/ cpc \in {"failed", "watch"}
         => servers \subseteq peers \/ Lost # {}
    /\ ev = "child" /\ cpc # "pick" => Lost # {}

\* The client's node.  While every server it lists lives, the client's peers
\* are those, and there are at most two.
NodeInv ==
    /\ cli # "down" /\ zknode \subseteq alive =>
          /\ peers = zknode
          /\ cpc \in {"idle", "failed", "watch", "joined"} \/ (cpc = "pick" /\ ev = "child")
    /\ zknode \subseteq alive => Cardinality(zknode) <= 2
    /\ Lost # {} \/ Cardinality(peers) <= IF cpc = "pick" /\ ev = "deleted" THEN 1 ELSE 2

\* The peers the file is kept on, for a dead client those of its node.
Home == IF cli = "down" THEN zknode ELSE peers

\* A server the file is not kept on has no sequence number, so that none added
\* during a recovery is taken for its source.
SpareInv == cli # "down" \/ zknode \subseteq alive => \A p \in Peers \ Home : mr_seq[p] = 0

\* A peer that lives, and that a recovery copies from or to, is a peer.
AimInv == (syncing \cup {recover_src}) \cap alive \subseteq peers

\* The tokens of peer p are those of writes it has still to complete, in their
\* order, and so are those of its work requests, apart from bulk copies.
TokenOK(p) ==
    /\ Increasing(op_queue[p])
    /\ \A t \in Range(op_queue[p]) : t <= nwr
    /\ wpc \in {"copy", "stamp", "lock"} \/ (wpc = "post" /\ p \in todo)
         => nwr \notin Range(op_queue[p])
    /\ (wpc = "post" /\ p \notin todo) \/ wpc = "poll"
         => op_queue[p] = <<>> \/ nwr \in Range(op_queue[p])
    /\ p \notin peers => op_queue[p] = <<>>
    /\ p \in flagged => op_queue[p] = <<>>
    /\ \A wr \in Range(sendq[p]) : wr.tok \in {0} \cup Range(op_queue[p])

\* So it is for every peer.
TokenInv == \A p \in Peers : TokenOK(p)

\* A quorum is both peers: only two can be flagged for a write, so once it is
\* acknowledged no peer has a token for it or an earlier one.  A missed failure
\* leaves room for a third.
QuorumInv ==
    /\ wpc # "poll" => flagged = {}
    /\ wpc = "poll" => Lost # {} \/ Cardinality(Candidates) <= 2
    /\ \A w \in Acked : w < nwr \/ (w = nwr /\ wpc = "idle")
    /\ \A w \in Acked : Lost # {} \/ \A p \in Peers : \A t \in Range(op_queue[p]) : t > w

\* The writes that must not be lost: the acknowledged ones, and the one in
\* progress once it is in the buffer.
Live == Acked \cup (IF wpc \in {"stamp", "lock", "post", "poll"} THEN {nwr} ELSE {})

\* They are in the client's buffer, within the file.
BufInv ==
    /\ \A v \in 1 .. nwr : loc[v] \in Cells
    /\ cli \in {"sync", "wait", "up"} =>
          \A v \in Live : loc[v] < file_size /\ buffer[loc[v]] >= v
    /\ wpc # "idle" => pos < file_size

\* Peer p has every acknowledged write, or a later one in its place.
HasAcked(p) == \A w \in Acked : mr[p][loc[w]] >= w

\* A bulk copy of the file is on its way to p, and is waited for.
Bulk(p) == (cli = "wait" /\ p \in syncing) \/ (cpc = "rwait" /\ p = new_peer /\ p \notin synced)

\* A work request that is waited for, of write v, of an earlier one or of a bulk
\* copy, carries the cell of v to p: what it places is in the buffer by then.
ReachesBy(p, v) == \E wr \in Range(sendq[p]) :
    loc[v] \in wr.cells /\ wr.tok <= v /\ (wr.tok # 0 \/ Bulk(p))

\* Write v is on p, on its way, or about to be posted.
Comes(p, v) == mr[p][loc[v]] >= v \/ ReachesBy(p, v) \/ (v = nwr /\ Unposted(p, loc[v]))

\* The heart of it: to a peer that was given the file, or is being given it,
\* every write that must not be lost has come or comes.
KeptInv ==
    cli \in {"wait", "up"} =>
        \A p \in conn : p \in synced \/ p = recover_src \/ Bulk(p) => \A v \in Live : Comes(p, v)

\* The only peers not given the file are those of a recovery and the one being
\* added, until a failure is missed.
JoinedInv ==
    cli \in {"wait", "up"} =>
        Lost # {} \/ conn \subseteq synced \cup syncing \cup {recover_src} \cup
                                   (IF Adding THEN {new_peer} ELSE {})

\* Whichever peer can be chosen as the source of a recovery has every
\* acknowledged write, and still has it when it is read.
SourceInv ==
    /\ cli \in {"read", "sync", "wait"} /\ recover_src \in conn => HasAcked(recover_src)
    /\ cli = "read" /\ recover_src \in conn => recover_size = findSize(mr[recover_src])
    /\ cli \notin {"up", "down"} => \A p \in conn : mr_seq[p] = 0 \/ HasAcked(p)
    /\ cli = "down" /\ zknode \subseteq alive => \A p \in zknode : mr_seq[p] = 0 \/ HasAcked(p)

\* The inductive invariant of the client with two replicas.
CRInv == /\ CRTypeOK /\ LifeInv /\ ServerInv /\ EventInv /\ JoinInv /\ NodeInv /\ SpareInv
         /\ AimInv /\ TokenInv /\ QuorumInv /\ BufInv /\ KeptInv /\ JoinedInv /\ SourceInv

-----------------------------------------------------------------------------
(* One lemma per part of the invariant. *)

\* No step but those of the client's own crash and recovery changes its stage.
Kept == UNCHANGED recoverVars

\* The steps there are when servers neither restart nor lose their session.
LEMMA CRCases ==
    ASSUME TwoReplicas, CRTypeOK, [CRNext]_crVars
    PROVE  \/ UNCHANGED crVars
           \/ cli = "up" /\ Writer /\ Kept
           \/ cli # "down" /\ Watcher /\ Kept
           \/ \E p \in Peers : (NicStep(p) \/ PeerCrash(p) \/ ExpireDead(p)) /\ Kept
           \/ ClientCrash \/ Restart \/ OpenTruncated \/ GetInfo \/ ReadSource \/ SyncPeers \/ SyncDone
<1>1. expiries = 0 /\ starts = 0 /\ MaxExpiries = 0 /\ MaxStarts = 0
  BY DEF TwoReplicas, CRTypeOK, TypeOK, HistoryTypeOK
<1>2. \A p \in Peers : ~ExpireAlive(p) /\ ~ServerStart(p)
  BY <1>1 DEF ExpireAlive, ServerStart
<1> QED BY <1>2 DEF CRNext, Environment, Kept

\* The whole life of the client.
LEMMA LifeStep == TwoReplicas /\ CRInv /\ [CRNext]_crVars => LifeInv'
<1> SUFFICES ASSUME TwoReplicas, CRInv, [CRNext]_crVars PROVE LifeInv'
  OBVIOUS
<1>0. CRTypeOK /\ LifeInv
  BY DEF CRInv
<1>t. /\ sendq \in [Peers -> Seq(WR)] /\ op_queue \in [Peers -> Seq(Writes)]
  BY <1>0 DEF CRTypeOK, TypeOK, RdmaTypeOK, ClientTypeOK
<1>1. CASE UNCHANGED crVars
  BY <1>0, <1>1 DEF crVars, vars, recoverVars, rdmaVars, zkVars, clientVars, writerVars,
     watcherVars, historyVars, LifeInv
<1>2. CASE cli = "up" /\ Writer /\ Kept
  <2>1. cli' = "up" /\ in_use' = in_use /\ UNCHANGED <<recover_src, recover_size, syncing>>
    BY <1>2 DEF Kept, recoverVars, Writer, BeginWrite, CopyData, StampSeq, LockRecover, PostTo,
       FinishPost, PollPeer, FinishWrite, clientVars
  <2> QED BY <1>0, <1>2, <2>1 DEF LifeInv
<1>3. CASE cli # "down" /\ Watcher /\ Kept
  <2>0. /\ UNCHANGED <<cli, recover_src, recover_size, syncing, in_use, wpc, flagged, seq_word,
                       file_size>>
    BY <1>3 DEF Kept, recoverVars, Watcher, HandleDeleted, HandleChild, AddPeer, NoNewPeer,
       WatchPeer, PostRecover, RecoverDone, UpdateZKNode, FinishChild, SuspendWrites,
       WatchForPeerJoin, clientVars, writerVars, rdmaVars
  <2>1. cli # "up" => op_queue' = op_queue
    <3>1. ASSUME cli # "up", HandleDeleted PROVE op_queue' = op_queue
      <4>1. op_queue = [p \in Peers |-> <<>>]
        BY <1>0, <3>1 DEF LifeInv
      <4>2. op_queue' = op_queue \/ op_queue' = [op_queue EXCEPT ![Head(events).path] = <<>>]
        BY <3>1 DEF HandleDeleted
      <4> QED BY <4>1, <4>2
    <3> QED BY <1>3, <3>1 DEF Watcher, HandleChild, AddPeer, NoNewPeer,
       WatchPeer, PostRecover, RecoverDone, UpdateZKNode, FinishChild, SuspendWrites,
       WatchForPeerJoin, clientVars
  <2>2. ASSUME cli \in {"info", "read"}, NEW p \in Peers, NEW wr \in Range(sendq'[p])
        PROVE  wr.cells = {}
    <3>0. \A r \in Range(sendq[p]) : r.cells = {}
      BY <1>0, <2>2 DEF LifeInv
    <3>1. CASE HandleDeleted
      <4>1. sendq'[p] = sendq[p] \/ sendq'[p] = <<>>
        BY <1>t, <3>1 DEF HandleDeleted
      <4>2. Range(<<>>) = {}
        BY DEF Range
      <4> QED BY <2>2, <3>0, <4>1, <4>2
    <3>2. CASE PostRecover
      <4>0. file_size = 0 /\ new_peer \in Peers
        BY <1>0, <2>2, <3>2 DEF LifeInv, PostRecover, CRTypeOK, TypeOK, WatcherTypeOK
      <4>1. sendq'[p] = sendq[p] \/ sendq'[p] = writeTwoPlace(sendq[p], {}, 0)
        <5>1. 0 .. file_size - 1 = {}
          BY <4>0
        <5> QED BY <1>t, <3>2, <4>0, <5>1 DEF PostRecover
      <4>2. Range(writeTwoPlace(sendq[p], {}, 0)) = Range(sendq[p]) \cup {DataWR({}, 0), SeqWR(0)}
        BY <1>t, PostProperties
      <4> QED BY <2>2, <3>0, <4>1, <4>2 DEF DataWR, SeqWR
    <3>3. CASE sendq' = sendq
      BY <2>2, <3>0, <3>3
    <3> QED BY <1>3, <3>1, <3>2, <3>3 DEF Watcher, HandleChild, AddPeer, NoNewPeer,
       WatchPeer, RecoverDone, UpdateZKNode, FinishChild, SuspendWrites,
       WatchForPeerJoin, rdmaVars
  <2> QED BY <1>0, <1>3, <2>0, <2>1, <2>2 DEF LifeInv
<1>4. CASE \E p \in Peers : (NicStep(p) \/ PeerCrash(p) \/ ExpireDead(p)) /\ Kept
  <2> PICK p \in Peers : (NicStep(p) \/ PeerCrash(p) \/ ExpireDead(p)) /\ Kept
    BY <1>4
  <2>1. /\ UNCHANGED <<cli, recover_src, recover_size, syncing, in_use, wpc, flagged, seq_word,
                       file_size, op_queue, peers, cpc>>
    BY DEF Kept, recoverVars, NicStep, NicPlace, NicComplete, PeerCrash, ServerDown, ExpireDead,
       clientVars, writerVars, watcherVars, rdmaVars
  <2>2. CASE NicStep(p)
    <3>1. UNCHANGED <<exists_watch, child_watch, events, synced>>
      BY <2>2 DEF NicStep, zkVars, historyVars
    <3>2. p \in conn /\ sendq[p] # <<>> /\ cli # "down"
      BY <1>0, <1>t, <2>2 DEF NicStep, NicPlace, NicComplete, LifeInv
    <3>3. ASSUME cli \in {"info", "read"}, NEW r \in Peers, NEW wr \in Range(sendq'[r])
          PROVE  wr.cells = {}
      <4>0. \A x \in Range(sendq[r]) : x.cells = {}
        BY <1>0, <3>3 DEF LifeInv
      <4>1. NicComplete(p)
        <5>1. Head(sendq[p]) \in Range(sendq[p])
          BY <1>t, <3>2, TailProperties
        <5>2. Head(sendq[p]).cells = {}
          BY <1>0, <3>3, <5>1 DEF LifeInv
        <5> QED BY <2>2, <5>2 DEF NicStep, NicPlace
      <4>2. sendq'[r] = sendq[r] \/ (r = p /\ sendq'[r] = Tail(sendq[r]))
        BY <1>t, <4>1 DEF NicComplete
      <4>3. r = p => Range(Tail(sendq[r])) \subseteq Range(sendq[r])
        BY <1>t, <3>2, TailProperties
      <4> QED BY <3>3, <4>0, <4>2, <4>3
    <3> QED BY <1>0, <2>1, <3>1, <3>2, <3>3 DEF LifeInv
  <2>3. CASE PeerCrash(p)
    BY <1>0, <2>1, <2>3 DEF LifeInv, PeerCrash, ServerDown
  <2>4. CASE ExpireDead(p)
    <3>1. sendq' = sendq /\ synced' = synced
      BY <2>4 DEF ExpireDead, rdmaVars, historyVars
    <3>2. ASSUME cli = "down" PROVE exists_watch' = {} /\ ~child_watch' /\ events' = <<>>
      <4>1. exists_watch = {} /\ ~child_watch /\ events = <<>>
        BY <1>0, <3>2 DEF LifeInv
      <4>2. <<>> \o <<>> = <<>>
        OBVIOUS
      <4> QED BY <2>4, <4>1, <4>2 DEF ExpireDead, NodeDeleted
    <3> QED BY <1>0, <2>1, <3>1, <3>2 DEF LifeInv
  <2> QED BY <2>2, <2>3, <2>4
<1>5. CASE ClientCrash
  BY <1>5 DEF ClientCrash, LifeInv
<1>6. CASE Restart
  <2>1. Range(<<>>) = {}
    BY DEF Range
  <2>2. cli = "down" /\ cli' = "info" /\ UNCHANGED <<in_use, wpc, flagged, op_queue, seq_word,
          file_size, sendq, recover_src, recover_size, syncing>>
    BY <1>6 DEF Restart, writerVars
  <2> QED BY <1>0, <2>1, <2>2 DEF LifeInv
<1>7. CASE GetInfo
  BY <1>0, <1>7 DEF GetInfo, LifeInv, rdmaVars, clientVars, writerVars
<1>8. CASE ReadSource
  BY <1>0, <1>8 DEF ReadSource, LifeInv, writerVars
<1>9. CASE SyncPeers
  BY <1>0, <1>9 DEF SyncPeers, LifeInv, writerVars, clientVars
<1>10. CASE SyncDone
  BY <1>0, <1>10 DEF SyncDone, LifeInv, writerVars, rdmaVars
<1>11. CASE OpenTruncated
  BY <1>0, <1>11 DEF OpenTruncated, LifeInv, writerVars, rdmaVars
<1> QED BY <1>0, <1>1, <1>2, <1>3, <1>4, <1>5, <1>6, <1>7, <1>8, <1>9, <1>10, <1>11, CRCases

\* Servers die once and for all, and the client notices at once.
LEMMA ServerStep == TwoReplicas /\ CRInv /\ [CRNext]_crVars => ServerInv'
<1> SUFFICES ASSUME TwoReplicas, CRInv, [CRNext]_crVars PROVE ServerInv'
  OBVIOUS
<1>0. CRTypeOK /\ LifeInv /\ ServerInv /\ EventInv
  BY DEF CRInv
<1>t. /\ TypeOK /\ mr_seq \in [Peers -> Nat] /\ events \in Seq(EventOf(Peers))
      /\ peers \in SUBSET Peers /\ alive \in SUBSET Peers
  BY <1>0 DEF CRTypeOK, TypeOK, RdmaTypeOK, ZkTypeOK, ClientTypeOK
<1>1. ASSUME UNCHANGED <<rep_factor, servers, alive, orphans, conn, peers, synced, mr_seq>>,
             Adding' => Adding /\ new_peer' = new_peer
      PROVE  ServerInv'
  BY <1>0, <1>1 DEF ServerInv
<1>2. CASE UNCHANGED crVars
  BY <1>1, <1>2 DEF crVars, vars, rdmaVars, zkVars, clientVars, watcherVars, historyVars, Adding
<1>3. CASE cli = "up" /\ Writer /\ Kept
  BY <1>1, <1>3 DEF Writer, BeginWrite, CopyData, StampSeq, LockRecover, PostTo, FinishPost,
     PollPeer, FinishWrite, rdmaVars, zkVars, clientVars, watcherVars, historyVars, Adding
<1>4. CASE cli # "down" /\ Watcher /\ Kept
  <2>1. CASE HandleDeleted
    <3> DEFINE p == Head(events).path
    <3>1. /\ UNCHANGED <<rep_factor, servers, alive, orphans, mr_seq>> /\ ~Adding'
          /\ \/ UNCHANGED <<conn, peers, synced>>
             \/ peers' = peers \ {p} /\ conn' = conn \ {p} /\ synced' = synced \ {p}
      BY <2>1 DEF HandleDeleted, Adding
    <3> QED BY <1>0, <3>1 DEF ServerInv
  <2>2. ASSUME NEW p \in Peers, AddPeer(p) PROVE ServerInv'
    <3>1. /\ UNCHANGED <<rep_factor, servers, alive, orphans, mr_seq, synced>>
          /\ p \in alive /\ peers' = peers \cup {p} /\ conn' = conn \cup {p} /\ new_peer' = p
      BY <2>2 DEF AddPeer, zkVars, historyVars
    <3> QED BY <1>0, <3>1 DEF ServerInv
  <2>3. CASE RecoverDone
    <3>1. /\ UNCHANGED <<rep_factor, servers, alive, orphans, mr_seq, conn, peers>>
          /\ synced' \subseteq synced \cup conn /\ ~Adding'
      BY <2>3 DEF RecoverDone, Adding, rdmaVars, zkVars, clientVars
    <3> QED BY <1>0, <3>1 DEF ServerInv
  <2>4. CASE \/ HandleChild \/ NoNewPeer \/ WatchPeer \/ PostRecover \/ UpdateZKNode
             \/ FinishChild \/ SuspendWrites \/ WatchForPeerJoin
    BY <1>1, <2>4 DEF HandleChild, NoNewPeer, WatchPeer, PostRecover, UpdateZKNode, FinishChild,
       SuspendWrites, WatchForPeerJoin, rdmaVars, zkVars, clientVars, historyVars, Adding
  <2> QED BY <1>4, <2>1, <2>2, <2>3, <2>4 DEF Watcher
<1>5. CASE \E p \in Peers : (NicStep(p) \/ PeerCrash(p) \/ ExpireDead(p)) /\ Kept
  <2> PICK p \in Peers : (NicStep(p) \/ PeerCrash(p) \/ ExpireDead(p)) /\ Kept
    BY <1>5
  <2>1. CASE NicStep(p)
    <3>1. /\ UNCHANGED <<rep_factor, servers, alive, orphans, conn, peers, synced, cpc, new_peer>>
          /\ p \in conn /\ \A r \in Peers : r # p => mr_seq'[r] = mr_seq[r]
      BY <1>t, <2>1 DEF NicStep, NicPlace, NicComplete, zkVars, clientVars, watcherVars, historyVars
    <3> QED BY <1>0, <3>1 DEF ServerInv, Adding
  <2>2. CASE PeerCrash(p)
    <3>1. /\ UNCHANGED <<rep_factor, servers, peers, cpc, new_peer>> /\ p \in alive
          /\ alive' = alive \ {p} /\ conn' = conn \ {p} /\ synced' = synced \ {p}
          /\ orphans' = orphans \cup ({p} \cap servers)
          /\ mr_seq' = [mr_seq EXCEPT ![p] = 0]
      BY <2>2 DEF PeerCrash, ServerDown, clientVars, watcherVars
    <3> QED BY <1>0, <1>t, <3>1 DEF ServerInv, Adding
  <2>3. CASE ExpireDead(p)
    <3>1. /\ UNCHANGED <<rep_factor, alive, conn, peers, synced, mr_seq, cpc, new_peer>>
          /\ p \in orphans /\ servers' = servers \ {p} /\ orphans' = orphans \ {p}
      BY <2>3 DEF ExpireDead, NodeDeleted, rdmaVars, clientVars, watcherVars, historyVars
    <3> QED BY <1>0, <3>1 DEF ServerInv, Adding
  <2> QED BY <2>1, <2>2, <2>3
<1>6. CASE ClientCrash
  BY <1>0, <1>6 DEF ClientCrash, ServerInv, Adding
<1>7. CASE Restart
  <2>1. /\ UNCHANGED <<servers, alive, orphans, mr_seq, synced, cpc, new_peer>>
        /\ peers' = zknode /\ conn' = zknode /\ zknode \subseteq alive /\ rep_factor' = RepFactor
        /\ cli = "down"
    BY <1>t, <1>7, RestartPeers DEF Restart, historyVars, watcherVars
  <2> QED BY <1>0, <2>1 DEF ServerInv, LifeInv, Adding, TwoReplicas
<1>8. CASE GetInfo \/ ReadSource \/ SyncPeers
  BY <1>1, <1>8 DEF GetInfo, ReadSource, SyncPeers, rdmaVars, zkVars, clientVars, watcherVars,
     historyVars, Adding
<1>9. CASE SyncDone
  <2>1. /\ UNCHANGED <<rep_factor, servers, alive, orphans, mr_seq, conn, peers, cpc, new_peer>>
        /\ synced' \subseteq synced \cup conn
    BY <1>9 DEF SyncDone, Adding, rdmaVars, zkVars, watcherVars
  <2> QED BY <1>0, <2>1 DEF ServerInv, Adding
<1>10. CASE OpenTruncated
  <2>1. /\ UNCHANGED <<rep_factor, servers, alive, orphans, mr_seq, conn, peers, cpc, new_peer>>
        /\ synced' \subseteq synced \cup conn
    BY <1>10 DEF OpenTruncated, Adding, rdmaVars, zkVars, watcherVars
  <2> QED BY <1>0, <2>1 DEF ServerInv, Adding
<1> QED BY <1>0, <1>2, <1>3, <1>4, <1>5, <1>6, <1>7, <1>8, <1>9, <1>10, CRCases

\* A deleted event is for a peer, which is erased.
LEMMA ErasedPeer ==
    ASSUME CRInv, HandleDeleted
    PROVE  /\ OnlyOnce(events)' /\ cpc' = "pick" /\ ev' = "deleted"
           /\ Range(events') \subseteq Range(events)
           /\ \E p \in Deleted : /\ Deleted' = Deleted \ {p} /\ p \in Peers
                                 /\ p \in peers /\ p \notin servers
                                 /\ peers' = peers \ {p} /\ conn' = conn \ {p}
                                 /\ synced' = synced \ {p}
                                 /\ sendq' = [sendq EXCEPT ![p] = <<>>]
                                 /\ op_queue' = [op_queue EXCEPT ![p] = <<>>]
<1>t. events \in Seq(EventOf(Peers)) /\ events # <<>> /\ Head(events).type = "deleted"
      /\ events' = Tail(events)
  BY DEF CRInv, CRTypeOK, TypeOK, ZkTypeOK, HandleDeleted
<1> DEFINE p == Head(events).path
<1>1. /\ Head(events) \in EventOf(Peers)
      /\ OnlyOnce(Tail(events)) /\ Range(events) = {Head(events)} \cup Range(Tail(events))
      /\ Head(events) \notin Range(Tail(events))
  BY <1>t, TakeEvent, TailProperties DEF CRInv, EventInv
<1>2. p \in Peers /\ Head(events) = DeletedEvent(p)
  BY <1>1, <1>t DEF EventOf, DeletedEvent, ChildEvent
<1>3. Deleted' = Deleted \ {p} /\ p \in Deleted
  BY <1>1, <1>2, <1>t DEF Deleted, DeletedEvent
<1>4. p \in peers /\ p \notin servers
  BY <1>3 DEF CRInv, EventInv
<1>5. /\ peers' = peers \ {p} /\ synced' = synced \ {p} /\ conn' = conn \ {p}
      /\ op_queue' = [op_queue EXCEPT ![p] = <<>>] /\ sendq' = [sendq EXCEPT ![p] = <<>>]
      /\ cpc' = "pick" /\ ev' = "deleted"
  BY <1>4 DEF HandleDeleted
<1> QED BY <1>t, <1>1, <1>2, <1>3, <1>4, <1>5 DEF OnlyOnce

\* ZooKeeper expires the session of a dead server.
LEMMA ExpiredPeer ==
    ASSUME CRInv, NEW p \in Peers, ExpireDead(p)
    PROVE  /\ p \in servers /\ p \notin alive /\ servers' = servers \ {p}
           /\ OnlyOnce(events)' /\ exists_watch' = exists_watch \ {p} /\ child_watch' = FALSE
           /\ Deleted' = IF p \in exists_watch THEN Deleted \cup {p} ELSE Deleted
           /\ (ChildEvent \in Range(events))' => ChildEvent \in Range(events) \/ child_watch
           /\ UNCHANGED <<rdmaVars, clientVars, writerVars, watcherVars, historyVars, zknode>>
<1>0. ZkTypeOK /\ EventInv /\ ServerInv
  BY DEF CRInv, CRTypeOK, TypeOK
<1>1. p \in orphans /\ NodeDeleted(p)
  BY DEF ExpireDead
<1>2. p \in exists_watch => p \notin Deleted
  BY <1>0 DEF EventInv
<1>3. /\ OnlyOnce(events)'
      /\ Deleted' = IF p \in exists_watch THEN Deleted \cup {p} ELSE Deleted
      /\ (ChildEvent \in Range(events))' => ChildEvent \in Range(events) \/ child_watch
  BY <1>0, <1>1, <1>2, NodeDeletedEvents DEF EventInv
<1>4. p \notin alive
  BY <1>0, <1>1 DEF ServerInv
<1> QED BY <1>1, <1>3, <1>4 DEF NodeDeleted, ExpireDead

\* The completion thread: one watch or one event per failure, and the stage of
\* ClientWatcher that goes with its event.
LEMMA EventStep == TwoReplicas /\ CRInv /\ [CRNext]_crVars => EventInv'
<1> SUFFICES ASSUME TwoReplicas, CRInv, [CRNext]_crVars PROVE EventInv'
  OBVIOUS
<1>0. CRTypeOK /\ LifeInv /\ ServerInv /\ EventInv
  BY DEF CRInv
<1>t. /\ TypeOK /\ ZkTypeOK /\ events \in Seq(EventOf(Peers))
  BY <1>0 DEF CRTypeOK, TypeOK, ZkTypeOK
<1>1. ASSUME UNCHANGED <<exists_watch, peers, servers, events, cpc, ev, new_peer>>
      PROVE  EventInv'
  <2>1. Deleted' = Deleted
    BY <1>1 DEF Deleted
  <2> QED BY <1>0, <1>1, <2>1 DEF EventInv, OnlyOnce
<1>2. CASE UNCHANGED crVars
  BY <1>1, <1>2 DEF crVars, vars, zkVars, clientVars, watcherVars
<1>3. CASE cli = "up" /\ Writer /\ Kept
  BY <1>1, <1>3 DEF Writer, BeginWrite, CopyData, StampSeq, LockRecover, PostTo, FinishPost,
     PollPeer, FinishWrite, zkVars, clientVars, watcherVars
<1>4. CASE cli # "down" /\ Watcher /\ Kept
  <2>1. CASE HandleDeleted
    <3>1. OnlyOnce(events)' /\ cpc' = "pick" /\ ev' = "deleted"
      BY <2>1, ErasedPeer
    <3>2. PICK p \in Deleted : Deleted' = Deleted \ {p} /\ p \notin servers /\ peers' = peers \ {p}
      BY <2>1, ErasedPeer
    <3>3. UNCHANGED <<exists_watch, servers>>
      BY <2>1 DEF HandleDeleted
    <3> QED BY <1>0, <3>1, <3>2, <3>3 DEF EventInv
  <2>2. CASE HandleChild
    <3>1. /\ OnlyOnce(Tail(events)) /\ Range(Tail(events)) \subseteq Range(events)
          /\ events' = Tail(events) /\ UNCHANGED <<exists_watch, peers, servers>>
          /\ cpc' = "pick" /\ ev' = "child"
      BY <1>0, <1>t, <2>2, TakeEvent DEF HandleChild, EventInv, clientVars
    <3>2. Deleted' \subseteq Deleted
      BY <3>1 DEF Deleted
    <3> QED BY <1>0, <3>1, <3>2 DEF EventInv, OnlyOnce
  <2>3. ASSUME NEW p \in Peers, AddPeer(p) PROVE EventInv'
    <3>1. /\ p \notin peers /\ peers' = peers \cup {p} /\ new_peer' = p /\ cpc = "pick"
          /\ p \in servers
          /\ UNCHANGED <<exists_watch, events, servers, ev>> /\ cpc' = "exists"
      BY <2>3 DEF AddPeer, zkVars
    <3>2. Deleted' = Deleted
      BY <3>1 DEF Deleted
    <3> QED BY <1>0, <3>1, <3>2 DEF EventInv, OnlyOnce
  <2>4. CASE WatchPeer
    <3>1. /\ cpc = "exists"
          /\ exists_watch' = IF new_peer \in servers THEN exists_watch \cup {new_peer}
                                                     ELSE exists_watch
          /\ UNCHANGED <<peers, events, servers>> /\ new_peer \in peers
          /\ \/ cpc' = "recover" /\ ev' = ev
             \/ cpc' = "joined" /\ ev' = ev /\ ev # "deleted"
             \/ cpc' = "failed" /\ ev' = ev /\ ev = "deleted"
             \/ cpc' = "idle" /\ ev' = "none"
      BY <1>0, <2>4 DEF WatchPeer, zoo_wexists, clientVars, ServerInv, Adding
    <3>2. Deleted' = Deleted
      BY <3>1 DEF Deleted
    <3>3. ev \in {"none", "deleted", "child"} /\ ev # "none"
      BY <1>0, <3>1 DEF EventInv, CRTypeOK, TypeOK, WatcherTypeOK
    <3> QED BY <1>0, <3>1, <3>2, <3>3 DEF EventInv, OnlyOnce
  <2>5. CASE \/ NoNewPeer \/ PostRecover \/ RecoverDone \/ UpdateZKNode
             \/ FinishChild \/ SuspendWrites \/ WatchForPeerJoin
    <3>1. UNCHANGED <<exists_watch, peers, servers, events>>
      BY <2>5 DEF NoNewPeer, PostRecover, RecoverDone, UpdateZKNode, FinishChild, SuspendWrites,
         WatchForPeerJoin, zkVars, clientVars
    <3>2. Deleted' = Deleted
      BY <3>1 DEF Deleted
    <3>3. /\ cpc # "idle" /\ ev \in {"none", "deleted", "child"}
          /\ \/ cpc' = "idle" /\ ev' = "none"
             \/ cpc' = "rwait" /\ ev' = ev
             \/ cpc' = "update" /\ ev' = ev /\ ev = "deleted"
             \/ cpc' = "joined" /\ ev' = ev /\ ev # "deleted"
             \/ cpc' = "failed" /\ ev' = ev /\ ev = "deleted"
             \/ cpc = "failed" /\ cpc' = "watch" /\ ev' = ev
      BY <1>0, <2>5 DEF NoNewPeer, PostRecover, RecoverDone, UpdateZKNode, FinishChild,
         SuspendWrites, WatchForPeerJoin, CRTypeOK, TypeOK, WatcherTypeOK
    <3> QED BY <1>0, <3>1, <3>2, <3>3 DEF EventInv, OnlyOnce
  <2> QED BY <1>4, <2>1, <2>2, <2>3, <2>4, <2>5 DEF Watcher
<1>5. CASE \E p \in Peers : (NicStep(p) \/ PeerCrash(p) \/ ExpireDead(p)) /\ Kept
  <2> PICK p \in Peers : (NicStep(p) \/ PeerCrash(p) \/ ExpireDead(p)) /\ Kept
    BY <1>5
  <2>1. CASE NicStep(p) \/ PeerCrash(p)
    BY <1>1, <2>1 DEF NicStep, PeerCrash, zkVars, clientVars, watcherVars
  <2>2. CASE ExpireDead(p)
    <3>1. /\ p \in servers /\ servers' = servers \ {p}
          /\ OnlyOnce(events)' /\ exists_watch' = exists_watch \ {p}
          /\ Deleted' = IF p \in exists_watch THEN Deleted \cup {p} ELSE Deleted
          /\ UNCHANGED <<peers, cpc, ev, new_peer>>
      BY <2>2, ExpiredPeer DEF clientVars, watcherVars
    <3> QED BY <1>0, <3>1 DEF EventInv
  <2> QED BY <2>1, <2>2
<1>6. CASE ClientCrash
  <2>1. /\ exists_watch' = {} /\ events' = <<>> /\ cpc' = "idle" /\ ev' = "none"
    BY <1>6 DEF ClientCrash
  <2>2. Deleted' = {} /\ OnlyOnce(events)'
    BY <2>1 DEF Deleted, OnlyOnce, Range
  <2> QED BY <2>1, <2>2 DEF EventInv
<1>7. CASE Restart
  <2>1. /\ UNCHANGED <<servers, events, cpc, ev, new_peer>>
        /\ peers' = zknode /\ exists_watch' = zknode \cap servers
        /\ cli = "down"
    BY <1>t, <1>7, RestartPeers DEF Restart, historyVars, watcherVars
  <2>2. Deleted' = {}
    BY <1>0, <2>1 DEF Deleted, LifeInv, Range
  <2> QED BY <1>0, <2>1, <2>2 DEF EventInv, LifeInv, OnlyOnce
<1>8. CASE OpenTruncated \/ GetInfo \/ ReadSource \/ SyncPeers \/ SyncDone
  BY <1>1, <1>8 DEF OpenTruncated, GetInfo, ReadSource, SyncPeers, SyncDone, zkVars, clientVars, watcherVars
<1> QED BY <1>0, <1>2, <1>3, <1>4, <1>5, <1>6, <1>7, <1>8, CRCases

\* A peer that is lost stays so until the client crashes.
LEMMA LostStays ==
    ASSUME TwoReplicas, CRInv, [CRNext]_crVars, ~ClientCrash
    PROVE  Lost \subseteq Lost'
<1>0. CRTypeOK /\ LifeInv /\ EventInv
  BY DEF CRInv
<1>t. events \in Seq(EventOf(Peers))
  BY <1>0 DEF CRTypeOK, TypeOK, ZkTypeOK
<1>1. ASSUME peers \subseteq peers', servers' = servers, Range(events') \subseteq Range(events)
      PROVE  Lost \subseteq Lost'
  <2>1. Deleted' \subseteq Deleted
    BY <1>1 DEF Deleted
  <2> QED BY <1>1, <2>1 DEF Lost
<1>2. CASE UNCHANGED crVars
  BY <1>1, <1>2 DEF crVars, vars, zkVars, clientVars
<1>3. CASE cli = "up" /\ Writer /\ Kept
  BY <1>1, <1>3 DEF Writer, BeginWrite, CopyData, StampSeq, LockRecover, PostTo, FinishPost,
     PollPeer, FinishWrite, zkVars, clientVars
<1>4. CASE cli # "down" /\ Watcher /\ Kept
  <2>1. CASE HandleDeleted
    <3>1. PICK p \in Deleted : Deleted' = Deleted \ {p} /\ p \notin servers /\ peers' = peers \ {p}
      BY <2>1, ErasedPeer
    <3>2. servers' = servers
      BY <2>1 DEF HandleDeleted
    <3> QED BY <3>1, <3>2 DEF Lost
  <2>2. CASE HandleChild
    <3>1. Range(events') \subseteq Range(events) /\ UNCHANGED <<peers, servers>>
      BY <1>0, <1>t, <2>2, TakeEvent DEF HandleChild, EventInv, clientVars
    <3> QED BY <1>1, <3>1
  <2>3. CASE \E p \in Peers : AddPeer(p)
    BY <1>1, <2>3 DEF AddPeer, zkVars
  <2>4. CASE \/ NoNewPeer \/ WatchPeer \/ PostRecover \/ RecoverDone \/ UpdateZKNode
             \/ FinishChild \/ SuspendWrites \/ WatchForPeerJoin
    BY <1>1, <2>4 DEF NoNewPeer, WatchPeer, PostRecover, RecoverDone, UpdateZKNode, FinishChild,
       SuspendWrites, WatchForPeerJoin, zkVars, clientVars
  <2> QED BY <1>4, <2>1, <2>2, <2>3, <2>4 DEF Watcher
<1>5. CASE \E p \in Peers : (NicStep(p) \/ PeerCrash(p) \/ ExpireDead(p)) /\ Kept
  <2> PICK p \in Peers : (NicStep(p) \/ PeerCrash(p) \/ ExpireDead(p)) /\ Kept
    BY <1>5
  <2>1. CASE NicStep(p) \/ PeerCrash(p)
    BY <1>1, <2>1 DEF NicStep, PeerCrash, zkVars, clientVars
  <2>2. CASE ExpireDead(p)
    <3>1. /\ p \in servers /\ servers' = servers \ {p} /\ peers' = peers
          /\ Deleted' \subseteq Deleted \cup {p}
      BY <2>2, ExpiredPeer DEF clientVars
    <3> QED BY <3>1 DEF Lost
  <2> QED BY <2>1, <2>2
<1>6. CASE Restart
  <2>1. Lost = {}
    BY <1>0, <1>6 DEF Restart, LifeInv, Lost
  <2> QED BY <2>1
<1>7. CASE OpenTruncated \/ GetInfo \/ ReadSource \/ SyncPeers \/ SyncDone
  BY <1>1, <1>7 DEF OpenTruncated, GetInfo, ReadSource, SyncPeers, SyncDone, zkVars, clientVars
<1> QED BY <1>0, <1>2, <1>3, <1>4, <1>5, <1>6, <1>7, CRCases

\* A peer joins outside of a replacement only when an earlier one was lost.
LEMMA JoinStep == TwoReplicas /\ CRInv /\ [CRNext]_crVars => JoinInv'
<1> SUFFICES ASSUME TwoReplicas, CRInv, [CRNext]_crVars PROVE JoinInv'
  OBVIOUS
<1>0. CRTypeOK /\ LifeInv /\ ServerInv /\ EventInv /\ JoinInv
  BY DEF CRInv
<1>t. TypeOK /\ events \in Seq(EventOf(Peers))
  BY <1>0 DEF CRTypeOK, TypeOK, ZkTypeOK
<1>l. ~ClientCrash => Lost \subseteq Lost'
  BY LostStays
<1>1. ASSUME UNCHANGED <<peers, servers, child_watch, events, cpc, ev>>, ~ClientCrash
      PROVE  JoinInv'
  BY <1>0, <1>1, <1>l DEF JoinInv
<1>2. CASE UNCHANGED crVars
  <2>1. UNCHANGED <<peers, servers, child_watch, events, cpc, ev, clientCrashes>>
    BY <1>2 DEF crVars, vars, zkVars, clientVars, watcherVars, recoverVars
  <2>2. ~ClientCrash
    BY <1>0, <2>1 DEF ClientCrash, CRTypeOK
  <2> QED BY <1>1, <2>1, <2>2
<1>c. Kept \/ Restart \/ OpenTruncated \/ GetInfo \/ ReadSource \/ SyncPeers \/ SyncDone => ~ClientCrash
  BY <1>0 DEF Kept, recoverVars, Restart, OpenTruncated, GetInfo, ReadSource, SyncPeers, SyncDone, ClientCrash,
     CRTypeOK
<1>3. CASE cli = "up" /\ Writer /\ Kept
  BY <1>1, <1>3, <1>c DEF Writer, BeginWrite, CopyData, StampSeq, LockRecover, PostTo, FinishPost,
     PollPeer, FinishWrite, zkVars, clientVars, watcherVars
<1>4. CASE cli # "down" /\ Watcher /\ Kept
  <2>l. Lost \subseteq Lost'
    BY <1>4, <1>c, <1>l
  <2>1. CASE HandleDeleted
    <3>1. Range(events') \subseteq Range(events) /\ cpc' = "pick" /\ ev' = "deleted"
      BY <2>1, ErasedPeer
    <3>2. PICK p \in Deleted : Deleted' = Deleted \ {p} /\ p \notin servers /\ peers' = peers \ {p}
      BY <2>1, ErasedPeer
    <3>3. UNCHANGED <<child_watch, servers>>
      BY <2>1 DEF HandleDeleted
    <3> QED BY <1>0, <2>l, <3>1, <3>2, <3>3 DEF JoinInv
  <2>2. CASE HandleChild
    <3>1. /\ Range(events') \subseteq Range(events) /\ Head(events) \in Range(events)
          /\ UNCHANGED <<peers, servers, child_watch>> /\ cpc' = "pick"
      BY <1>0, <1>t, <2>2, TakeEvent, TailProperties DEF HandleChild, EventInv, clientVars
    <3>2. Head(events) = ChildEvent
      <4>1. Head(events) \in EventOf(Peers) /\ Head(events).type = "child"
        BY <1>t, <2>2, TailProperties DEF HandleChild
      <4> QED BY <4>1 DEF EventOf
    <3>3. servers \subseteq peers \/ Lost # {}
      BY <1>0, <3>1, <3>2 DEF JoinInv
    <3> QED BY <2>l, <3>1, <3>3 DEF JoinInv
  <2>3. ASSUME NEW p \in Peers, AddPeer(p) PROVE JoinInv'
    <3>1. /\ UNCHANGED <<servers, child_watch, events, ev>> /\ p \in servers \ peers
          /\ cpc' = "exists"
      BY <2>3 DEF AddPeer, zkVars
    <3>2. child_watch \/ ChildEvent \in Range(events) \/ ev = "child" => Lost # {}
      BY <1>0, <3>1 DEF JoinInv
    <3> QED BY <2>l, <3>1, <3>2 DEF JoinInv
  <2>4. CASE NoNewPeer
    <3>1. /\ UNCHANGED <<servers, peers, child_watch, events>> /\ servers \subseteq peers
          /\ \/ cpc' = "failed" /\ ev' = "deleted"
             \/ cpc' = "idle" /\ ev' = "none"
      BY <2>4 DEF NoNewPeer, zkVars, clientVars
    <3> QED BY <3>1 DEF JoinInv
  <2>5. CASE WatchPeer
    <3>1. /\ UNCHANGED <<servers, peers, child_watch, events>> /\ cpc = "exists"
          /\ \/ ev' = ev /\ cpc' \in {"recover", "joined"}
             \/ new_peer \notin servers /\ ev' = ev /\ ev = "deleted" /\ cpc' = "failed"
             \/ ev' = "none" /\ cpc' = "idle"
      BY <2>5 DEF WatchPeer, clientVars
    <3>2. new_peer \notin servers => new_peer \in Lost
      BY <1>0, <3>1 DEF ServerInv, EventInv, Adding, Lost
    <3> QED BY <1>0, <2>l, <3>1, <3>2 DEF JoinInv
  <2>6. CASE PostRecover \/ RecoverDone
    <3>1. /\ UNCHANGED <<servers, peers, child_watch, events, ev>> /\ cpc \in {"recover", "rwait"}
          /\ cpc' \in {"rwait", "update", "joined"}
      BY <2>6 DEF PostRecover, RecoverDone, zkVars, clientVars
    <3> QED BY <1>0, <2>l, <3>1 DEF JoinInv
  <2>7. CASE UpdateZKNode \/ FinishChild
    <3>1. /\ UNCHANGED <<servers, peers, events>> /\ cpc' = "idle" /\ ev' = "none"
          /\ child_watch' = child_watch \/ cpc = "joined"
      BY <2>7 DEF UpdateZKNode, FinishChild, clientVars
    <3>2. cpc = "joined" => ev = "child"
      BY <1>0 DEF EventInv
    <3> QED BY <1>0, <2>l, <3>1, <3>2 DEF JoinInv
  <2>8. CASE SuspendWrites \/ WatchForPeerJoin
    <3>1. /\ UNCHANGED <<servers, peers, events>> /\ cpc \in {"failed", "watch"}
          /\ ev' \in {ev, "none"} /\ cpc' \in {"watch", "idle"}
      BY <2>8 DEF SuspendWrites, WatchForPeerJoin, clientVars, zkVars
    <3>2. ev = "deleted" /\ (servers \subseteq peers \/ Lost # {})
      BY <1>0, <3>1 DEF JoinInv, EventInv
    <3> QED BY <2>l, <3>1, <3>2 DEF JoinInv
  <2> QED BY <1>4, <2>1, <2>2, <2>3, <2>4, <2>5, <2>6, <2>7, <2>8 DEF Watcher
<1>5. CASE \E p \in Peers : (NicStep(p) \/ PeerCrash(p) \/ ExpireDead(p)) /\ Kept
  <2> PICK p \in Peers : (NicStep(p) \/ PeerCrash(p) \/ ExpireDead(p)) /\ Kept
    BY <1>5
  <2>l. Lost \subseteq Lost' /\ ~ClientCrash
    BY <1>c, <1>l
  <2>1. CASE NicStep(p) \/ PeerCrash(p)
    BY <1>1, <2>1, <2>l DEF NicStep, PeerCrash, zkVars, clientVars, watcherVars
  <2>2. CASE ExpireDead(p)
    <3>1. /\ servers' = servers \ {p} /\ UNCHANGED <<peers, cpc, ev>> /\ child_watch' = FALSE
          /\ (ChildEvent \in Range(events))' => ChildEvent \in Range(events) \/ child_watch
      BY <2>2, ExpiredPeer DEF clientVars, watcherVars
    <3> QED BY <1>0, <2>l, <3>1 DEF JoinInv
  <2> QED BY <2>1, <2>2
<1>6. CASE ClientCrash
  <2>1. /\ events' = <<>> /\ cpc' = "idle" /\ ev' = "none" /\ ~child_watch'
    BY <1>6 DEF ClientCrash
  <2> QED BY <2>1 DEF JoinInv, Range
<1>7. CASE Restart
  <2>1. /\ UNCHANGED <<child_watch, events, cpc, ev>> /\ cli = "down"
    BY <1>7 DEF Restart, watcherVars
  <2> QED BY <1>0, <2>1 DEF JoinInv, LifeInv, EventInv, Range
<1>8. CASE OpenTruncated \/ GetInfo \/ ReadSource \/ SyncPeers \/ SyncDone
  BY <1>1, <1>8, <1>c DEF OpenTruncated, GetInfo, ReadSource, SyncPeers, SyncDone, zkVars, clientVars, watcherVars
<1> QED BY <1>0, <1>2, <1>3, <1>4, <1>5, <1>6, <1>7, <1>8, CRCases

\* When every peer in the client's node is up, these are its peers: it has not
\* lost any, and none has been replaced.
LEMMA NodeStep == TwoReplicas /\ CRInv /\ [CRNext]_crVars => NodeInv'
<1> SUFFICES ASSUME TwoReplicas, CRInv, [CRNext]_crVars PROVE NodeInv'
  OBVIOUS
<1>0. CRTypeOK /\ LifeInv /\ ServerInv /\ EventInv /\ JoinInv /\ NodeInv
  BY DEF CRInv
<1>t. TypeOK /\ peers \in SUBSET Peers /\ zknode \in SUBSET Peers
  BY <1>0 DEF CRTypeOK, TypeOK, ZkTypeOK, ClientTypeOK
<1>l. ~ClientCrash => Lost \subseteq Lost'
  BY LostStays
<1>c. Kept \/ Restart \/ OpenTruncated \/ GetInfo \/ ReadSource \/ SyncPeers \/ SyncDone => ~ClientCrash
  BY <1>0 DEF Kept, recoverVars, Restart, OpenTruncated, GetInfo, ReadSource, SyncPeers, SyncDone, ClientCrash,
     CRTypeOK
<1>a. zknode \subseteq alive /\ cli # "down" => Lost = {}
  BY <1>0 DEF NodeInv, Lost, ServerInv
<1>n. Cardinality(peers) \in Nat /\ Cardinality(zknode) \in Nat
  BY <1>t, CardBounds
<1>1. ASSUME UNCHANGED <<peers, cpc, ev, zknode>>, alive' \subseteq alive,
             cli' # "down" => cli # "down", ~ClientCrash
      PROVE  NodeInv'
  BY <1>0, <1>1, <1>l DEF NodeInv
<1>2. CASE UNCHANGED crVars
  <2>1. UNCHANGED <<peers, cpc, ev, zknode, alive, cli, clientCrashes>>
    BY <1>2 DEF crVars, vars, rdmaVars, zkVars, clientVars, watcherVars, recoverVars
  <2>2. ~ClientCrash
    BY <1>0, <2>1 DEF ClientCrash, CRTypeOK
  <2> QED BY <1>1, <2>1, <2>2
<1>3. CASE cli = "up" /\ Writer /\ Kept
  BY <1>1, <1>3, <1>c DEF Writer, BeginWrite, CopyData, StampSeq, LockRecover, PostTo, FinishPost,
     PollPeer, FinishWrite, rdmaVars, zkVars, clientVars, watcherVars
<1>4. CASE cli # "down" /\ Watcher /\ Kept
  <2>l. Lost \subseteq Lost' /\ cli' = cli
    BY <1>4, <1>c, <1>l DEF Kept, recoverVars
  <2>1. CASE HandleDeleted
    <3>1. cpc' = "pick" /\ ev' = "deleted"
      BY <2>1, ErasedPeer
    <3>2. PICK p \in Deleted : /\ Deleted' = Deleted \ {p} /\ p \notin servers /\ peers' = peers \ {p}
                               /\ p \in peers
      BY <2>1, ErasedPeer
    <3>3. UNCHANGED <<alive, zknode>> /\ cpc = "idle"
      BY <2>1 DEF HandleDeleted
    <3>4. ~(zknode \subseteq alive)
      BY <1>0, <1>4, <3>2 DEF NodeInv, ServerInv
    <3>5. Lost # {} \/ Cardinality(peers') <= 1
      <4>1. Cardinality(peers \ {p}) <= Cardinality(peers) - 1 /\ Cardinality(peers \ {p}) \in Nat
        BY <1>t, <3>2, CardBounds
      <4>2. Lost # {} \/ Cardinality(peers) <= 2
        BY <1>0, <3>3 DEF NodeInv
      <4> QED BY <1>n, <3>2, <4>1, <4>2
    <3> QED BY <2>l, <3>1, <3>3, <3>4, <3>5 DEF NodeInv
  <2>2. CASE HandleChild
    <3>1. UNCHANGED <<peers, alive, zknode>> /\ cpc = "idle" /\ cpc' = "pick" /\ ev' = "child"
      BY <2>2 DEF HandleChild, rdmaVars, clientVars
    <3> QED BY <1>0, <2>l, <3>1 DEF NodeInv
  <2>3. ASSUME NEW p \in Peers, AddPeer(p) PROVE NodeInv'
    <3>1. /\ UNCHANGED <<alive, zknode, ev>> /\ p \in servers \ peers /\ cpc = "pick"
          /\ cpc' = "exists" /\ peers' = peers \cup {p}
      BY <2>3 DEF AddPeer, zkVars
    <3>2. ev = "deleted" \/ Lost # {}
      <4>1. ev = "deleted" \/ ev = "child"
        BY <1>0, <3>1 DEF EventInv, CRTypeOK, TypeOK, WatcherTypeOK
      <4> QED BY <1>0, <3>1, <4>1 DEF JoinInv
    <3>3. ~(zknode \subseteq alive)
      BY <1>0, <1>4, <1>a, <3>1, <3>2 DEF NodeInv
    <3>4. Lost # {} \/ Cardinality(peers') <= 2
      <4>1. Cardinality(peers \cup {p}) <= Cardinality(peers) + 1
        BY <1>t, CardBounds
      <4>2. Cardinality(peers') \in Nat
        <5>1. peers' \in SUBSET Peers
          BY <1>t, <3>1
        <5> QED BY <5>1, CardBounds
      <4>3. Lost # {} \/ Cardinality(peers) <= 1
        BY <1>0, <3>1, <3>2 DEF NodeInv
      <4> QED BY <1>n, <3>1, <4>1, <4>2, <4>3
    <3> QED BY <2>l, <3>1, <3>3, <3>4 DEF NodeInv
  <2>4. CASE UpdateZKNode
    <3>1. UNCHANGED <<peers, alive>> /\ zknode' = peers /\ cpc' = "idle" /\ cpc = "update"
      BY <2>4 DEF UpdateZKNode, rdmaVars, clientVars
    <3>2. peers \subseteq alive => Lost = {}
      BY <1>0 DEF Lost, ServerInv
    <3> QED BY <1>0, <2>l, <3>1, <3>2 DEF NodeInv
  <2>5. CASE \/ NoNewPeer \/ WatchPeer \/ PostRecover \/ RecoverDone
             \/ FinishChild \/ SuspendWrites \/ WatchForPeerJoin
    <3>1. /\ UNCHANGED <<peers, alive, zknode>> /\ cpc \notin {"idle", "update"}
          /\ cpc \in {"exists", "recover", "rwait"} \/ cpc' \in {"idle", "failed", "watch"}
          /\ cpc' # "pick"
      BY <2>5 DEF NoNewPeer, WatchPeer, PostRecover, RecoverDone, FinishChild, SuspendWrites,
         WatchForPeerJoin, rdmaVars, zkVars, clientVars
    <3>2. Lost # {} \/ Cardinality(peers) <= 2
      BY <1>0, <1>n DEF NodeInv
    <3>3. zknode \subseteq alive => peers = zknode /\ cpc' \in {"idle", "failed", "watch"}
      BY <1>0, <1>4, <3>1 DEF NodeInv
    <3> QED BY <1>0, <2>l, <3>1, <3>2, <3>3 DEF NodeInv
  <2> QED BY <1>4, <2>1, <2>2, <2>3, <2>4, <2>5 DEF Watcher
<1>5. CASE \E p \in Peers : (NicStep(p) \/ PeerCrash(p) \/ ExpireDead(p)) /\ Kept
  <2>1. UNCHANGED <<peers, cpc, ev, zknode, cli>> /\ alive' \subseteq alive
    BY <1>5 DEF Kept, recoverVars, NicStep, NicPlace, NicComplete, PeerCrash, ServerDown, ExpireDead,
       NodeDeleted, rdmaVars, zkVars, clientVars, watcherVars
  <2> QED BY <1>1, <1>5, <1>c, <2>1
<1>6. CASE ClientCrash
  <2>1. peers' = {} /\ cli' = "down" /\ cpc' = "idle" /\ UNCHANGED <<zknode, alive>>
    BY <1>6 DEF ClientCrash
  <2>2. Cardinality({}) = 0
    BY FS_EmptySet
  <2> QED BY <1>0, <2>1, <2>2 DEF NodeInv
<1>7. CASE Restart
  <2>1. /\ UNCHANGED <<alive, zknode, cpc, ev>> /\ peers' = zknode /\ zknode \subseteq alive
        /\ cli = "down"
    BY <1>t, <1>7, RestartPeers DEF Restart, watcherVars
  <2> QED BY <1>0, <2>1 DEF NodeInv, LifeInv
<1>8. CASE OpenTruncated \/ GetInfo \/ ReadSource \/ SyncPeers \/ SyncDone
  BY <1>1, <1>8, <1>c DEF OpenTruncated, GetInfo, ReadSource, SyncPeers, SyncDone, rdmaVars, zkVars, clientVars,
     watcherVars
<1> QED BY <1>0, <1>2, <1>3, <1>4, <1>5, <1>6, <1>7, <1>8, CRCases

\* A server that is not a peer holds nothing of the file.
LEMMA SpareStep == TwoReplicas /\ CRInv /\ [CRNext]_crVars => SpareInv'
<1> SUFFICES ASSUME TwoReplicas, CRInv, [CRNext]_crVars PROVE SpareInv'
  OBVIOUS
<1>0. CRTypeOK /\ LifeInv /\ ServerInv /\ EventInv /\ NodeInv /\ SpareInv
  BY DEF CRInv
<1>t. /\ TypeOK /\ mr_seq \in [Peers -> Nat] /\ peers \in SUBSET Peers
      /\ zknode \in SUBSET Peers
  BY <1>0 DEF CRTypeOK, TypeOK, RdmaTypeOK, ZkTypeOK, ClientTypeOK
<1>1. ASSUME UNCHANGED <<peers, mr_seq, zknode>>, alive' \subseteq alive,
             cli' = "down" <=> cli = "down"
      PROVE  SpareInv'
  BY <1>0, <1>1 DEF SpareInv, Home
<1>2. CASE UNCHANGED crVars
  BY <1>1, <1>2 DEF crVars, vars, rdmaVars, zkVars, clientVars, recoverVars
<1>3. CASE cli = "up" /\ Writer /\ Kept
  BY <1>1, <1>3 DEF Kept, recoverVars, Writer, BeginWrite, CopyData, StampSeq, LockRecover, PostTo,
     FinishPost, PollPeer, FinishWrite, rdmaVars, zkVars, clientVars
<1>4. CASE cli # "down" /\ Watcher /\ Kept
  <2>0. cli' # "down"
    BY <1>4 DEF Kept, recoverVars
  <2>1. CASE HandleDeleted
    <3>1. PICK p \in Deleted : p \notin servers /\ peers' = peers \ {p}
      BY <2>1, ErasedPeer
    <3>2. mr_seq' = mr_seq /\ (p \in Peers => mr_seq[p] = 0)
      BY <1>0, <2>1, <3>1 DEF HandleDeleted, ServerInv
    <3> QED BY <1>0, <1>4, <2>0, <3>1, <3>2 DEF SpareInv, Home
  <2>2. CASE \E p \in Peers : AddPeer(p)
    <3>1. peers \subseteq peers' /\ mr_seq' = mr_seq
      BY <2>2 DEF AddPeer
    <3> QED BY <1>0, <1>4, <2>0, <3>1 DEF SpareInv, Home
  <2>3. CASE \/ HandleChild \/ NoNewPeer \/ WatchPeer \/ PostRecover \/ RecoverDone \/ UpdateZKNode
             \/ FinishChild \/ SuspendWrites \/ WatchForPeerJoin
    <3>1. peers' = peers /\ mr_seq' = mr_seq
      BY <2>3 DEF HandleChild, NoNewPeer, WatchPeer, PostRecover, RecoverDone, UpdateZKNode,
         FinishChild, SuspendWrites, WatchForPeerJoin, rdmaVars, clientVars
    <3> QED BY <1>0, <1>4, <2>0, <3>1 DEF SpareInv, Home
  <2> QED BY <1>4, <2>1, <2>2, <2>3 DEF Watcher
<1>5. CASE \E p \in Peers : (NicStep(p) \/ PeerCrash(p) \/ ExpireDead(p)) /\ Kept
  <2> PICK p \in Peers : (NicStep(p) \/ PeerCrash(p) \/ ExpireDead(p)) /\ Kept
    BY <1>5
  <2>0. cli' = cli
    BY DEF Kept, recoverVars
  <2>1. CASE NicStep(p)
    <3>1. /\ UNCHANGED <<peers, zknode, alive>> /\ p \in conn
          /\ \A r \in Peers : r # p => mr_seq'[r] = mr_seq[r]
      BY <1>t, <2>1 DEF NicStep, NicPlace, NicComplete, zkVars, clientVars
    <3>2. p \in peers /\ cli # "down"
      BY <1>0, <3>1 DEF ServerInv, LifeInv
    <3> QED BY <1>0, <2>0, <3>1, <3>2 DEF SpareInv, Home
  <2>2. CASE PeerCrash(p)
    <3>1. /\ UNCHANGED <<peers, zknode>> /\ alive' \subseteq alive
          /\ mr_seq' = [mr_seq EXCEPT ![p] = 0]
      BY <2>2 DEF PeerCrash, ServerDown, clientVars
    <3> QED BY <1>0, <1>t, <2>0, <3>1 DEF SpareInv, Home
  <2>3. CASE ExpireDead(p)
    BY <1>1, <2>0, <2>3 DEF ExpireDead, NodeDeleted, rdmaVars, clientVars
  <2> QED BY <2>1, <2>2, <2>3
<1>6. CASE ClientCrash
  BY <1>0, <1>6 DEF ClientCrash, SpareInv, Home, NodeInv
<1>7. CASE Restart
  <2>1. /\ UNCHANGED <<alive, zknode, mr_seq>> /\ peers' = zknode /\ zknode \subseteq alive
        /\ cli = "down" /\ cli' = "info"
    BY <1>t, <1>7, RestartPeers DEF Restart
  <2> QED BY <1>0, <2>1 DEF SpareInv, Home
<1>8. CASE OpenTruncated \/ GetInfo \/ ReadSource \/ SyncPeers \/ SyncDone
  BY <1>1, <1>8 DEF OpenTruncated, GetInfo, ReadSource, SyncPeers, SyncDone, rdmaVars, zkVars, clientVars
<1> QED BY <1>0, <1>2, <1>3, <1>4, <1>5, <1>6, <1>7, <1>8, CRCases

\* The network card adds no work request.
LEMMA NicTokens ==
    ASSUME sendq \in [Peers -> Seq(WR)], NEW p \in Peers, NEW q \in Peers, NicStep(p)
    PROVE  \A wr \in Range(sendq'[q]) : \E r \in Range(sendq[q]) : wr.tok = r.tok
<1>1. CASE q # p
  <2>1. sendq'[q] = sendq[q]
    BY <1>1 DEF NicStep, NicPlace, NicComplete
  <2> QED BY <2>1
<1>2. CASE q = p /\ NicPlace(p)
  <2>1. PICK c \in Head(sendq[q]).cells : sendq' = [sendq EXCEPT ![q][1].cells = @ \ {c}]
    BY <1>2 DEF NicPlace
  <2>2. sendq[q] # <<>> /\ sendq'[q] = [sendq[q] EXCEPT ![1].cells = @ \ {c}]
    BY <1>2, <2>1 DEF NicPlace
  <2> DEFINE h == [Head(sendq[q]) EXCEPT !.cells = @ \ {c}]
  <2>3. Range(sendq'[q]) \subseteq Range(sendq[q]) \cup {h}
    BY <2>2, PlaceProperties
  <2>4. Head(sendq[q]) \in WR /\ Head(sendq[q]) \in Range(sendq[q])
    BY <2>2, TailProperties
  <2>5. h.tok = Head(sendq[q]).tok
    BY <2>4 DEF WR
  <2> QED BY <2>3, <2>4, <2>5
<1>3. CASE q = p /\ NicComplete(p)
  <2>1. sendq[q] # <<>> /\ sendq'[q] = Tail(sendq[q])
    BY <1>3 DEF NicComplete
  <2>2. Range(sendq'[q]) \subseteq Range(sendq[q])
    BY <2>1, TailProperties
  <2> QED BY <2>2
<1> QED BY <1>1, <1>2, <1>3 DEF NicStep

\* Every work request of a write has its token in op_queue, and a peer that the
\* posting loop has passed has the token of the current write there, or nothing.
LEMMA TokenStep == TwoReplicas /\ CRInv /\ [CRNext]_crVars => TokenInv'
<1> SUFFICES ASSUME TwoReplicas, CRInv, [CRNext]_crVars, NEW q \in Peers PROVE TokenOK(q)'
  BY DEF TokenInv
<1>0. CRTypeOK /\ LifeInv /\ ServerInv /\ QuorumInv /\ TokenOK(q)
  BY DEF CRInv, TokenInv
<1>t. /\ TypeOK /\ sendq[q] \in Seq(WR) /\ sendq \in [Peers -> Seq(WR)]
      /\ op_queue[q] \in Seq(Writes) /\ op_queue \in [Peers -> Seq(Writes)]
      /\ nwr \in Nat /\ zknode \in SUBSET Peers
  BY <1>0 DEF CRTypeOK, TypeOK, RdmaTypeOK, ClientTypeOK, WriterTypeOK, ZkTypeOK
<1>e. Range(<<>>) = {} /\ Increasing(<<>>)
  BY DEF Range, Increasing
<1> USE ConstantsAssumption, BufSizeAssumption
<1>1. ASSUME UNCHANGED <<op_queue, nwr, wpc, todo, flagged, peers, sendq>>
      PROVE  TokenOK(q)'
  BY <1>1, <1>0 DEF TokenOK
<1>p. ASSUME UNCHANGED <<op_queue, nwr, wpc, todo, flagged, peers>>,
             NEW cs \in SUBSET Cells, sendq'[q] = writeTwoPlace(sendq[q], cs, 0)
      PROVE  TokenOK(q)'
  <2>1. Range(sendq'[q]) = Range(sendq[q]) \cup {DataWR(cs, 0), SeqWR(0)}
    BY <1>t, <1>p, PostProperties
  <2>2. DataWR(cs, 0).tok = 0 /\ SeqWR(0).tok = 0
    BY DEF DataWR, SeqWR
  <2> QED BY <1>0, <1>p, <2>1, <2>2 DEF TokenOK
<1>f. 0 .. file_size - 1 \in SUBSET Cells
  BY <1>0 DEF CRTypeOK, TypeOK, ClientTypeOK, Cells
<1>2. CASE UNCHANGED crVars
  BY <1>1, <1>2 DEF crVars, vars, rdmaVars, clientVars, writerVars
<1>3. CASE cli = "up" /\ Writer /\ Kept
  <2>1. CASE \E c \in Cells : BeginWrite(c)
    <3>1. /\ nwr' = nwr + 1 /\ UNCHANGED <<op_queue, sendq, peers, flagged>> /\ wpc' = "copy"
      BY <2>1 DEF BeginWrite, rdmaVars
    <3>2. \A t \in Range(op_queue[q]) : t \in Int
      BY <1>t, RangeOfSeq DEF Writes
    <3> QED BY <1>0, <1>t, <3>1, <3>2 DEF TokenOK
  <2>2. CASE CopyData
    BY <2>2, <1>0 DEF TokenOK, CopyData, clientVars
  <2>3. CASE StampSeq
    BY <2>3, <1>0 DEF TokenOK, StampSeq
  <2>4. CASE LockRecover
    BY <2>4, <1>0 DEF TokenOK, LockRecover, rdmaVars
  <2>5. CASE \E p \in Peers : PostTo(p)
    <3> PICK p \in Peers : PostTo(p)
      BY <2>5
    <3>1. /\ nwr' = nwr /\ wpc' = wpc /\ wpc = "post" /\ UNCHANGED <<peers, flagged>>
          /\ todo' = todo \ {p} /\ sendq' = [sendq EXCEPT ![p] = writeTwoPlace(@, {pos}, nwr)]
          /\ op_queue' = [op_queue EXCEPT ![p] = Append(@, nwr)] /\ p \in peers
      BY DEF PostTo
    <3>2. CASE p # q
      BY <1>0, <1>t, <3>1, <3>2 DEF TokenOK
    <3>3. CASE p = q
      <4>1. nwr \in Writes /\ nwr \in Nat /\ nwr # 0 /\ {pos} \in SUBSET Cells /\ flagged = {}
        BY <1>0, <3>1 DEF CRTypeOK, TypeOK, WriterTypeOK, Writes, QuorumInv
      <4>2. nwr \notin Range(op_queue[q])
        BY <1>0, <3>1, <3>3 DEF PostTo, TokenOK
      <4>3. \A t \in Range(op_queue[q]) : t \in Int /\ t < nwr
        BY <1>0, <1>t, <4>1, <4>2, RangeOfSeq DEF TokenOK, Writes
      <4>4. op_queue'[q] = Append(op_queue[q], nwr)
            /\ sendq'[q] = writeTwoPlace(sendq[q], {pos}, nwr)
        BY <1>t, <3>1, <3>3
      <4>5. Increasing(op_queue'[q]) /\ Range(op_queue'[q]) = Range(op_queue[q]) \cup {nwr}
        BY <1>0, <1>t, <4>1, <4>3, <4>4, AppendIncreasing DEF TokenOK
      <4>6. Range(sendq'[q]) = Range(sendq[q]) \cup {DataWR({pos}, nwr), SeqWR(nwr)}
        BY <1>t, <4>1, <4>4, PostProperties
      <4>7. DataWR({pos}, nwr).tok = nwr /\ SeqWR(nwr).tok = nwr
        BY DEF DataWR, SeqWR
      <4>8. \A t \in Range(op_queue'[q]) : t <= nwr'
        BY <3>1, <4>1, <4>3, <4>5
      <4>9. wpc' = "post" /\ q \notin todo'
        BY <3>1, <3>3
      <4>10. \A wr \in Range(sendq'[q]) : wr.tok \in {0} \cup Range(op_queue'[q])
        BY <1>0, <4>5, <4>6, <4>7 DEF TokenOK
      <4> QED BY <3>1, <3>3, <4>1, <4>5, <4>8, <4>9, <4>10 DEF TokenOK
    <3> QED BY <3>2, <3>3
  <2>6. CASE FinishPost
    BY <2>6, <1>0 DEF TokenOK, FinishPost, rdmaVars, clientVars
  <2>7. CASE \E p \in Peers : PollPeer(p)
    <3> PICK p \in Peers : PollPeer(p)
      BY <2>7
    <3>1. /\ nwr' = nwr /\ wpc' = wpc /\ wpc = "poll" /\ sendq' = sendq /\ UNCHANGED <<peers, todo>>
          /\ op_queue' = [op_queue EXCEPT ![p] = Tail(@)] /\ p \in peers
          /\ op_queue[p] # <<>> /\ BothCompleted(p, Head(op_queue[p]))
          /\ flagged' = IF Head(op_queue[p]) = nwr THEN flagged \cup {p} ELSE flagged
      BY DEF PollPeer, rdmaVars
    <3>2. CASE p # q
      BY <1>0, <1>t, <3>1, <3>2 DEF TokenOK
    <3>3. CASE p = q
      <4>1. op_queue'[q] = Tail(op_queue[q]) /\ Tail(op_queue[q]) \in Seq(Writes)
        BY <1>t, <3>1, <3>3, TailProperties
      <4>2. /\ Increasing(op_queue'[q])
            /\ Range(op_queue[q]) = {Head(op_queue[q])} \cup Range(op_queue'[q])
            /\ \A t \in Range(op_queue'[q]) : t > Head(op_queue[q])
        BY <1>0, <1>t, <3>1, <3>3, <4>1, TailIncreasing, TailProperties DEF TokenOK
      <4>3. \A wr \in Range(sendq[q]) : wr.tok # Head(op_queue[q])
        BY <3>1, <3>3 DEF BothCompleted
      <4>4. nwr \in Range(op_queue[q])
        BY <1>0, <3>1, <3>3 DEF TokenOK
      <4>5. Head(op_queue[q]) = nwr => op_queue'[q] = <<>>
        <5> SUFFICES ASSUME Head(op_queue[q]) = nwr, Tail(op_queue[q]) # <<>> PROVE FALSE
          BY <4>1
        <5>1. PICK t \in Range(Tail(op_queue[q])) : t \in Writes
          BY <4>1, TailProperties
        <5>2. t > nwr /\ t <= nwr
          BY <1>0, <4>1, <4>2, <5>1 DEF TokenOK
        <5> QED BY <1>t, <5>1, <5>2 DEF Writes
      <4>6. Head(op_queue[q]) # nwr => nwr \in Range(op_queue'[q])
        BY <4>2, <4>4
      <4>7. q \notin flagged
        BY <1>0, <3>1, <3>3 DEF TokenOK
      <4>8. q \in flagged' => op_queue'[q] = <<>>
        BY <3>1, <3>3, <4>5, <4>7
      <4>9. \A wr \in Range(sendq'[q]) : wr.tok \in {0} \cup Range(op_queue'[q])
        BY <1>0, <3>1, <4>2, <4>3 DEF TokenOK
      <4>10. \A t \in Range(op_queue'[q]) : t <= nwr'
        BY <1>0, <3>1, <4>2 DEF TokenOK
      <4> QED BY <1>0, <3>1, <3>3, <4>2, <4>5, <4>6, <4>8, <4>9, <4>10 DEF TokenOK
    <3> QED BY <3>2, <3>3
  <2>8. CASE FinishWrite
    BY <2>8, <1>0 DEF TokenOK, FinishWrite, rdmaVars
  <2> QED BY <1>3, <2>1, <2>2, <2>3, <2>4, <2>5, <2>6, <2>7, <2>8 DEF Writer
<1>4. CASE cli # "down" /\ Watcher /\ Kept
  <2>1. CASE HandleDeleted
    <3>1. PICK p \in Deleted : /\ peers' = peers \ {p}
                               /\ op_queue' = [op_queue EXCEPT ![p] = <<>>]
                               /\ sendq' = [sendq EXCEPT ![p] = <<>>]
      BY <2>1, ErasedPeer
    <3>2. UNCHANGED <<nwr, wpc, todo, flagged>>
      BY <2>1 DEF HandleDeleted, writerVars
    <3>3. CASE q = p
      <4>1. op_queue'[q] = <<>> /\ sendq'[q] = <<>>
        BY <1>t, <3>1, <3>3
      <4> QED BY <1>e, <4>1 DEF TokenOK
    <3>4. CASE q # p
      <4>1. op_queue'[q] = op_queue[q] /\ sendq'[q] = sendq[q] /\ (q \in peers' <=> q \in peers)
        BY <1>t, <3>1, <3>4
      <4> QED BY <1>0, <3>2, <4>1 DEF TokenOK
    <3> QED BY <3>3, <3>4
  <2>2. CASE PostRecover
    <3>1. /\ UNCHANGED <<op_queue, nwr, wpc, todo, flagged, peers>>
          /\ sendq' = [sendq EXCEPT ![new_peer] = writeTwoPlace(@, 0 .. file_size - 1, 0)]
      BY <2>2 DEF PostRecover, writerVars, clientVars
    <3>2. sendq'[q] = sendq[q] \/ sendq'[q] = writeTwoPlace(sendq[q], 0 .. file_size - 1, 0)
      BY <1>t, <3>1
    <3>3. CASE sendq'[q] = sendq[q]
      BY <1>0, <3>1, <3>3 DEF TokenOK
    <3>4. CASE sendq'[q] = writeTwoPlace(sendq[q], 0 .. file_size - 1, 0)
      BY <1>f, <1>p, <3>1, <3>4
    <3> QED BY <3>2, <3>3, <3>4
  <2>3. CASE \E p \in Peers : AddPeer(p)
    <3>1. UNCHANGED <<op_queue, nwr, wpc, todo, flagged, sendq>> /\ peers \subseteq peers'
      BY <2>3 DEF AddPeer, writerVars
    <3> QED BY <1>0, <3>1 DEF TokenOK
  <2>4. CASE \/ HandleChild \/ NoNewPeer \/ WatchPeer \/ RecoverDone \/ UpdateZKNode
             \/ FinishChild \/ SuspendWrites \/ WatchForPeerJoin
    BY <1>1, <2>4 DEF HandleChild, NoNewPeer, WatchPeer, RecoverDone, UpdateZKNode, FinishChild,
       SuspendWrites, WatchForPeerJoin, rdmaVars, clientVars, writerVars
  <2> QED BY <1>4, <2>1, <2>2, <2>3, <2>4 DEF Watcher
<1>5. CASE \E p \in Peers : (NicStep(p) \/ PeerCrash(p) \/ ExpireDead(p)) /\ Kept
  <2> PICK p \in Peers : (NicStep(p) \/ PeerCrash(p) \/ ExpireDead(p)) /\ Kept
    BY <1>5
  <2>1. CASE NicStep(p)
    <3>1. UNCHANGED <<op_queue, nwr, wpc, todo, flagged, peers>>
      BY <2>1 DEF NicStep, clientVars, writerVars
    <3>2. \A wr \in Range(sendq'[q]) : \E r \in Range(sendq[q]) : wr.tok = r.tok
      BY <1>t, <2>1, NicTokens
    <3> QED BY <1>0, <3>1, <3>2 DEF TokenOK
  <2>2. CASE PeerCrash(p) \/ ExpireDead(p)
    BY <1>1, <2>2 DEF PeerCrash, ServerDown, ExpireDead, rdmaVars, clientVars, writerVars
  <2> QED BY <2>1, <2>2
<1>6. CASE ClientCrash
  <2>1. op_queue'[q] = <<>> /\ sendq'[q] = <<>> /\ flagged' = {} /\ wpc' = "idle"
    BY <1>6 DEF ClientCrash
  <2> QED BY <1>e, <2>1 DEF TokenOK
<1>7. CASE Restart
  <2>1. /\ UNCHANGED <<op_queue, nwr, wpc, todo, flagged, sendq>> /\ cli = "down"
    BY <1>7 DEF Restart, writerVars
  <2>2. op_queue[q] = <<>> /\ sendq[q] = <<>> /\ wpc = "idle"
    BY <1>0, <2>1 DEF LifeInv
  <2> QED BY <1>0, <1>e, <2>1, <2>2 DEF TokenOK
<1>8. CASE OpenTruncated \/ GetInfo \/ ReadSource \/ SyncDone
  BY <1>1, <1>8 DEF OpenTruncated, GetInfo, ReadSource, SyncDone, rdmaVars, clientVars, writerVars
<1>9. CASE SyncPeers
  <2>1. /\ UNCHANGED <<op_queue, nwr, wpc, todo, flagged, peers>>
        /\ sendq'[q] = sendq[q] \/ sendq'[q] = writeTwoPlace(sendq[q], 0 .. file_size - 1, 0)
    BY <1>9 DEF SyncPeers, writerVars, clientVars
  <2>2. CASE sendq'[q] = sendq[q]
    BY <1>0, <2>1, <2>2 DEF TokenOK
  <2>3. CASE sendq'[q] = writeTwoPlace(sendq[q], 0 .. file_size - 1, 0)
    BY <1>f, <1>p, <2>1, <2>3
  <2> QED BY <2>1, <2>2, <2>3
<1> QED BY <1>0, <1>2, <1>3, <1>4, <1>5, <1>6, <1>7, <1>8, <1>9, CRCases

\* The step is not a crash of the client.
LEMMA NoClientCrash ==
    ASSUME CRTypeOK
    PROVE  UNCHANGED crVars \/ Kept \/ Restart \/ OpenTruncated \/ GetInfo \/ ReadSource \/ SyncPeers \/ SyncDone
             => ~ClientCrash
BY DEF Kept, crVars, recoverVars, Restart, OpenTruncated, GetInfo, ReadSource, SyncPeers, SyncDone, ClientCrash,
   CRTypeOK

\* With two replicas a quorum is both, before and after every step.
LEMMA BothAre ==
    ASSUME TwoReplicas, CRInv, [CRNext]_crVars
    PROVE  /\ \A S \in SUBSET Peers : Majority(S) <=> Cardinality(S) > 1
           /\ rep_factor' = rep_factor
           /\ forgot \subseteq forgot'
           /\ acks' = acks => Acked' \subseteq Acked
           /\ acks' = acks /\ forgot' = forgot \cup Acked => Acked' = {}
<1>0. CRTypeOK
  BY DEF CRInv
<1>1. rep_factor = 2 /\ rep_factor' = 2
  BY ServerStep DEF CRInv, ServerInv
<1>2. 2 \div 2 = 1
  OBVIOUS
<1>3. forgot \subseteq forgot'
  BY <1>0, CRCases DEF crVars, recoverVars, Kept, ClientCrash, Restart, OpenTruncated, GetInfo,
     ReadSource, SyncPeers, SyncDone
<1>4. \A S \in SUBSET Peers : Majority(S) <=> Cardinality(S) > 1
  BY <1>1, <1>2 DEF Majority
<1>5. ASSUME acks' = acks PROVE Acked' \subseteq Acked
  BY <1>1, <1>3, <1>5 DEF Majority, Acked
<1>6. ASSUME acks' = acks, forgot' = forgot \cup Acked PROVE Acked' = {}
  BY <1>1, <1>6 DEF Majority, Acked
<1> QED BY <1>1, <1>3, <1>4, <1>5, <1>6

\* Acknowledged are the writes whose token has left every queue, unless a peer
\* is lost.
LEMMA QuorumStep == TwoReplicas /\ CRInv /\ [CRNext]_crVars => QuorumInv'
<1> SUFFICES ASSUME TwoReplicas, CRInv, [CRNext]_crVars PROVE QuorumInv'
  OBVIOUS
<1>0. CRTypeOK /\ LifeInv /\ ServerInv /\ NodeInv /\ QuorumInv /\ TokenInv
  BY DEF CRInv
<1>t. /\ op_queue \in [Peers -> Seq(Writes)] /\ acks \in [Writes -> SUBSET Peers]
      /\ flagged \in SUBSET Peers /\ peers \in SUBSET Peers /\ nwr \in Nat
  BY <1>0 DEF CRTypeOK, TypeOK, ClientTypeOK, WriterTypeOK
<1>l. ~ClientCrash => Lost \subseteq Lost'
  BY LostStays
<1>c. UNCHANGED crVars \/ Kept \/ Restart \/ OpenTruncated \/ GetInfo \/ ReadSource \/ SyncPeers \/ SyncDone
        => ~ClientCrash
  BY <1>0, NoClientCrash
<1>m. \A S \in SUBSET Peers : Majority(S) <=> Cardinality(S) > 1
  BY BothAre
<1>a. acks' = acks => Acked' \subseteq Acked
  BY BothAre
<1>b. Candidates \in SUBSET Peers
  BY <1>t DEF Candidates
<1>e. Range(<<>>) = {}
  BY DEF Range
<1>1. ASSUME UNCHANGED <<wpc, nwr>>, Acked' \subseteq Acked, wpc # "poll" => flagged' = flagged,
             Candidates' \subseteq Candidates,
             \A p \in Peers : Range(op_queue'[p]) \subseteq Range(op_queue[p]), ~ClientCrash
      PROVE  QuorumInv'
  <2>1. Cardinality(Candidates') <= Cardinality(Candidates) /\ Cardinality(Candidates') \in Nat
        /\ Cardinality(Candidates) \in Nat
    BY <1>b, <1>1, CardBounds
  <2>2. wpc' = "poll" => Lost' # {} \/ Cardinality(Candidates') <= 2
    BY <1>0, <1>l, <1>1, <2>1 DEF QuorumInv
  <2>3. \A w \in Acked' : Lost' # {} \/ \A p \in Peers : \A t \in Range(op_queue'[p]) : t > w
    BY <1>0, <1>l, <1>1 DEF QuorumInv
  <2>4. \A w \in Acked' : w < nwr' \/ (w = nwr' /\ wpc' = "idle")
    BY <1>0, <1>1 DEF QuorumInv
  <2>5. wpc' # "poll" => flagged' = {}
    BY <1>0, <1>1 DEF QuorumInv
  <2> QED BY <2>2, <2>3, <2>4, <2>5 DEF QuorumInv
<1>s. ASSUME UNCHANGED <<wpc, nwr, acks, flagged, peers, op_queue>>, ~ClientCrash
      PROVE  QuorumInv'
  <2>1. Candidates' = Candidates
    BY <1>s DEF Candidates
  <2> QED BY <1>a, <1>1, <1>s, <2>1
<1>2. CASE UNCHANGED crVars
  BY <1>s, <1>2, <1>c DEF crVars, vars, rdmaVars, clientVars, writerVars
<1>3. CASE cli = "up" /\ Writer /\ Kept
  <2>c. ~ClientCrash /\ Lost \subseteq Lost'
    BY <1>3, <1>c, <1>l
  <2>1. CASE \E c \in Cells : BeginWrite(c)
    <3>1. /\ nwr' = nwr + 1 /\ UNCHANGED <<op_queue, peers, flagged, acks>> /\ wpc' = "copy"
          /\ wpc = "idle"
      BY <2>1 DEF BeginWrite
    <3>2. \A w \in Acked : w \in Nat /\ w < nwr + 1
      BY <1>0, <1>t, <3>1 DEF QuorumInv, Acked, Writes
    <3> QED BY <1>0, <1>a, <2>c, <3>1, <3>2 DEF QuorumInv
  <2>2. CASE CopyData \/ StampSeq \/ LockRecover
    <3>1. /\ UNCHANGED <<nwr, op_queue, peers, acks>> /\ flagged' \in {flagged, {}}
          /\ wpc \notin {"poll", "idle"} /\ wpc' \notin {"poll", "idle"}
      BY <2>2 DEF CopyData, StampSeq, LockRecover, clientVars
    <3> QED BY <1>0, <1>a, <2>c, <3>1 DEF QuorumInv
  <2>3. CASE \E p \in Peers : PostTo(p)
    <3> PICK p \in Peers : PostTo(p)
      BY <2>3
    <3>1. /\ nwr' = nwr /\ wpc' = "post" /\ wpc = "post" /\ acks' = acks
          /\ flagged' = flagged /\ op_queue' = [op_queue EXCEPT ![p] = Append(@, nwr)]
      BY DEF PostTo
    <3>2. nwr \in Writes /\ op_queue[p] \in Seq(Writes) /\ Increasing(op_queue[p])
      BY <1>0, <1>t, <3>1 DEF TokenInv, TokenOK, CRTypeOK, TypeOK, WriterTypeOK, Writes
    <3>3. \A t \in Range(op_queue[p]) : t \in Int /\ t <= nwr
      <4>1. \A t \in Range(op_queue[p]) : t <= nwr
        BY <1>0 DEF TokenInv, TokenOK
      <4>2. \A t \in Range(op_queue[p]) : t \in Writes
        BY <3>2, RangeOfSeq
      <4> QED BY <4>1, <4>2 DEF Writes
    <3>4. nwr \notin Range(op_queue[p])
      BY <1>0, <3>1 DEF PostTo, TokenInv, TokenOK
    <3>5. \A t \in Range(op_queue[p]) : t < nwr
      BY <3>2, <3>3, <3>4 DEF Writes
    <3>6. Range(Append(op_queue[p], nwr)) = Range(op_queue[p]) \cup {nwr}
      BY <3>2, <3>5, AppendIncreasing
    <3>7. \A r \in Peers : \A t \in Range(op_queue'[r]) : t \in Range(op_queue[r]) \/ t = nwr
      BY <1>t, <3>1, <3>6
    <3>8. \A w \in Acked : w < nwr /\ w \in Nat
      BY <1>0, <3>1 DEF QuorumInv, Acked, Writes
    <3>9. \A w \in Acked : nwr > w
      BY <1>t, <3>8
    <3> QED BY <1>0, <1>a, <2>c, <3>1, <3>7, <3>8, <3>9 DEF QuorumInv
  <2>4. CASE FinishPost
    <3>1. /\ UNCHANGED <<nwr, op_queue, peers, acks, flagged>> /\ wpc = "post" /\ wpc' = "poll"
      BY <2>4 DEF FinishPost, clientVars
    <3>2. Candidates' \subseteq peers
      BY <1>0, <3>1 DEF Candidates, QuorumInv
    <3>3. Cardinality(Candidates') <= Cardinality(peers) /\ Cardinality(Candidates') \in Nat
          /\ Cardinality(peers) \in Nat
      BY <1>t, <3>2, CardBounds
    <3>4. Lost # {} \/ Cardinality(peers) <= 2
      BY <1>0, <3>3 DEF NodeInv
    <3>5. Lost' # {} \/ Cardinality(Candidates') <= 2
      BY <2>c, <3>3, <3>4
    <3> QED BY <1>0, <1>a, <2>c, <3>1, <3>5 DEF QuorumInv
  <2>5. CASE \E p \in Peers : PollPeer(p)
    <3> PICK p \in Peers : PollPeer(p)
      BY <2>5
    <3>1. /\ nwr' = nwr /\ wpc' = "poll" /\ wpc = "poll" /\ acks' = acks /\ op_queue[p] # <<>>
          /\ flagged' = IF Head(op_queue[p]) = nwr THEN flagged \cup {p} ELSE flagged
          /\ op_queue' = [op_queue EXCEPT ![p] = Tail(@)] /\ p \in peers /\ peers' = peers
      BY DEF PollPeer
    <3>2. Range(Tail(op_queue[p])) \subseteq Range(op_queue[p]) /\ Head(op_queue[p]) \in Range(op_queue[p])
      BY <1>t, <3>1, TailProperties
    <3>3. \A r \in Peers : Range(op_queue'[r]) \subseteq Range(op_queue[r])
      BY <1>t, <3>1, <3>2
    <3>4. Candidates' \subseteq Candidates
      BY <1>t, <3>1, <3>2, <3>3 DEF Candidates
    <3> QED BY <1>1, <1>a, <2>c, <3>1, <3>3, <3>4
  <2>6. CASE FinishWrite
    <3>1. /\ nwr' = nwr /\ wpc' = "idle" /\ wpc = "poll" /\ acks' = [acks EXCEPT ![nwr] = flagged]
          /\ flagged' = {} /\ op_queue' = op_queue /\ nwr \in Writes
      BY <1>0, <2>6 DEF FinishWrite, CRTypeOK, TypeOK, WriterTypeOK, Writes
    <3>2. \A w \in Acked' : w \in Acked \/ (w = nwr /\ Majority(flagged))
      <4>1. rep_factor' = rep_factor /\ forgot \subseteq forgot'
        BY BothAre
      <4> QED BY <1>t, <3>1, <4>1 DEF Acked, Majority
    <3>3. ASSUME Majority(flagged), Lost = {}
          PROVE  \A p \in Peers : op_queue[p] = <<>>
      <4>1. Cardinality(flagged) > 1 /\ Cardinality(Candidates) <= 2
        BY <1>0, <1>m, <1>t, <3>1, <3>3 DEF QuorumInv
      <4>2. ASSUME NEW p \in Candidates, p \notin flagged PROVE FALSE
        <5>1. flagged \subseteq Candidates \ {p}
          BY <4>2 DEF Candidates
        <5>2. Cardinality(flagged) <= Cardinality(Candidates) - 1 /\ Cardinality(Candidates) \in Nat
              /\ Cardinality(flagged) \in Nat
          BY <1>b, <1>t, <4>2, <5>1, CardBounds
        <5> QED BY <4>1, <5>2
      <4>3. ASSUME NEW p \in Peers, op_queue[p] # <<>> PROVE FALSE
        <5>1. TokenOK(p)
          BY <1>0 DEF TokenInv
        <5>2. nwr \in Range(op_queue[p]) /\ p \in peers /\ p \notin flagged
          BY <3>1, <4>3, <5>1 DEF TokenOK
        <5> QED BY <4>2, <5>2 DEF Candidates
      <4> QED BY <4>3
    <3>4. \A w \in Acked' : Lost' # {} \/ \A p \in Peers : \A t \in Range(op_queue'[p]) : t > w
      BY <1>0, <1>e, <2>c, <3>1, <3>2, <3>3 DEF QuorumInv
    <3>5. \A w \in Acked' : w < nwr' \/ (w = nwr' /\ wpc' = "idle")
      BY <1>0, <3>1, <3>2 DEF QuorumInv
    <3> QED BY <3>1, <3>4, <3>5 DEF QuorumInv
  <2> QED BY <1>3, <2>1, <2>2, <2>3, <2>4, <2>5, <2>6 DEF Writer
<1>4. CASE cli # "down" /\ Watcher /\ Kept
  <2>c. ~ClientCrash /\ Lost \subseteq Lost'
    BY <1>4, <1>c, <1>l
  <2>1. CASE HandleDeleted
    <3>1. PICK p \in Deleted : /\ peers' = peers \ {p}
                               /\ op_queue' = [op_queue EXCEPT ![p] = <<>>]
      BY <2>1, ErasedPeer
    <3>2. UNCHANGED <<nwr, wpc, acks, flagged>>
      BY <2>1 DEF HandleDeleted, writerVars
    <3>3. \A r \in Peers : Range(op_queue'[r]) \subseteq Range(op_queue[r])
      BY <1>e, <1>t, <3>1
    <3>4. Candidates' \subseteq Candidates
      BY <1>t, <3>1, <3>2, <3>3 DEF Candidates
    <3> QED BY <1>1, <1>a, <2>c, <3>2, <3>3, <3>4
  <2>2. ASSUME NEW p \in Peers, AddPeer(p) PROVE QuorumInv'
    <3>1. /\ UNCHANGED <<nwr, wpc, acks, flagged, op_queue>> /\ peers' = peers \cup {p}
          /\ p \notin peers
      BY <2>2 DEF AddPeer, writerVars
    <3>2. op_queue[p] = <<>>
      BY <1>0, <3>1 DEF TokenInv, TokenOK
    <3>3. Candidates' \subseteq Candidates
      BY <1>e, <3>1, <3>2 DEF Candidates
    <3> QED BY <1>1, <1>a, <2>c, <3>1, <3>3
  <2>3. CASE \/ HandleChild \/ NoNewPeer \/ WatchPeer \/ PostRecover \/ RecoverDone \/ UpdateZKNode
             \/ FinishChild \/ SuspendWrites \/ WatchForPeerJoin
    BY <1>s, <2>c, <2>3 DEF HandleChild, NoNewPeer, WatchPeer, PostRecover, RecoverDone,
       UpdateZKNode, FinishChild, SuspendWrites, WatchForPeerJoin, clientVars, writerVars
  <2> QED BY <1>4, <2>1, <2>2, <2>3 DEF Watcher
<1>5. CASE \E p \in Peers : (NicStep(p) \/ PeerCrash(p) \/ ExpireDead(p)) /\ Kept
  BY <1>s, <1>5, <1>c DEF NicStep, PeerCrash, ExpireDead, clientVars, writerVars
<1>6. CASE ClientCrash
  <2>1. /\ \A p \in Peers : op_queue'[p] = <<>>
        /\ flagged' = {} /\ wpc' = "idle" /\ UNCHANGED <<nwr, acks>>
    BY <1>6 DEF ClientCrash
  <2> QED BY <1>0, <1>a, <1>e, <2>1 DEF QuorumInv
<1>7. CASE Restart
  <2>1. /\ UNCHANGED <<op_queue, nwr, wpc, flagged, acks>> /\ cli = "down"
    BY <1>7 DEF Restart, writerVars
  <2>2. wpc = "idle" /\ \A p \in Peers : op_queue[p] = <<>>
    BY <1>0, <2>1 DEF LifeInv
  <2> QED BY <1>0, <1>a, <1>e, <2>1, <2>2 DEF QuorumInv
<1>8. CASE OpenTruncated \/ GetInfo \/ ReadSource \/ SyncPeers \/ SyncDone
  BY <1>s, <1>8, <1>c DEF OpenTruncated, GetInfo, ReadSource, SyncPeers, SyncDone, clientVars, writerVars
<1> QED BY <1>0, <1>2, <1>3, <1>4, <1>5, <1>6, <1>7, <1>8, CRCases

\* The peers that a recovery reads from or writes to are peers of the client as
\* long as they are up.
LEMMA AimStep == TwoReplicas /\ CRInv /\ [CRNext]_crVars => AimInv'
<1> SUFFICES ASSUME TwoReplicas, CRInv, [CRNext]_crVars PROVE AimInv'
  OBVIOUS
<1>0. CRTypeOK /\ LifeInv /\ ServerInv /\ AimInv
  BY DEF CRInv
<1>n. NoPeer \notin Peers /\ alive \in SUBSET Peers
  BY <1>0, ConstantsAssumption DEF CRTypeOK, TypeOK, RdmaTypeOK
<1>1. ASSUME peers \subseteq peers', alive' \subseteq alive, UNCHANGED <<syncing, recover_src>>
      PROVE  AimInv'
  BY <1>0, <1>1 DEF AimInv
<1>2. CASE UNCHANGED crVars
  BY <1>1, <1>2 DEF crVars, vars, rdmaVars, clientVars, recoverVars
<1>3. CASE cli = "up" /\ Writer /\ Kept
  BY <1>1, <1>3 DEF Kept, recoverVars, Writer, BeginWrite, CopyData, StampSeq, LockRecover, PostTo,
     FinishPost, PollPeer, FinishWrite, rdmaVars, clientVars
<1>4. CASE cli # "down" /\ Watcher /\ Kept
  <2>1. CASE HandleDeleted
    <3>1. PICK p \in Deleted : p \notin servers /\ peers' = peers \ {p}
      BY <2>1, ErasedPeer
    <3>2. UNCHANGED <<alive, syncing, recover_src>> /\ p \notin alive
      BY <1>0, <1>4, <2>1, <3>1 DEF HandleDeleted, Kept, recoverVars, ServerInv
    <3> QED BY <1>0, <3>1, <3>2 DEF AimInv
  <2>2. CASE \/ HandleChild \/ NoNewPeer \/ WatchPeer \/ PostRecover \/ RecoverDone \/ UpdateZKNode
             \/ FinishChild \/ SuspendWrites \/ WatchForPeerJoin \/ \E p \in Peers : AddPeer(p)
    BY <1>1, <1>4, <2>2 DEF Kept, recoverVars, HandleChild, NoNewPeer, WatchPeer, PostRecover,
       RecoverDone, UpdateZKNode, FinishChild, SuspendWrites, WatchForPeerJoin, AddPeer, rdmaVars,
       clientVars
  <2> QED BY <1>4, <2>1, <2>2 DEF Watcher
<1>5. CASE \E p \in Peers : (NicStep(p) \/ PeerCrash(p) \/ ExpireDead(p)) /\ Kept
  BY <1>1, <1>5 DEF Kept, recoverVars, NicStep, NicPlace, NicComplete, PeerCrash, ServerDown,
     ExpireDead, rdmaVars, clientVars
<1>6. CASE ClientCrash
  BY <1>n, <1>6 DEF ClientCrash, AimInv
<1>7. CASE Restart
  BY <1>0, <1>n, <1>7 DEF Restart, LifeInv, AimInv
<1>8. CASE GetInfo
  <2>1. UNCHANGED <<peers, alive, syncing>> /\ recover_src' \in peers \cup {recover_src}
    BY <1>0, <1>8, AnswersType DEF GetInfo, rdmaVars, clientVars
  <2> QED BY <1>0, <2>1 DEF AimInv
<1>9. CASE ReadSource
  BY <1>1, <1>9 DEF ReadSource
<1>10. CASE SyncPeers
  <2>1. UNCHANGED <<peers, alive, recover_src>> /\ syncing' \subseteq peers
    BY <1>10 DEF SyncPeers, clientVars
  <2> QED BY <1>0, <2>1 DEF AimInv
<1>11. CASE SyncDone
  BY <1>n, <1>11 DEF SyncDone, AimInv, rdmaVars
<1>12. CASE OpenTruncated
  BY <1>1, <1>12 DEF OpenTruncated, rdmaVars
<1> QED BY <1>0, <1>2, <1>3, <1>4, <1>5, <1>6, <1>7, <1>8, <1>9, <1>10, <1>11, <1>12, CRCases

\* An acknowledged write is one of those made so far.
LEMMA AckedFacts ==
    ASSUME CRInv, NEW w \in Acked
    PROVE  w \in Writes /\ w \in Nat \ {0} /\ w \in 1 .. nwr /\ loc[w] \in Cells
<1>1. w \in Writes /\ nwr \in Nat /\ (w < nwr \/ w = nwr)
  BY DEF Acked, CRInv, QuorumInv, CRTypeOK, TypeOK, WriterTypeOK
<1>2. w \in Nat \ {0} /\ w \in 1 .. nwr
  BY <1>1 DEF Writes
<1> QED BY <1>1, <1>2 DEF CRInv, BufInv

\* On a peer that has them all, the acknowledged writes lie within findSize.
LEMMA SizeCovers ==
    ASSUME CRInv, NEW p \in Peers, HasAcked(p), NEW w \in Acked
    PROVE  loc[w] < findSize(mr[p])
<1>1. w \in Nat \ {0} /\ loc[w] \in Cells /\ mr[p][loc[w]] >= w
  BY AckedFacts DEF HasAcked
<1>2. mr[p] \in [Cells -> 0 .. MaxWrites]
  BY DEF CRInv, CRTypeOK, TypeOK, RdmaTypeOK
<1>3. mr[p] \in [Cells -> Nat]
  BY <1>2
<1>4. /\ findSize(mr[p]) \in 0 .. BufSize
      /\ \A c \in Cells : c >= findSize(mr[p]) => mr[p][c] = 0
  BY <1>3, FindSizeExact
<1>5. mr[p][loc[w]] # 0
  BY <1>1, <1>3
<1> QED BY <1>1, <1>4, <1>5, BufSizeAssumption DEF Cells

\* The source that GetInfo chooses among the connected peers has every
\* acknowledged write.
LEMMA ChosenSource ==
    ASSUME CRInv, GetInfo, recover_src' \in conn
    PROVE  /\ HasAcked(recover_src') /\ recover_size' = findSize(mr[recover_src'])
           /\ recover_src' \in Peers
<1>0. cli = "info" /\ conn \in SUBSET Peers /\ LifeInv /\ SourceInv /\ ServerInv
  BY DEF GetInfo, CRInv, CRTypeOK, TypeOK, RdmaTypeOK
<1>1. recover_src = NoPeer /\ NoPeer \notin Peers
  BY <1>0, ConstantsAssumption DEF LifeInv
<1>2. PICK answer \in Answers :
        \/ recover_src' = recover_src
        \/ \E s \in getRecoverSrcPeer(answer) : recover_src' = s /\ recover_size' = answer[s].size
  BY DEF GetInfo
<1>3. PICK s \in getRecoverSrcPeer(answer) : recover_src' = s /\ recover_size' = answer[s].size
  BY <1>0, <1>1, <1>2
<1>4. answer[s] = [seq |-> mr_seq[s], size |-> findSize(mr[s])]
  BY <1>0, <1>3 DEF Answers, ServerInv
<1>5. mr_seq[s] # 0
  BY <1>4 DEF getRecoverSrcPeer
<1>6. HasAcked(s)
  BY <1>0, <1>3, <1>5 DEF SourceInv
<1> QED BY <1>0, <1>3, <1>4, <1>6

\* The buffer holds every acknowledged write, or a later one in its place, from
\* the end of TryRecover on.
LEMMA BufStep == TwoReplicas /\ CRInv /\ [CRNext]_crVars => BufInv'
<1> SUFFICES ASSUME TwoReplicas, CRInv, [CRNext]_crVars PROVE BufInv'
  OBVIOUS
<1>0. CRTypeOK /\ LifeInv /\ ServerInv /\ QuorumInv /\ BufInv /\ SourceInv
  BY DEF CRInv
<1>t. /\ buffer \in [Cells -> 0 .. MaxWrites] /\ mr \in [Peers -> [Cells -> 0 .. MaxWrites]]
      /\ file_size \in Nat /\ nwr \in Nat /\ loc \in [Writes -> Nat] /\ conn \in SUBSET Peers
      /\ acks \in [Writes -> SUBSET Peers]
  BY <1>0 DEF CRTypeOK, TypeOK, RdmaTypeOK, ClientTypeOK, WriterTypeOK
<1>a. acks' = acks => Acked' \subseteq Acked
  BY BothAre
<1>f. \A w \in Acked : w \in Writes /\ w \in Nat \ {0} /\ w \in 1 .. nwr /\ loc[w] \in Cells
  BY AckedFacts
<1> USE ConstantsAssumption, BufSizeAssumption
<1>1. ASSUME UNCHANGED <<nwr, loc, file_size, buffer, pos>>, Live' \subseteq Live,
             wpc' # "idle" => wpc # "idle",
             cli' \in {"sync", "wait", "up"} => cli \in {"sync", "wait", "up"}
      PROVE  BufInv'
  BY <1>0, <1>1 DEF BufInv
<1>s. ASSUME UNCHANGED <<nwr, loc, file_size, buffer, pos, wpc, acks>>,
             cli' \in {"sync", "wait", "up"} => cli \in {"sync", "wait", "up"}
      PROVE  BufInv'
  <2>1. Live' \subseteq Live
    BY <1>a, <1>s DEF Live
  <2> QED BY <1>1, <1>s, <2>1
<1>2. CASE UNCHANGED crVars
  BY <1>s, <1>2 DEF crVars, vars, rdmaVars, clientVars, writerVars, recoverVars
<1>3. CASE cli = "up" /\ Writer /\ Kept
  <2>k. cli' = "up"
    BY <1>3 DEF Kept, recoverVars
  <2>1. ASSUME NEW c \in Cells, BeginWrite(c) PROVE BufInv'
    <3>1. /\ nwr' = nwr + 1 /\ nwr + 1 \in Writes /\ pos' = c /\ wpc' = "copy" /\ wpc = "idle"
          /\ loc' = [loc EXCEPT ![nwr + 1] = c] /\ UNCHANGED <<buffer, acks>>
          /\ file_size' = IF c + 1 > file_size THEN c + 1 ELSE file_size
      BY <1>t, <2>1 DEF BeginWrite, rdmaVars, Writes
    <3>2. file_size' \in Nat /\ file_size' >= file_size /\ c < file_size'
      BY <1>t, <3>1 DEF Cells
    <3>3. Live' \subseteq Acked /\ Live = Acked
      BY <1>a, <3>1 DEF Live
    <3>4. \A v \in 1 .. nwr : loc'[v] = loc[v]
      BY <1>t, <3>1 DEF Writes
    <3>5. \A v \in 1 .. nwr' : v = nwr + 1 \/ v \in 1 .. nwr
      BY <1>t, <3>1
    <3>6. \A v \in 1 .. nwr' : loc'[v] \in Cells
      BY <1>0, <1>t, <3>1, <3>4, <3>5 DEF BufInv
    <3>7. ASSUME NEW v \in Live' PROVE loc'[v] < file_size' /\ buffer'[loc'[v]] >= v
      <4>1. loc'[v] = loc[v] /\ loc[v] \in Nat /\ loc[v] < file_size /\ buffer[loc[v]] >= v
        BY <1>0, <1>3, <1>f, <1>t, <3>3, <3>4 DEF BufInv
      <4> QED BY <1>t, <3>1, <3>2, <4>1
    <3> QED BY <3>1, <3>2, <3>6, <3>7 DEF BufInv
  <2>2. CASE CopyData
    <3>1. /\ nwr \in Nat \ {0} /\ pos = loc[nwr] /\ pos \in Cells /\ pos < file_size
          /\ buffer' = [buffer EXCEPT ![pos] = nwr] /\ UNCHANGED <<nwr, loc, pos, file_size, acks>>
          /\ wpc = "copy" /\ wpc' = "stamp"
      BY <1>0, <1>t, <2>2 DEF CopyData, clientVars, BufInv, CRTypeOK, TypeOK, WriterTypeOK
    <3>2. Live' \subseteq Acked \cup {nwr} /\ Live = Acked
      BY <1>a, <3>1 DEF Live
    <3>3. ASSUME NEW v \in Live' PROVE loc[v] < file_size /\ buffer'[loc[v]] >= v
      <4>1. CASE v = nwr
        BY <1>t, <3>1, <4>1
      <4>2. CASE v # nwr
        <5>1. /\ v \in 1 .. nwr /\ loc[v] \in Cells /\ loc[v] < file_size /\ buffer[loc[v]] >= v
          BY <1>0, <1>3, <1>f, <3>2, <4>2 DEF BufInv
        <5>2. buffer'[loc[v]] = IF loc[v] = pos THEN nwr ELSE buffer[loc[v]]
          BY <1>t, <3>1, <5>1
        <5> QED BY <3>1, <5>1, <5>2
      <4> QED BY <4>1, <4>2
    <3>4. \A v \in 1 .. nwr : loc[v] \in Cells
      BY <1>0 DEF BufInv
    <3> QED BY <3>1, <3>3, <3>4 DEF BufInv
  <2>3. CASE StampSeq \/ LockRecover \/ FinishPost
    <3>1. /\ UNCHANGED <<nwr, loc, file_size, buffer, pos, acks>>
          /\ wpc \in {"stamp", "lock", "post"} /\ wpc' \in {"lock", "post", "poll"}
      BY <2>3 DEF StampSeq, LockRecover, FinishPost, rdmaVars, clientVars
    <3>2. Live' \subseteq Live
      BY <1>a, <3>1 DEF Live
    <3> QED BY <1>1, <1>3, <3>1, <3>2
  <2>4. CASE \E p \in Peers : PostTo(p) \/ PollPeer(p)
    BY <1>s, <1>3, <2>4 DEF PostTo, PollPeer, rdmaVars
  <2>5. CASE FinishWrite
    <3>1. /\ UNCHANGED <<nwr, loc, file_size, buffer, pos>> /\ wpc = "poll" /\ wpc' = "idle"
          /\ acks' = [acks EXCEPT ![nwr] = flagged]
      BY <2>5 DEF FinishWrite, rdmaVars
    <3>2. rep_factor' = rep_factor /\ forgot \subseteq forgot'
      BY BothAre
    <3>3. Live' \subseteq Live
      BY <1>t, <3>1, <3>2 DEF Live, Acked, Majority
    <3> QED BY <1>1, <1>3, <3>1, <3>3
  <2> QED BY <1>3, <2>1, <2>2, <2>3, <2>4, <2>5 DEF Writer
<1>4. CASE cli # "down" /\ Watcher /\ Kept
  BY <1>s, <1>4 DEF Kept, recoverVars, Watcher, HandleDeleted, HandleChild, AddPeer, NoNewPeer,
     WatchPeer, PostRecover, RecoverDone, UpdateZKNode, FinishChild, SuspendWrites,
     WatchForPeerJoin, rdmaVars, clientVars, writerVars
<1>5. CASE \E p \in Peers : (NicStep(p) \/ PeerCrash(p) \/ ExpireDead(p)) /\ Kept
  BY <1>s, <1>5 DEF Kept, recoverVars, NicStep, NicPlace, NicComplete, PeerCrash, ServerDown,
     ExpireDead, rdmaVars, clientVars, writerVars
<1>6. CASE ClientCrash
  BY <1>0, <1>6 DEF ClientCrash, BufInv
<1>7. CASE Restart
  BY <1>s, <1>7 DEF Restart, writerVars
<1>8. CASE GetInfo
  <2>1. /\ UNCHANGED <<nwr, loc, wpc, pos>> /\ wpc = "idle" /\ cli' \in {"read", "sync"}
        /\ cli' = "sync" => ~(recover_size' > 0)
    BY <1>0, <1>8 DEF GetInfo, LifeInv, writerVars
  <2>2. ASSUME cli' = "sync" PROVE Live' = {}
    <3>1. CASE recover_src' \in conn
      <4>1. HasAcked(recover_src') /\ recover_size' = findSize(mr[recover_src'])
            /\ recover_src' \in Peers /\ acks' = acks
        BY <1>8, <3>1, ChosenSource DEF GetInfo, writerVars
      <4>2. ASSUME NEW w \in Acked PROVE FALSE
        <5>1. loc[w] < recover_size' /\ loc[w] \in Nat
          BY <1>f, <4>1, SizeCovers DEF Cells
        <5>2. recover_size' \in Nat
          BY CRTypeStep, <1>0 DEF CRTypeOK
        <5> QED BY <2>1, <2>2, <5>1, <5>2
      <4> QED BY <1>a, <2>1, <4>1, <4>2 DEF Live
    <3>2. CASE recover_src' \notin conn
      <4>1. acks' = acks /\ forgot' = forgot \cup Acked
        BY <1>8, <2>1, <2>2, <3>2 DEF GetInfo, writerVars
      <4>2. Acked' = {}
        BY <4>1, BothAre
      <4> QED BY <2>1, <4>2 DEF Live
    <3> QED BY <3>1, <3>2
  <2> QED BY <1>0, <2>1, <2>2 DEF BufInv
<1>9. CASE ReadSource
  <2>1. /\ cli = "read" /\ recover_src \in conn /\ file_size' = recover_size
        /\ UNCHANGED <<nwr, loc, wpc, pos, acks>> /\ wpc = "idle"
        /\ buffer' = [c \in Cells |-> IF c < recover_size THEN mr[recover_src][c] ELSE buffer[c]]
    BY <1>0, <1>9 DEF ReadSource, writerVars, LifeInv
  <2>2. Live' \subseteq Acked
    BY <1>a, <2>1 DEF Live
  <2>3. HasAcked(recover_src) /\ recover_size = findSize(mr[recover_src]) /\ recover_src \in Peers
    BY <1>0, <1>t, <2>1 DEF SourceInv
  <2>4. ASSUME NEW w \in Acked PROVE loc[w] < recover_size /\ buffer'[loc[w]] >= w
    <3>1. loc[w] < recover_size /\ loc[w] \in Cells /\ mr[recover_src][loc[w]] >= w
      BY <1>f, <2>3, SizeCovers DEF HasAcked
    <3> QED BY <2>1, <3>1
  <2> QED BY <1>0, <2>1, <2>2, <2>4 DEF BufInv
<1>10. CASE SyncPeers \/ SyncDone
  BY <1>s, <1>10 DEF SyncPeers, SyncDone, rdmaVars, clientVars, writerVars
<1>11. CASE OpenTruncated
  <2>1. /\ UNCHANGED <<nwr, loc, wpc, pos, acks, file_size>> /\ wpc = "idle"
        /\ forgot' = forgot \cup Acked
    BY <1>0, <1>11 DEF OpenTruncated, LifeInv, writerVars
  <2>2. Live' = {}
    BY <2>1, BothAre DEF Live
  <2> QED BY <1>0, <2>1, <2>2 DEF BufInv
<1> QED BY <1>0, <1>2, <1>3, <1>4, <1>5, <1>6, <1>7, <1>8, <1>9, <1>10, <1>11, CRCases

\* Without a lost peer, a peer that was given the whole file and is not being
\* added holds every acknowledged write.
LEMMA SyncedHasAcked ==
    ASSUME CRInv, cli = "up", Lost = {}, ~Adding, NEW p \in synced
    PROVE  HasAcked(p)
<1>0. CRTypeOK /\ LifeInv /\ ServerInv /\ TokenInv /\ QuorumInv /\ KeptInv
  BY DEF CRInv
<1>1. p \in conn /\ p \in Peers /\ TokenOK(p)
  BY <1>0 DEF ServerInv, CRTypeOK, TypeOK, HistoryTypeOK, TokenInv
<1>2. ~Bulk(p)
  BY DEF Bulk, Adding
<1> SUFFICES ASSUME NEW w \in Acked PROVE mr[p][loc[w]] >= w
  BY DEF HasAcked
<1>3. Comes(p, w)
  BY <1>0, <1>1 DEF KeptInv, Live
<1>4. ~ReachesBy(p, w)
  <2> SUFFICES ASSUME NEW wr \in Range(sendq[p]), wr.tok <= w, wr.tok # 0 PROVE FALSE
    BY <1>2 DEF ReachesBy
  <2>1. wr.tok \in Range(op_queue[p])
    BY <1>1 DEF TokenOK
  <2>2. wr.tok > w
    BY <1>0, <1>1, <2>1 DEF QuorumInv
  <2>3. wr.tok \in Writes
    <3>1. op_queue[p] \in Seq(Writes)
      BY <1>0, <1>1 DEF CRTypeOK, TypeOK, ClientTypeOK
    <3> QED BY <2>1, <3>1, RangeOfSeq
  <2>4. w \in Nat
    BY AckedFacts
  <2> QED BY <2>2, <2>3, <2>4 DEF Writes
<1>5. ~(w = nwr /\ Unposted(p, loc[w]))
  <2>1. w = nwr => wpc = "idle"
    <3>1. w < nwr \/ (w = nwr /\ wpc = "idle")
      BY <1>0 DEF QuorumInv
    <3>2. w \in Nat /\ nwr \in Nat
      BY <1>0, AckedFacts DEF CRTypeOK, TypeOK, WriterTypeOK
    <3> QED BY <3>1, <3>2
  <2> QED BY <2>1 DEF Unposted
<1> QED BY <1>3, <1>4, <1>5 DEF Comes

\* Every connected peer has been given the file, is being given it, or was the
\* source of it, unless a peer is lost.
LEMMA JoinedStep == TwoReplicas /\ CRInv /\ [CRNext]_crVars => JoinedInv'
<1> SUFFICES ASSUME TwoReplicas, CRInv, [CRNext]_crVars, cli' \in {"wait", "up"}
             PROVE  \/ Lost' # {}
                    \/ conn' \subseteq synced' \cup syncing' \cup {recover_src'} \cup
                                       (IF Adding' THEN {new_peer'} ELSE {})
  BY DEF JoinedInv
<1>0. CRTypeOK /\ LifeInv /\ ServerInv /\ EventInv /\ JoinInv /\ JoinedInv
  BY DEF CRInv
<1>l. Lost \subseteq Lost'
  <2>1. ~ClientCrash
    BY DEF ClientCrash
  <2> QED BY <2>1, LostStays
<1>1. ASSUME UNCHANGED <<conn, synced, syncing, recover_src>>, cli \in {"wait", "up"},
             Adding => Adding' /\ new_peer' = new_peer
      PROVE  \/ Lost' # {}
             \/ conn' \subseteq synced' \cup syncing' \cup {recover_src'} \cup
                                (IF Adding' THEN {new_peer'} ELSE {})
  BY <1>0, <1>l, <1>1 DEF JoinedInv
<1>2. CASE UNCHANGED crVars
  BY <1>1, <1>2 DEF crVars, vars, rdmaVars, watcherVars, historyVars, recoverVars, Adding
<1>3. CASE cli = "up" /\ Writer /\ Kept
  BY <1>1, <1>3 DEF Kept, recoverVars, Writer, BeginWrite, CopyData, StampSeq, LockRecover, PostTo,
     FinishPost, PollPeer, FinishWrite, rdmaVars, watcherVars, historyVars, Adding
<1>4. CASE cli # "down" /\ Watcher /\ Kept
  <2>k. cli \in {"wait", "up"} /\ UNCHANGED <<syncing, recover_src>>
    BY <1>4 DEF Kept, recoverVars
  <2>1. CASE HandleDeleted
    <3>1. PICK p \in Deleted : conn' = conn \ {p} /\ synced' = synced \ {p}
      BY <2>1, ErasedPeer
    <3>2. ~Adding
      BY <2>1 DEF HandleDeleted, Adding
    <3> QED BY <1>0, <1>l, <2>k, <3>1, <3>2 DEF JoinedInv
  <2>2. ASSUME NEW p \in Peers, AddPeer(p)
        PROVE  \/ Lost' # {}
               \/ conn' \subseteq synced' \cup syncing' \cup {recover_src'} \cup
                                  (IF Adding' THEN {new_peer'} ELSE {})
    <3>1. /\ conn' = conn \cup {p} /\ synced' = synced /\ new_peer' = p /\ Adding' /\ ~Adding
      BY <2>2 DEF AddPeer, historyVars, Adding
    <3> QED BY <1>0, <1>l, <2>k, <3>1 DEF JoinedInv
  <2>3. CASE WatchPeer
    <3>1. /\ UNCHANGED <<conn, synced>> /\ cpc = "exists"
          /\ \/ Adding' /\ new_peer' = new_peer
             \/ new_peer \notin servers
             \/ ev # "deleted"
      BY <2>3 DEF WatchPeer, Adding, rdmaVars, historyVars
    <3>2. CASE Adding' /\ new_peer' = new_peer
      BY <1>1, <2>k, <3>1, <3>2
    <3>3. CASE new_peer \notin servers
      <4>1. new_peer \in Lost
        BY <1>0, <3>1, <3>3 DEF ServerInv, EventInv, Adding, Lost
      <4> QED BY <1>l, <4>1
    <3>4. CASE ev # "deleted"
      <4>1. ev = "child"
        BY <1>0, <3>1, <3>4 DEF EventInv, CRTypeOK, TypeOK, WatcherTypeOK
      <4> QED BY <1>0, <1>l, <3>1, <4>1 DEF JoinInv
    <3> QED BY <3>1, <3>2, <3>3, <3>4
  <2>4. CASE PostRecover
    BY <1>1, <2>k, <2>4 DEF PostRecover, Adding, historyVars
  <2>5. CASE RecoverDone
    <3>1. conn' = conn /\ synced' = synced \cup ({new_peer} \cap conn)
      BY <2>5 DEF RecoverDone, rdmaVars
    <3> QED BY <1>0, <1>l, <2>k, <3>1 DEF JoinedInv
  <2>6. CASE \/ HandleChild \/ NoNewPeer \/ UpdateZKNode \/ FinishChild \/ SuspendWrites
             \/ WatchForPeerJoin
    BY <1>1, <2>k, <2>6 DEF HandleChild, NoNewPeer, UpdateZKNode, FinishChild, SuspendWrites,
       WatchForPeerJoin, Adding, rdmaVars, historyVars
  <2> QED BY <1>4, <2>1, <2>2, <2>3, <2>4, <2>5, <2>6 DEF Watcher
<1>5. CASE \E p \in Peers : (NicStep(p) \/ PeerCrash(p) \/ ExpireDead(p)) /\ Kept
  <2> PICK p \in Peers : (NicStep(p) \/ PeerCrash(p) \/ ExpireDead(p)) /\ Kept
    BY <1>5
  <2>k. cli \in {"wait", "up"} /\ UNCHANGED <<syncing, recover_src>>
    BY DEF Kept, recoverVars
  <2>1. CASE PeerCrash(p)
    <3>1. conn' = conn \ {p} /\ synced' = synced \ {p} /\ UNCHANGED <<cpc, new_peer>>
      BY <2>1 DEF PeerCrash, ServerDown, watcherVars
    <3> QED BY <1>0, <1>l, <2>k, <3>1 DEF JoinedInv, Adding
  <2>2. CASE NicStep(p) \/ ExpireDead(p)
    BY <1>1, <2>k, <2>2 DEF NicStep, NicPlace, NicComplete, ExpireDead, rdmaVars, watcherVars,
       historyVars, Adding
  <2> QED BY <2>1, <2>2
<1>6. CASE ClientCrash \/ Restart \/ GetInfo \/ ReadSource
  BY <1>6 DEF ClientCrash, Restart, GetInfo, ReadSource
<1>7. CASE SyncPeers
  <2>1. conn' = conn /\ syncing' = peers \ {recover_src} /\ recover_src' = recover_src
    BY <1>7 DEF SyncPeers
  <2> QED BY <1>0, <2>1 DEF ServerInv
<1>8. CASE SyncDone
  <2>1. /\ conn' = conn /\ synced' = synced \cup ((syncing \cup {recover_src}) \cap conn)
        /\ UNCHANGED <<cpc, new_peer>> /\ cli = "wait"
    BY <1>8 DEF SyncDone, rdmaVars, watcherVars
  <2> QED BY <1>0, <1>l, <2>1 DEF JoinedInv, Adding
<1>9. CASE OpenTruncated
  BY <1>9 DEF OpenTruncated, rdmaVars
<1> QED BY <1>0, <1>2, <1>3, <1>4, <1>5, <1>6, <1>7, <1>8, <1>9, CRCases

\* The source of a recovery holds every acknowledged write, and so do the peers
\* that a restarted client may choose as its source.
LEMMA SourceStep == TwoReplicas /\ CRInv /\ [CRNext]_crVars => SourceInv'
<1> SUFFICES ASSUME TwoReplicas, CRInv, [CRNext]_crVars PROVE SourceInv'
  OBVIOUS
<1>0. CRTypeOK /\ LifeInv /\ ServerInv /\ NodeInv /\ SpareInv /\ AimInv /\ SourceInv
  BY DEF CRInv
<1>t. /\ mr \in [Peers -> [Cells -> 0 .. MaxWrites]] /\ mr_seq \in [Peers -> Nat]
      /\ buffer \in [Cells -> 0 .. MaxWrites] /\ conn \in SUBSET Peers /\ zknode \in SUBSET Peers
      /\ sendq \in [Peers -> Seq(WR)]
  BY <1>0 DEF CRTypeOK, TypeOK, RdmaTypeOK, ZkTypeOK
<1>a. acks' = acks => Acked' \subseteq Acked
  BY BothAre
<1>h. ASSUME NEW p \in Peers, UNCHANGED <<acks, loc>>, mr'[p] = mr[p]
      PROVE  HasAcked(p) => HasAcked(p)'
  BY <1>a, <1>h DEF HasAcked
<1>1. ASSUME UNCHANGED <<cli, acks, loc, recover_src, recover_size, zknode>>,
             alive' \subseteq alive, conn' \subseteq conn,
             cli = "down" => \A p \in zknode : p \in alive' => mr_seq'[p] = mr_seq[p] /\ mr'[p] = mr[p],
             \A p \in conn' : mr_seq'[p] = mr_seq[p] /\ mr'[p] = mr[p]
      PROVE  SourceInv'
  <2>1. \A p \in conn' : HasAcked(p) => HasAcked(p)'
    BY <1>h, <1>t, <1>1
  <2>2. cli = "down" => \A p \in zknode : p \in alive' => (HasAcked(p) => HasAcked(p)')
    BY <1>h, <1>t, <1>1
  <2>3. cli' = "down" /\ zknode' \subseteq alive' => \A p \in zknode' : mr_seq'[p] = 0 \/ HasAcked(p)'
    <3> SUFFICES ASSUME cli' = "down", zknode' \subseteq alive', NEW p \in zknode'
                 PROVE  mr_seq'[p] = 0 \/ HasAcked(p)'
      OBVIOUS
    <3>1. p \in zknode /\ p \in alive' /\ zknode \subseteq alive /\ cli = "down"
      BY <1>1
    <3>2. mr_seq[p] = 0 \/ HasAcked(p)
      BY <1>0, <3>1 DEF SourceInv
    <3> QED BY <1>1, <2>2, <3>1, <3>2
  <2>4. cli' \in {"read", "sync", "wait"} /\ recover_src' \in conn' => HasAcked(recover_src)'
    BY <1>0, <1>1, <2>1 DEF SourceInv
  <2>5. cli' = "read" /\ recover_src' \in conn' => recover_size' = findSize(mr'[recover_src'])
    BY <1>0, <1>1 DEF SourceInv
  <2>6. cli' \notin {"up", "down"} => \A p \in conn' : mr_seq'[p] = 0 \/ HasAcked(p)'
    BY <1>0, <1>1, <2>1 DEF SourceInv
  <2> QED BY <1>1, <2>3, <2>4, <2>5, <2>6 DEF SourceInv, HasAcked
<1>2. CASE UNCHANGED crVars
  BY <1>1, <1>2 DEF crVars, vars, rdmaVars, zkVars, writerVars, recoverVars
<1>3. CASE cli = "up" /\ Kept
  BY <1>3 DEF Kept, recoverVars, SourceInv
<1>4. CASE cli # "down" /\ Watcher /\ Kept
  <2>0. UNCHANGED <<cli, recover_src, recover_size, acks, loc, mr, mr_seq, alive>>
    BY <1>4 DEF Kept, recoverVars, Watcher, HandleDeleted, HandleChild, AddPeer, NoNewPeer,
       WatchPeer, PostRecover, RecoverDone, UpdateZKNode, FinishChild, SuspendWrites,
       WatchForPeerJoin, rdmaVars, writerVars
  <2>1. ASSUME NEW p \in Peers, AddPeer(p) PROVE SourceInv'
    <3>1. conn' = conn \cup {p} /\ p \notin peers /\ p \in alive
      BY <2>1 DEF AddPeer
    <3>2. mr_seq'[p] = 0 /\ p # recover_src
      BY <1>0, <1>4, <2>0, <3>1 DEF SpareInv, Home, AimInv
    <3>3. \A r \in Peers : HasAcked(r) => HasAcked(r)'
      BY <1>h, <2>0
    <3> QED BY <1>0, <1>4, <1>t, <2>0, <3>1, <3>2, <3>3 DEF SourceInv, HasAcked
  <2>2. ASSUME conn' \subseteq conn PROVE SourceInv'
    <3>1. \A r \in Peers : HasAcked(r) => HasAcked(r)'
      BY <1>h, <2>0
    <3> QED BY <1>0, <1>4, <1>t, <2>0, <2>2, <3>1 DEF SourceInv, HasAcked
  <2>4. (\E p \in Peers : AddPeer(p)) \/ conn' \subseteq conn
    BY <1>4 DEF Watcher, HandleDeleted, HandleChild, NoNewPeer,
       WatchPeer, PostRecover, RecoverDone, UpdateZKNode, FinishChild, SuspendWrites,
       WatchForPeerJoin, rdmaVars
  <2> QED BY <2>1, <2>2, <2>4
<1>5. CASE cli # "up" /\ \E p \in Peers : (NicStep(p) \/ PeerCrash(p) \/ ExpireDead(p)) /\ Kept
  <2> PICK p \in Peers : (NicStep(p) \/ PeerCrash(p) \/ ExpireDead(p)) /\ Kept
    BY <1>5
  <2>0. UNCHANGED <<cli, recover_src, recover_size>>
    BY DEF Kept, recoverVars
  <2>1. CASE NicStep(p)
    <3>1. /\ UNCHANGED <<conn, acks, loc>> /\ p \in conn
          /\ \A r \in Peers : r # p => mr'[r] = mr[r] /\ mr_seq'[r] = mr_seq[r]
          /\ mr_seq'[p] \in {mr_seq[p], seq_word}
      BY <1>t, <2>1 DEF NicStep, NicPlace, NicComplete, writerVars
    <3>2. cli \notin {"down", "up"} /\ seq_word = 0
      BY <1>0, <1>5, <3>1 DEF LifeInv, ServerInv
    <3>3. cli \in {"info", "read"} => mr' = mr
      <4> SUFFICES ASSUME cli \in {"info", "read"} PROVE mr' = mr
        OBVIOUS
      <4>1. sendq[p] # <<>>
        BY <2>1 DEF NicStep, NicPlace, NicComplete
      <4>2. Head(sendq[p]) \in Range(sendq[p])
        BY <1>t, <4>1, TailProperties
      <4>3. Head(sendq[p]).cells = {}
        BY <1>0, <4>2 DEF LifeInv
      <4> QED BY <2>1, <4>3 DEF NicStep, NicPlace, NicComplete
    <3>4. ASSUME NEW r \in Peers, HasAcked(r) PROVE HasAcked(r)'
      <4>1. CASE mr'[r] = mr[r]
        BY <1>h, <3>1, <3>4, <4>1
      <4>2. CASE mr'[r] # mr[r]
        <5>1. r = p /\ NicPlace(p) /\ cli \in {"sync", "wait"}
          <6>1. cli \in {"sync", "wait"}
            BY <1>0, <3>2, <3>3, <4>2 DEF CRTypeOK
          <6> QED BY <2>1, <3>1, <4>2, <6>1 DEF NicStep, NicComplete
        <5>2. PICK c \in Head(sendq[p]).cells : mr' = [mr EXCEPT ![p][c] = buffer[c]]
          BY <5>1 DEF NicPlace
        <5> SUFFICES ASSUME NEW w \in Acked PROVE mr'[p][loc[w]] >= w
          BY <1>a, <3>1, <5>1 DEF HasAcked
        <5>3. loc[w] \in Cells /\ mr[p][loc[w]] >= w
          BY <3>4, <5>1, AckedFacts DEF HasAcked
        <5>4. buffer[loc[w]] >= w
          BY <5>1 DEF CRInv, BufInv, Live
        <5>5. mr'[p][loc[w]] = IF loc[w] = c THEN buffer[loc[w]] ELSE mr[p][loc[w]]
          BY <1>t, <5>2, <5>3
        <5> QED BY <5>3, <5>4, <5>5
      <4> QED BY <4>1, <4>2
    <3>5. cli' \notin {"up", "down"} => \A r \in conn' : mr_seq'[r] = 0 \/ HasAcked(r)'
      BY <1>0, <1>t, <3>1, <3>2, <3>4 DEF SourceInv
    <3>6. cli' \in {"read", "sync", "wait"} /\ recover_src' \in conn' => HasAcked(recover_src)'
      BY <1>0, <1>t, <2>0, <3>1, <3>4 DEF SourceInv
    <3>7. cli' = "read" /\ recover_src' \in conn' => recover_size' = findSize(mr'[recover_src'])
      BY <1>0, <2>0, <3>1, <3>3 DEF SourceInv
    <3> QED BY <2>0, <3>2, <3>5, <3>6, <3>7 DEF SourceInv, HasAcked
  <2>2. CASE PeerCrash(p)
    <3>1. /\ UNCHANGED <<acks, loc, zknode>> /\ alive' = alive \ {p} /\ conn' = conn \ {p}
          /\ mr' = [mr EXCEPT ![p] = Zeroed] /\ mr_seq' = [mr_seq EXCEPT ![p] = 0]
      BY <2>2 DEF PeerCrash, ServerDown, writerVars
    <3>2. \A r \in Peers : r # p => mr_seq'[r] = mr_seq[r] /\ mr'[r] = mr[r]
      BY <1>t, <3>1
    <3> QED BY <1>1, <1>t, <2>0, <3>1, <3>2
  <2>3. CASE ExpireDead(p)
    BY <1>1, <2>0, <2>3 DEF ExpireDead, NodeDeleted, rdmaVars, writerVars
  <2> QED BY <2>1, <2>2, <2>3
<1>6. CASE ClientCrash
  <2>1. /\ cli # "down" /\ cli' = "down" /\ UNCHANGED <<acks, loc, zknode, alive, mr, mr_seq>>
    BY <1>6 DEF ClientCrash
  <2>2. ASSUME zknode \subseteq alive, NEW p \in zknode PROVE mr_seq[p] = 0 \/ HasAcked(p)
    <3>1. /\ peers = zknode /\ conn = zknode /\ ~Adding /\ Lost = {} /\ p \in Peers
      BY <1>0, <1>t, <2>1, <2>2 DEF NodeInv, ServerInv, Adding, Lost
    <3>2. CASE cli # "up"
      BY <1>0, <2>1, <2>2, <3>1, <3>2 DEF SourceInv
    <3>3. CASE cli = "up"
      <4>1. p \in synced
        BY <1>0, <2>2, <3>1, <3>3, ConstantsAssumption DEF CRInv, JoinedInv, LifeInv
      <4> QED BY <3>1, <3>3, <4>1, SyncedHasAcked
    <3> QED BY <3>2, <3>3
  <2>3. \A p \in Peers : HasAcked(p) => HasAcked(p)'
    BY <1>h, <2>1
  <2> QED BY <1>t, <2>1, <2>2, <2>3 DEF SourceInv
<1>7. CASE Restart
  <2>1. /\ cli = "down" /\ cli' = "info" /\ UNCHANGED <<acks, loc, mr, mr_seq>>
        /\ zknode \subseteq alive /\ conn' = zknode
    BY <1>t, <1>7, RestartPeers, <1>0 DEF Restart, writerVars, CRTypeOK
  <2>2. \A p \in Peers : HasAcked(p) => HasAcked(p)'
    BY <1>h, <2>1
  <2> QED BY <1>0, <1>t, <2>1, <2>2 DEF SourceInv
<1>8. CASE GetInfo
  <2>1. /\ cli = "info" /\ cli' \in {"read", "sync"} /\ UNCHANGED <<loc, mr, mr_seq, conn>>
    BY <1>8 DEF GetInfo, rdmaVars, writerVars
  <2>2. Acked' \subseteq Acked
    BY <1>8, <1>a DEF GetInfo, writerVars
  <2>3. \A p : HasAcked(p) => (\A w \in Acked' : mr[p][loc[w]] >= w)
    BY <2>2 DEF HasAcked
  <2>4. recover_src' \in conn => /\ HasAcked(recover_src')
                                 /\ recover_size' = findSize(mr[recover_src'])
    BY <1>8, ChosenSource
  <2> QED BY <1>0, <2>1, <2>3, <2>4 DEF SourceInv, HasAcked
<1>9. CASE ReadSource \/ SyncPeers
  <2>1. /\ cli \in {"read", "sync"} /\ cli' \in {"sync", "wait"}
        /\ UNCHANGED <<loc, acks, mr, mr_seq, conn, recover_src>>
    BY <1>9 DEF ReadSource, SyncPeers, writerVars
  <2> QED BY <1>0, <1>a, <2>1 DEF SourceInv, HasAcked
<1>10. CASE SyncDone
  BY <1>10 DEF SyncDone, SourceInv
<1>11. CASE OpenTruncated
  BY <1>11 DEF OpenTruncated, SourceInv
<1> QED BY <1>0, <1>2, <1>3, <1>4, <1>5, <1>6, <1>7, <1>8, <1>9, <1>10, <1>11, CRCases

\* The heart of the recovery: a peer that was given the file, or is being given
\* it, has every live write in its memory or in a work request that no later
\* write can overtake and whose completion its recovery waits for.
LEMMA KeptStep == TwoReplicas /\ CRInv /\ [CRNext]_crVars => KeptInv'
<1> SUFFICES ASSUME TwoReplicas, CRInv, [CRNext]_crVars, cli' \in {"wait", "up"},
                    NEW q \in conn', q \in synced' \/ q = recover_src' \/ Bulk(q)',
                    NEW v \in Live'
             PROVE  Comes(q, v)'
  BY DEF KeptInv
<1>0. CRTypeOK /\ LifeInv /\ ServerInv /\ AimInv /\ TokenInv /\ QuorumInv /\ BufInv /\ SourceInv
  BY DEF CRInv
<1>k. /\ cli \in {"wait", "up"} /\ q \in conn /\ v \in Live
      /\ q \in synced \/ q = recover_src \/ Bulk(q)
      => Comes(q, v)
  BY DEF CRInv, KeptInv
<1>q. q \in Peers
  BY <1>0, CRTypeStep DEF CRTypeOK, TypeOK, RdmaTypeOK
<1>t1. /\ sendq[q] \in Seq(WR) /\ sendq \in [Peers -> Seq(WR)] /\ nwr \in 0 .. MaxWrites
       /\ buffer \in [Cells -> 0 .. MaxWrites] /\ mr \in [Peers -> [Cells -> 0 .. MaxWrites]]
       /\ file_size \in 0 .. BufSize /\ loc \in [Writes -> Nat]
       /\ acks \in [Writes -> SUBSET Peers]
  BY <1>0, <1>q DEF CRTypeOK, TypeOK, RdmaTypeOK, ClientTypeOK, WriterTypeOK
<1>t2. file_size \in Nat /\ nwr \in Nat
  BY <1>t1
<1>t3. 0 .. file_size - 1 \in SUBSET Cells
  <2>1. file_size \in 0 .. BufSize
    BY <1>t1
  <2>2. BufSize \in Nat
    BY BufSizeAssumption
  <2> SUFFICES ASSUME NEW c \in 0 .. file_size - 1 PROVE c \in Cells
    OBVIOUS
  <2> QED BY <2>1, <2>2 DEF Cells
<1>t. /\ sendq[q] \in Seq(WR) /\ sendq \in [Peers -> Seq(WR)] /\ nwr \in Nat
      /\ buffer \in [Cells -> 0 .. MaxWrites] /\ mr \in [Peers -> [Cells -> 0 .. MaxWrites]]
      /\ file_size \in Nat /\ 0 .. file_size - 1 \in SUBSET Cells /\ loc \in [Writes -> Nat]
      /\ acks \in [Writes -> SUBSET Peers]
  BY <1>t1, <1>t2, <1>t3
<1>a. acks' = acks => Acked' \subseteq Acked
  BY BothAre
<1>f. \A w \in Acked : w \in Writes /\ w \in Nat \ {0} /\ w \in 1 .. nwr /\ loc[w] \in Cells
  BY AckedFacts
<1>v. \A u \in Live : u \in Nat \ {0}
  BY <1>0, <1>f, <1>t DEF Live, CRTypeOK, TypeOK, WriterTypeOK
<1>n. NoPeer \notin Peers
  BY ConstantsAssumption
<1>1. ASSUME UNCHANGED <<cli, sendq, mr, wpc, pos, todo, nwr, loc, acks, recover_src>>,
             conn' \subseteq conn, q \in synced' <=> q \in synced, Bulk(q)' <=> Bulk(q)
      PROVE  Comes(q, v)'
  <2>1. v \in Live
    BY <1>a, <1>1 DEF Live
  <2> QED BY <1>k, <1>1, <2>1 DEF Comes, ReachesBy, Unposted
<1>p. ASSUME NEW cs \in SUBSET Cells, NEW tok \in Nat, sendq'[q] = writeTwoPlace(sendq[q], cs, tok)
      PROVE  Range(sendq'[q]) = Range(sendq[q]) \cup {DataWR(cs, tok), SeqWR(tok)}
  BY <1>t, <1>p, PostProperties
<1>b. ASSUME sendq'[q] = writeTwoPlace(sendq[q], 0 .. file_size - 1, 0), Bulk(q)', loc' = loc,
             v \in Live, cli \in {"sync", "wait", "up"}
      PROVE  Comes(q, v)'
  <2> DEFINE cs == 0 .. file_size - 1
  <2>1. v \in Nat /\ loc[v] < file_size /\ loc[v] \in cs
    <3>1. v \in Nat \ {0} /\ loc[v] < file_size
      BY <1>0, <1>b, <1>v DEF BufInv
    <3>2. loc[v] \in Cells
      <4>1. v \in Acked \/ (wpc # "idle" /\ v = nwr)
        BY <1>b DEF Live
      <4> QED BY <1>0, <1>f, <4>1 DEF CRTypeOK, TypeOK, WriterTypeOK
    <3> QED BY <1>t, <3>1, <3>2 DEF Cells
  <2>2. sendq'[q] = writeTwoPlace(sendq[q], cs, 0) /\ cs \in SUBSET Cells
    BY <1>t, <1>b
  <2> HIDE DEF cs
  <2>3. DataWR(cs, 0) \in Range(sendq'[q])
    BY <1>p, <2>2
  <2>4. DataWR(cs, 0).cells = cs /\ DataWR(cs, 0).tok = 0 /\ 0 <= v
    BY <2>1 DEF DataWR
  <2>5. ReachesBy(q, v)'
    BY <1>b, <2>1, <2>3, <2>4 DEF ReachesBy
  <2> QED BY <2>5 DEF Comes
<1>2. CASE UNCHANGED crVars
  BY <1>1, <1>2 DEF crVars, vars, rdmaVars, writerVars, watcherVars, historyVars, recoverVars, Bulk
<1>3. CASE cli = "up" /\ Writer /\ Kept
  <2>0. /\ UNCHANGED <<cli, recover_src, syncing, conn, synced, cpc, new_peer, mr>>
    BY <1>3 DEF Kept, recoverVars, Writer, BeginWrite, CopyData, StampSeq, LockRecover, PostTo,
       FinishPost, PollPeer, FinishWrite, rdmaVars, watcherVars, historyVars
  <2>b. Bulk(q)' <=> Bulk(q)
    BY <2>0 DEF Bulk
  <2>k. v \in Live => Comes(q, v)
    BY <1>3, <1>k, <2>0, <2>b
  <2>1. ASSUME NEW c \in Cells, BeginWrite(c) PROVE Comes(q, v)'
    <3>1. /\ nwr' = nwr + 1 /\ nwr + 1 \in Writes /\ wpc = "idle" /\ wpc' = "copy"
          /\ loc' = [loc EXCEPT ![nwr + 1] = c] /\ UNCHANGED <<acks, sendq>>
      BY <1>t1, <2>1, ConstantsAssumption DEF BeginWrite, rdmaVars, Writes
    <3>2. v \in Acked /\ v \in Live
      BY <1>a, <3>1 DEF Live
    <3>3. v # nwr + 1
      BY <1>f, <1>t, <3>2
    <3>4. loc'[v] = loc[v]
      BY <1>t, <3>1, <3>3
    <3> QED BY <2>0, <2>b, <2>k, <3>1, <3>2, <3>4 DEF Comes, ReachesBy, Unposted
  <2>2. CASE CopyData
    <3>1. /\ pos = loc[nwr] /\ wpc = "copy" /\ wpc' = "stamp" /\ UNCHANGED <<nwr, loc, pos, acks, sendq>>
      BY <1>0, <2>2 DEF CopyData, CRTypeOK, TypeOK, WriterTypeOK
    <3>2. CASE v = nwr
      BY <3>1, <3>2 DEF Comes, Unposted
    <3>3. CASE v # nwr
      <4>1. v \in Live
        BY <1>a, <3>1, <3>3 DEF Live
      <4> QED BY <2>0, <2>b, <2>k, <3>1, <3>3, <4>1 DEF Comes, ReachesBy
    <3> QED BY <3>2, <3>3
  <2>3. CASE StampSeq \/ LockRecover \/ FinishPost
    <3>1. /\ UNCHANGED <<nwr, loc, pos, acks, sendq>>
          /\ \/ wpc = "stamp" /\ wpc' = "lock"
             \/ wpc = "lock" /\ wpc' = "post" /\ todo' = peers
             \/ wpc = "post" /\ wpc' = "poll" /\ todo \cap peers = {}
      BY <2>3 DEF StampSeq, LockRecover, FinishPost, rdmaVars
    <3>2. v \in Live /\ q \in peers
      BY <1>0, <1>a, <2>0, <3>1 DEF Live, ServerInv
    <3>3. Unposted(q, loc[v]) => Unposted(q, loc[v])'
      BY <3>1, <3>2 DEF Unposted
    <3> QED BY <2>0, <2>b, <2>k, <3>1, <3>2, <3>3 DEF Comes, ReachesBy
  <2>4. ASSUME NEW p \in Peers, PostTo(p) PROVE Comes(q, v)'
    <3>1. /\ UNCHANGED <<nwr, loc, pos, acks, wpc>> /\ wpc = "post" /\ todo' = todo \ {p}
          /\ sendq' = [sendq EXCEPT ![p] = writeTwoPlace(@, {pos}, nwr)]
      BY <2>4 DEF PostTo
    <3>2. v \in Live
      BY <1>a, <3>1 DEF Live
    <3>3. CASE p # q
      <4>1. sendq'[q] = sendq[q] /\ (q \in todo' <=> q \in todo)
        BY <1>t, <3>1, <3>3
      <4> QED BY <2>0, <2>b, <2>k, <3>1, <3>2, <4>1 DEF Comes, ReachesBy, Unposted
    <3>4. CASE p = q
      <4>1. {pos} \in SUBSET Cells /\ nwr \in Nat \ {0} /\ pos = loc[nwr]
        BY <1>0, <1>t, <3>1 DEF CRTypeOK, TypeOK, WriterTypeOK
      <4>2. sendq'[q] = writeTwoPlace(sendq[q], {pos}, nwr)
        BY <1>t, <3>1, <3>4
      <4>3. /\ Range(sendq[q]) \subseteq Range(sendq'[q])
            /\ DataWR({pos}, nwr) \in Range(sendq'[q])
        BY <1>p, <4>1, <4>2
      <4>4. ReachesBy(q, v) => ReachesBy(q, v)'
        BY <2>b, <3>1, <4>3 DEF ReachesBy
      <4>5. v = nwr => ReachesBy(q, v)'
        <5>1. /\ pos \in DataWR({pos}, nwr).cells /\ DataWR({pos}, nwr).tok = nwr
              /\ nwr <= nwr
          BY <4>1 DEF DataWR
        <5> QED BY <3>1, <4>1, <4>3, <5>1 DEF ReachesBy
      <4> QED BY <2>0, <2>k, <3>1, <3>2, <4>4, <4>5 DEF Comes
    <3> QED BY <3>3, <3>4
  <2>5. CASE \E p \in Peers : PollPeer(p)
    BY <1>1, <2>0, <2>b, <2>5 DEF PollPeer, rdmaVars
  <2>6. CASE FinishWrite
    <3>1. /\ UNCHANGED <<nwr, loc, pos, sendq>> /\ wpc = "poll" /\ wpc' = "idle"
          /\ acks' = [acks EXCEPT ![nwr] = flagged]
      BY <2>6 DEF FinishWrite, rdmaVars
    <3>2. rep_factor' = rep_factor /\ forgot \subseteq forgot'
      BY BothAre
    <3>3. v \in Live
      BY <1>t, <3>1, <3>2 DEF Live, Acked, Majority
    <3> QED BY <2>0, <2>b, <2>k, <3>1, <3>3 DEF Comes, ReachesBy, Unposted
  <2> QED BY <1>3, <2>1, <2>2, <2>3, <2>4, <2>5, <2>6 DEF Writer
<1>4. CASE cli # "down" /\ Watcher /\ Kept
  <2>0. /\ UNCHANGED <<cli, recover_src, syncing, mr, wpc, pos, todo, nwr, loc, acks>>
        /\ cli \in {"wait", "up"}
    BY <1>4 DEF Kept, recoverVars, Watcher, HandleDeleted, HandleChild, AddPeer, NoNewPeer,
       WatchPeer, PostRecover, RecoverDone, UpdateZKNode, FinishChild, SuspendWrites,
       WatchForPeerJoin, rdmaVars, writerVars
  <2>l. v \in Live
    BY <1>a, <2>0 DEF Live
  <2>1. CASE HandleDeleted
    <3>1. PICK p \in Deleted : /\ conn' = conn \ {p} /\ synced' = synced \ {p}
                               /\ sendq' = [sendq EXCEPT ![p] = <<>>]
      BY <2>1, ErasedPeer
    <3>2. cpc = "idle" /\ cpc' = "pick"
      BY <2>1, ErasedPeer DEF HandleDeleted
    <3>3. q # p /\ q \in conn /\ (q \in synced' <=> q \in synced) /\ (Bulk(q)' <=> Bulk(q))
      BY <2>0, <3>1, <3>2 DEF Bulk
    <3>4. sendq'[q] = sendq[q]
      BY <1>q, <1>t, <3>1, <3>3
    <3> QED BY <1>k, <2>0, <2>l, <3>3, <3>4 DEF Comes, ReachesBy, Unposted
  <2>2. ASSUME NEW p \in Peers, AddPeer(p) PROVE Comes(q, v)'
    <3>1. /\ conn' = conn \cup {p} /\ UNCHANGED <<synced, sendq>> /\ cpc = "pick" /\ cpc' = "exists"
          /\ p \notin peers /\ p \in alive
      BY <2>2 DEF AddPeer, historyVars
    <3>2. Bulk(q)' <=> Bulk(q)
      BY <2>0, <3>1 DEF Bulk
    <3>3. q \in conn
      <4>1. p \notin synced /\ p # recover_src /\ p \notin syncing
        BY <1>0, <3>1 DEF ServerInv, AimInv
      <4>2. ~Bulk(p)'
        BY <2>0, <3>1, <4>1 DEF Bulk
      <4> QED BY <2>0, <3>1, <4>1, <4>2
    <3> QED BY <1>k, <2>0, <2>l, <3>1, <3>2, <3>3 DEF Comes, ReachesBy, Unposted
  <2>3. CASE PostRecover
    <3>1. /\ UNCHANGED <<conn, synced, new_peer>> /\ cpc = "recover" /\ cpc' = "rwait"
          /\ sendq' = [sendq EXCEPT ![new_peer] = writeTwoPlace(@, 0 .. file_size - 1, 0)]
      BY <2>3 DEF PostRecover, historyVars
    <3>2. CASE q # new_peer
      <4>1. sendq'[q] = sendq[q] /\ (Bulk(q)' <=> Bulk(q))
        BY <1>t, <2>0, <3>1, <3>2 DEF Bulk
      <4> QED BY <1>k, <2>0, <2>l, <3>1, <4>1 DEF Comes, ReachesBy, Unposted
    <3>3. CASE q = new_peer
      <4>1. sendq'[q] = writeTwoPlace(sendq[q], 0 .. file_size - 1, 0)
        BY <1>q, <1>t, <3>1, <3>3
      <4>2. CASE Bulk(q)'
        BY <1>b, <2>0, <2>l, <4>1, <4>2
      <4>3. CASE ~Bulk(q)'
        <5>1. ~Bulk(q) /\ (q \in synced \/ q = recover_src)
          BY <2>0, <3>1, <4>3 DEF Bulk
        <5>2. Range(sendq[q]) \subseteq Range(sendq'[q])
          BY <1>p, <1>t, <4>1
        <5>3. ReachesBy(q, v) => ReachesBy(q, v)'
          BY <2>0, <4>3, <5>1, <5>2 DEF ReachesBy
        <5> QED BY <1>k, <2>0, <2>l, <3>1, <5>1, <5>3 DEF Comes, Unposted
      <4> QED BY <4>2, <4>3
    <3> QED BY <3>2, <3>3
  <2>4. CASE RecoverDone
    <3>1. /\ UNCHANGED <<conn, sendq>> /\ cpc = "rwait" /\ cpc' # "rwait"
          /\ synced' = synced \cup ({new_peer} \cap conn) /\ BothCompleted(new_peer, 0)
      BY <2>4 DEF RecoverDone, rdmaVars
    <3>2. q \in synced \/ q = recover_src \/ Bulk(q)
      BY <2>0, <3>1 DEF Bulk
    <3>3. Comes(q, v)
      BY <1>k, <2>0, <2>l, <3>1, <3>2
    <3>4. ReachesBy(q, v) => ReachesBy(q, v)'
      <4>1. CASE q = new_peer
        BY <2>0, <3>1, <4>1 DEF ReachesBy, BothCompleted
      <4>2. CASE q # new_peer
        <5>1. Bulk(q)' <=> Bulk(q)
          BY <2>0, <3>1, <4>2 DEF Bulk
        <5> QED BY <2>0, <3>1, <5>1 DEF ReachesBy
      <4> QED BY <4>1, <4>2
    <3> QED BY <2>0, <3>1, <3>3, <3>4 DEF Comes, Unposted
  <2>5. CASE \/ HandleChild \/ NoNewPeer \/ WatchPeer \/ UpdateZKNode \/ FinishChild \/ SuspendWrites
             \/ WatchForPeerJoin
    <3>1. /\ UNCHANGED <<conn, sendq, synced>> /\ cpc # "rwait" /\ cpc' # "rwait"
      BY <2>5 DEF HandleChild, NoNewPeer, WatchPeer, UpdateZKNode, FinishChild, SuspendWrites,
         WatchForPeerJoin, rdmaVars, historyVars
    <3>2. Bulk(q)' <=> Bulk(q)
      BY <2>0, <3>1 DEF Bulk
    <3> QED BY <1>1, <2>0, <3>1, <3>2
  <2> QED BY <1>4, <2>1, <2>2, <2>3, <2>4, <2>5 DEF Watcher
<1>5. CASE \E p \in Peers : (NicStep(p) \/ PeerCrash(p) \/ ExpireDead(p)) /\ Kept
  <2> PICK p \in Peers : (NicStep(p) \/ PeerCrash(p) \/ ExpireDead(p)) /\ Kept
    BY <1>5
  <2>0. /\ UNCHANGED <<cli, recover_src, syncing, wpc, pos, todo, nwr, loc, acks, cpc, new_peer>>
        /\ cli \in {"wait", "up"}
    BY DEF Kept, recoverVars, NicStep, PeerCrash, ExpireDead, writerVars, watcherVars
  <2>l. v \in Live
    BY <1>a, <2>0 DEF Live
  <2>1. CASE NicStep(p)
    <3>1. UNCHANGED <<conn, synced>>
      BY <2>1 DEF NicStep, NicPlace, NicComplete, historyVars
    <3>2. Bulk(q)' <=> Bulk(q)
      BY <2>0, <3>1 DEF Bulk
    <3>k. Comes(q, v)
      BY <1>k, <2>0, <2>l, <3>1, <3>2
    <3>3. CASE q # p
      <4>1. sendq'[q] = sendq[q] /\ mr'[q] = mr[q]
        BY <1>q, <1>t, <2>1, <3>3 DEF NicStep, NicPlace, NicComplete
      <4> QED BY <2>0, <3>2, <3>k, <4>1 DEF Comes, ReachesBy, Unposted
    <3>4. CASE q = p /\ NicPlace(p)
      <4>1. PICK c \in Head(sendq[q]).cells :
               /\ mr' = [mr EXCEPT ![q][c] = buffer[c]]
               /\ sendq' = [sendq EXCEPT ![q][1].cells = @ \ {c}]
        BY <3>4 DEF NicPlace
      <4>2. sendq[q] # <<>> /\ sendq'[q] = [sendq[q] EXCEPT ![1].cells = @ \ {c}]
        BY <1>t, <3>4, <4>1 DEF NicPlace
      <4>3. loc[v] \in Cells /\ buffer[loc[v]] >= v
        <5>1. v \in Acked \/ (wpc # "idle" /\ v = nwr)
          BY <2>l DEF Live
        <5> QED BY <1>0, <1>f, <2>0, <2>l, <5>1 DEF CRTypeOK, TypeOK, WriterTypeOK, BufInv
      <4>4. CASE loc[v] = c
        <5>1. mr'[q][loc'[v]] = buffer[loc[v]]
          BY <1>q, <1>t, <2>0, <4>1, <4>3, <4>4
        <5> QED BY <4>3, <5>1 DEF Comes
      <4>5. CASE loc[v] # c
        <5>1. mr'[q][loc'[v]] = mr[q][loc[v]]
          BY <1>q, <1>t, <2>0, <4>1, <4>5
        <5>2. Head(sendq[q]) \in WR
          BY <1>t, <4>2, TailProperties
        <5>3. ReachesBy(q, v) => ReachesBy(q, v)'
          <6> DEFINE h == [Head(sendq[q]) EXCEPT !.cells = @ \ {c}]
          <6>1. Range(sendq[q]) \subseteq Range(sendq'[q]) \cup {Head(sendq[q])}
                /\ h \in Range(sendq'[q])
            BY <1>t, <4>2, PlaceProperties
          <6>2. h.cells = Head(sendq[q]).cells \ {c} /\ h.tok = Head(sendq[q]).tok
            BY <5>2 DEF WR
          <6> QED BY <2>0, <3>2, <4>5, <6>1, <6>2 DEF ReachesBy
        <5> QED BY <2>0, <3>k, <5>1, <5>3 DEF Comes, Unposted
      <4> QED BY <4>4, <4>5
    <3>5. CASE q = p /\ NicComplete(p)
      <4>1. /\ mr' = mr /\ sendq[q] # <<>> /\ Head(sendq[q]).cells = {}
            /\ sendq'[q] = Tail(sendq[q])
        BY <1>t, <3>5 DEF NicComplete
      <4>2. ReachesBy(q, v) => ReachesBy(q, v)'
        BY <1>t, <2>0, <3>2, <4>1, TailProperties DEF ReachesBy
      <4> QED BY <2>0, <3>k, <4>1, <4>2 DEF Comes, Unposted
    <3> QED BY <2>1, <3>3, <3>4, <3>5 DEF NicStep
  <2>2. CASE PeerCrash(p)
    <3>1. /\ conn' = conn \ {p} /\ synced' = synced \ {p} /\ sendq' = sendq
          /\ mr' = [mr EXCEPT ![p] = Zeroed]
      BY <2>2 DEF PeerCrash, ServerDown
    <3>2. mr'[q] = mr[q] /\ q \in conn /\ (q \in synced' <=> q \in synced)
      BY <1>q, <1>t, <3>1
    <3>3. Bulk(q)' <=> Bulk(q)
      BY <2>0, <3>2 DEF Bulk
    <3> QED BY <1>k, <2>0, <2>l, <3>1, <3>2, <3>3 DEF Comes, ReachesBy, Unposted
  <2>3. CASE ExpireDead(p)
    BY <1>1, <2>0, <2>3 DEF ExpireDead, rdmaVars, historyVars, Bulk
  <2> QED BY <2>1, <2>2, <2>3
<1>6. CASE ClientCrash \/ Restart \/ GetInfo \/ ReadSource
  BY <1>6 DEF ClientCrash, Restart, GetInfo, ReadSource
<1>7. CASE SyncPeers
  <2>1. /\ cli = "sync" /\ cli' = "wait" /\ UNCHANGED <<conn, mr, wpc, loc, acks, recover_src>>
        /\ syncing' = peers \ {recover_src} /\ wpc = "idle"
        /\ q \in peers \ {recover_src} => sendq'[q] = writeTwoPlace(sendq[q], 0 .. file_size - 1, 0)
    BY <1>0, <1>q, <1>7 DEF SyncPeers, writerVars, LifeInv
  <2>2. v \in Acked /\ v \in Live
    BY <1>a, <2>1 DEF Live
  <2>3. CASE q = recover_src
    <3>1. mr[q][loc[v]] >= v
      BY <1>0, <2>1, <2>2, <2>3 DEF SourceInv, HasAcked
    <3> QED BY <2>1, <3>1 DEF Comes
  <2>4. CASE q # recover_src
    <3>1. q \in peers \ {recover_src} /\ Bulk(q)'
      BY <1>0, <2>1, <2>4 DEF ServerInv, Bulk
    <3> QED BY <1>b, <2>1, <2>2, <3>1
  <2> QED BY <2>3, <2>4
<1>8. CASE SyncDone
  <2>1. /\ cli = "wait" /\ cli' = "up" /\ UNCHANGED <<conn, mr, sendq, wpc, pos, todo, nwr, loc, acks,
                                                      cpc, new_peer>>
        /\ synced' = synced \cup ((syncing \cup {recover_src}) \cap conn) /\ wpc = "idle"
        /\ recover_src' = NoPeer /\ \A p \in syncing : BothCompleted(p, 0)
    BY <1>0, <1>8 DEF SyncDone, rdmaVars, writerVars, watcherVars, LifeInv
  <2>2. v \in Acked /\ v \in Live
    BY <1>a, <2>1 DEF Live
  <2>3. CASE q = recover_src
    <3>1. mr[q][loc[v]] >= v
      BY <1>0, <2>1, <2>2, <2>3 DEF SourceInv, HasAcked
    <3> QED BY <2>1, <3>1 DEF Comes
  <2>4. CASE q # recover_src
    <3>1. q \in synced \/ Bulk(q)
      BY <1>n, <1>q, <2>1, <2>4 DEF Bulk
    <3>2. Comes(q, v)
      BY <1>k, <2>1, <2>2, <3>1
    <3>3. ReachesBy(q, v) => ReachesBy(q, v)'
      <4>1. CASE q \in syncing
        BY <2>1, <4>1 DEF ReachesBy, BothCompleted
      <4>2. CASE q \notin syncing
        <5>1. Bulk(q) => Bulk(q)'
          BY <2>1, <2>4, <4>2 DEF Bulk
        <5> QED BY <2>1, <5>1 DEF ReachesBy
      <4> QED BY <4>1, <4>2
    <3> QED BY <2>1, <3>2, <3>3 DEF Comes, Unposted
  <2> QED BY <2>3, <2>4
<1>9. CASE OpenTruncated
  <2>1. UNCHANGED <<wpc, acks>> /\ wpc = "idle" /\ forgot' = forgot \cup Acked
    BY <1>0, <1>9 DEF OpenTruncated, LifeInv, writerVars
  <2>2. Live' = {}
    BY <2>1, BothAre DEF Live
  <2> QED BY <2>2
<1> QED BY <1>0, <1>2, <1>3, <1>4, <1>5, <1>6, <1>7, <1>8, <1>9, CRCases

-----------------------------------------------------------------------------
(* The theorems. *)

\* A client that has just created its file: nothing is written, and both peers
\* are live and registered.
LEMMA CRInitial == TwoReplicas /\ CRInit => CRInv
<1> SUFFICES ASSUME TwoReplicas, CRInit PROVE CRInv
  OBVIOUS
<1> USE ConstantsAssumption
<1>0. Init /\ cli = "up" /\ recover_src = NoPeer /\ recover_size = 0 /\ syncing = {}
  BY DEF CRInit
<1>1. CRTypeOK
  <2>1. TypeOK
    BY <1>0, TypeInit
  <2> QED BY <2>1, RecoveryAssumption, BufSizeAssumption DEF CRInit, CRTypeOK
<1>2. /\ rep_factor = 2 /\ peers \in SUBSET InitServers /\ Cardinality(peers) = 2
      /\ alive = InitServers /\ servers = InitServers /\ orphans = {}
      /\ conn = peers /\ exists_watch = peers /\ zknode = peers /\ synced = peers
  <2>1. Cardinality(InitServers) \in Nat
    BY CardBounds
  <2>2. rep_factor = 2
    BY <1>0, <2>1 DEF Init, TwoReplicas
  <2> QED BY <1>0, <2>2 DEF Init
<1>3. \A p \in Peers : op_queue[p] = <<>> /\ sendq[p] = <<>> /\ mr_seq[p] = 0
  BY <1>0 DEF Init
<1>4. Range(<<>>) = {}
  BY DEF Range
<1>5. events = <<>> /\ Deleted = {} /\ Lost = {}
  BY <1>0, <1>2, <1>4 DEF Init, Deleted, Lost
<1>6. Acked = {} /\ Live = {}
  <2>1. Cardinality({}) = 0
    BY FS_EmptySet
  <2>2. Acked = {}
    BY <1>0, <1>2, <2>1 DEF Init, Acked, Majority
  <2> QED BY <1>0, <2>2 DEF Init, Live
<1>7. LifeInv /\ ServerInv /\ SpareInv /\ AimInv
  <2>1. LifeInv
    BY <1>0 DEF Init, LifeInv
  <2>2. ServerInv
    BY <1>0, <1>2, <1>3 DEF Init, ServerInv, Adding
  <2>3. SpareInv
    BY <1>3 DEF SpareInv
  <2>4. AimInv
    BY <1>0, <1>2 DEF AimInv
  <2> QED BY <2>1, <2>2, <2>3, <2>4
<1>8. EventInv /\ JoinInv
  <2>1. OnlyOnce(events)
    BY <1>5 DEF OnlyOnce
  <2>2. /\ cpc = "idle" /\ ev = "none" /\ ~child_watch /\ ChildEvent \notin Range(events)
    BY <1>0, <1>4, <1>5 DEF Init
  <2>3. EventInv
    BY <1>2, <1>5, <2>1, <2>2 DEF EventInv
  <2> QED BY <2>2, <2>3 DEF JoinInv
<1>9. NodeInv
  <2>1. cpc = "idle" /\ peers = zknode /\ Cardinality(zknode) <= 2 /\ Cardinality(peers) <= 2
    BY <1>0, <1>2 DEF Init
  <2> QED BY <2>1 DEF NodeInv
<1>10. TokenInv
  <2> SUFFICES ASSUME NEW p \in Peers PROVE TokenOK(p)
    BY DEF TokenInv
  <2>1. op_queue[p] = <<>> /\ sendq[p] = <<>> /\ wpc = "idle"
    BY <1>0, <1>3 DEF Init
  <2>2. Increasing(op_queue[p])
    BY <2>1 DEF Increasing
  <2> QED BY <1>4, <2>1, <2>2 DEF TokenOK
<1>11. QuorumInv /\ BufInv /\ KeptInv /\ JoinedInv /\ SourceInv
  <2>1. wpc = "idle" /\ flagged = {} /\ nwr = 0
    BY <1>0 DEF Init
  <2>2. 1 .. nwr = {}
    BY <2>1
  <2>3. QuorumInv
    BY <1>6, <2>1 DEF QuorumInv
  <2>4. BufInv
    BY <1>6, <2>1, <2>2 DEF BufInv
  <2> QED BY <1>0, <1>2, <1>6, <2>3, <2>4 DEF KeptInv, JoinedInv, SourceInv
<1> QED BY <1>1, <1>7, <1>8, <1>9, <1>10, <1>11 DEF CRInv

\* With two replicas, the invariant holds through any sequence of failures of
\* servers and of the client, replacements of peers and recoveries.
THEOREM CRInductive == TwoReplicas => (CRSpec => []CRInv)
<1> SUFFICES ASSUME TwoReplicas PROVE CRSpec => []CRInv
  OBVIOUS
<1>1. CRInit => CRInv
  BY CRInitial
<1>2. CRInv /\ [CRNext]_crVars => CRInv'
  <2> SUFFICES ASSUME CRInv, [CRNext]_crVars PROVE CRInv'
    OBVIOUS
  <2>1. CRTypeOK'
    BY CRTypeStep DEF CRInv
  <2>2. LifeInv' /\ ServerInv' /\ EventInv' /\ JoinInv' /\ NodeInv' /\ SpareInv' /\ AimInv'
    BY LifeStep, ServerStep, EventStep, JoinStep, NodeStep, SpareStep, AimStep
  <2>3. TokenInv' /\ QuorumInv' /\ BufInv' /\ KeptInv' /\ JoinedInv' /\ SourceInv'
    BY TokenStep, QuorumStep, BufStep, KeptStep, JoinedStep, SourceStep
  <2> QED BY <2>1, <2>2, <2>3 DEF CRInv
<1> QED BY <1>1, <1>2, PTL DEF CRSpec

\* With two replicas, what TryRecover reads (client.cc:584) contains every
\* acknowledged write, whatever a peer that died before answering seems to
\* have said: the source holds all of them, and findSize covers them.
THEOREM RecoversAckedAlways == TwoReplicas => (CRSpec => []RecoversAcked)
<1> SUFFICES ASSUME TwoReplicas PROVE CRSpec => []RecoversAcked
  OBVIOUS
<1>1. CRInv => RecoversAcked
  <2> SUFFICES ASSUME CRInv, cli = "read", recover_src \in conn, NEW w \in Acked
               PROVE  loc[w] < recover_size /\ mr[recover_src][loc[w]] >= w
    BY DEF RecoversAcked
  <2>1. HasAcked(recover_src) /\ recover_size = findSize(mr[recover_src])
    BY DEF CRInv, SourceInv
  <2>2. recover_src \in Peers
    BY DEF CRInv, CRTypeOK, TypeOK, RdmaTypeOK
  <2>3. loc[w] < findSize(mr[recover_src])
    BY <2>1, <2>2, SizeCovers
  <2> QED BY <2>1, <2>3 DEF HasAcked
<1> QED BY <1>1, CRInductive, PTL

\* With two replicas, every peer that was given the file holds every
\* acknowledged write or has work requests for it in flight, before and after
\* any number of recoveries and replacements.
THEOREM AckedOnEveryPeerAlways == TwoReplicas => (CRSpec => []AckedOnEveryPeer)
<1> SUFFICES ASSUME TwoReplicas PROVE CRSpec => []AckedOnEveryPeer
  OBVIOUS
<1>1. CRInv => AckedOnEveryPeer
  <2> SUFFICES ASSUME CRInv, cli = "up", NEW w \in Acked, NEW p \in synced, sendq[p] = <<>>
               PROVE  mr[p][loc[w]] >= w
    BY DEF AckedOnEveryPeer
  <2>1. p \in conn /\ w \in Live
    BY DEF CRInv, ServerInv, Live
  <2>2. Comes(p, w)
    BY <2>1 DEF CRInv, KeptInv
  <2>3. ~ReachesBy(p, w)
    BY DEF ReachesBy, Range
  <2>4. w = nwr => wpc = "idle"
    <3>1. w < nwr \/ (w = nwr /\ wpc = "idle")
      BY DEF CRInv, QuorumInv
    <3>2. w \in Nat /\ nwr \in Nat
      BY AckedFacts DEF CRInv, CRTypeOK, TypeOK, WriterTypeOK
    <3> QED BY <3>1, <3>2
  <2> QED BY <2>2, <2>3, <2>4 DEF Comes, Unposted
<1> QED BY <1>1, CRInductive, PTL

=============================================================================
