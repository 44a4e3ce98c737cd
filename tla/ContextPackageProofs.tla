------------------------- MODULE ContextPackageProofs -------------------------
(***************************************************************************)
(* Proofs about the implementation context.  The first part is about the   *)
(* operators that Retrieval is made of: orders, selections from sequences, *)
(* and functions by recursion, for which the induction over the numbers is *)
(* an argument by the least exception.                                     *)
(***************************************************************************)
EXTENDS ContextPackage, FiniteSetTheorems, SequenceTheorems, WellFoundedInduction, TLAPS

\* A set with 0 and every successor has all the numbers.
LEMMA AllNumbers ==
  ASSUME NEW S, 0 \in S, \A n \in Nat : n \in S => n + 1 \in S
  PROVE  Nat \subseteq S
<1> DEFINE T == Nat \ S
<1>1. SUFFICES ASSUME T # {} PROVE FALSE
  OBVIOUS
<1>2. PICK m \in T : \A k \in T : ~ (<<k, m>> \in OpToRel(<, Nat))
  BY <1>1, NatLessThanWellFounded, WFMin, Zenon
<1>3. m \in Nat /\ m # 0 /\ m - 1 \in Nat
  OBVIOUS
<1>4. m - 1 \in T
  BY <1>3
<1>5. <<m - 1, m>> \in Nat \X Nat /\ <<m - 1, m>>[1] < <<m - 1, m>>[2]
  BY <1>3
<1>6. <<m - 1, m>> \in OpToRel(<, Nat)
  BY <1>5 DEF OpToRel
<1> QED
  BY <1>2, <1>4, <1>6

\* What holds at the start of a chain and is handed on holds all along it.
LEMMA AlongChain ==
  ASSUME NEW n \in Nat, NEW f, NEW Y, f[0] \in Y,
         \A i \in 1..n : f[i - 1] \in Y => f[i] \in Y
  PROVE  \A i \in 0..n : f[i] \in Y
<1> DEFINE S == {i \in Nat : i \in 0..n => f[i] \in Y}
<1>1. 0 \in S
  OBVIOUS
<1>2. ASSUME NEW i \in Nat, i \in S PROVE i + 1 \in S
  <2>1. CASE i + 1 \in 0..n
    <3>1. i + 1 \in 1..n /\ i \in 0..n /\ (i + 1) - 1 = i
      BY <2>1
    <3> QED
      BY <1>2, <3>1
  <2>2. CASE i + 1 \notin 0..n
    BY <2>2
  <2> QED
    BY <2>1, <2>2
<1>3. Nat \subseteq S
  <2> HIDE DEF S
  <2> QED
    BY <1>1, <1>2, AllNumbers
<1> QED
  BY <1>3

\* f has the steps F from base on.
Follows(f, n, base, F) == f[0] = base /\ \A i \in 1..n : f[i] = F[i][f[i - 1]]

\* There is a function by recursion.
LEMMA Recursion ==
  ASSUME NEW n \in Nat, NEW Y, NEW base \in Y, NEW F \in [1..n -> [Y -> Y]]
  PROVE  \E f \in [0..n -> Y] : Follows(f, n, base, F)
<1> DEFINE S == {k \in Nat : k <= n => \E f \in [0..k -> Y] : Follows(f, k, base, F)}
<1>1. 0 \in S
  <2> DEFINE f == [i \in 0..0 |-> base]
  <2>1. f \in [0..0 -> Y] /\ Follows(f, 0, base, F)
    BY DEF Follows
  <2> QED
    BY <2>1
<1>2. ASSUME NEW k \in Nat, k \in S PROVE k + 1 \in S
  <2>1. SUFFICES ASSUME k + 1 <= n
                 PROVE  \E f \in [0..(k + 1) -> Y] : Follows(f, k + 1, base, F)
    OBVIOUS
  <2>2. PICK g \in [0..k -> Y] : Follows(g, k, base, F)
    BY <1>2, <2>1
  <2> DEFINE v == F[k + 1][g[k]]
             f == [i \in 0..(k + 1) |-> IF i = k + 1 THEN v ELSE g[i]]
  <2>3. v \in Y
    <3>1. k + 1 \in 1..n /\ g[k] \in Y
      BY <2>1, <2>2
    <3> QED
      BY <3>1
  <2>4. f \in [0..(k + 1) -> Y]
    BY <2>2, <2>3
  <2>5. f[0] = base /\ f[k + 1] = v /\ \A i \in 0..k : f[i] = g[i]
    BY <2>2 DEF Follows
  <2>6. ASSUME NEW i \in 1..(k + 1) PROVE f[i] = F[i][f[i - 1]]
    <3>1. CASE i = k + 1
      <4>1. i - 1 = k /\ k \in 0..k
        BY <3>1
      <4> HIDE DEF f
      <4> QED
        BY <3>1, <4>1, <2>5
    <3>2. CASE i # k + 1
      <4>1. i \in 1..k /\ i - 1 \in 0..k /\ i \in 0..k
        BY <3>2
      <4> HIDE DEF f
      <4> QED
        BY <4>1, <2>5, <2>2 DEF Follows
    <3> QED
      BY <3>1, <3>2
  <2> HIDE DEF f, v
  <2> QED
    BY <2>4, <2>5, <2>6 DEF Follows
<1>3. Nat \subseteq S
  <2> HIDE DEF S
  <2> QED
    BY <1>1, <1>2, AllNumbers
<1>4. n \in S
  BY <1>3
<1> QED
  BY <1>4

-----------------------------------------------------------------------------
(* Orders.                                                                 *)

\* A strict total order on S.
StrictOrder(S, R) ==
  /\ \A e \in S : <<e, e>> \notin R
  /\ \A e, f \in S : e = f \/ <<e, f>> \in R \/ <<f, e>> \in R
  /\ \A e, f, g \in S : <<e, f>> \in R /\ <<f, g>> \in R => <<e, g>> \in R

\* The elements of a finite set in a strict total order: each once, the
\* earlier ones at the smaller positions.
LEMMA Ordering ==
  ASSUME NEW S, NEW R, IsFiniteSet(S), StrictOrder(S, R)
  PROVE  LET n == Cardinality(S)
             s == Ordered(S, R)
         IN  /\ n \in Nat /\ s \in [1..n -> S]
             /\ \A e \in S : \E i \in 1..n : s[i] = e
             /\ \A i, j \in 1..n : i < j => <<s[i], s[j]>> \in R /\ s[i] # s[j]
<1> DEFINE n == Cardinality(S)
           Below(e) == {f \in S : <<f, e>> \in R}
           pos == [e \in S |-> Cardinality(Below(e))]
           s == Ordered(S, R)
<1>1. n \in Nat
  BY FS_CardinalityType
<1>2. ASSUME NEW e \in S PROVE IsFiniteSet(Below(e)) /\ pos[e] \in 0..(n - 1)
  <2>1. Below(e) \in SUBSET S /\ Below(e) # S
    BY DEF StrictOrder
  <2>2. /\ IsFiniteSet(Below(e)) /\ Cardinality(Below(e)) <= n
        /\ Cardinality(Below(e)) # n /\ Cardinality(Below(e)) \in Nat
    <3> HIDE DEF Below
    <3> QED
      BY <2>1, FS_Subset, FS_CardinalityType
  <2> QED
    BY <1>1, <2>2
<1>3. ASSUME NEW e \in S, NEW f \in S, <<e, f>> \in R PROVE pos[e] < pos[f]
  <2>1. Below(e) \in SUBSET Below(f) /\ e \in Below(f) /\ e \notin Below(e)
    BY <1>3 DEF StrictOrder
  <2>2. Cardinality(Below(e)) <= Cardinality(Below(f))
        /\ Cardinality(Below(e)) # Cardinality(Below(f))
    <3> HIDE DEF Below
    <3> QED
      BY <1>2, <2>1, FS_Subset
  <2>3. Cardinality(Below(e)) \in Nat /\ Cardinality(Below(f)) \in Nat
    BY <1>2, FS_CardinalityType
  <2> QED
    BY <2>2, <2>3
<1>4. \A e, f \in S : pos[e] = pos[f] => e = f
  <2>1. SUFFICES ASSUME NEW e \in S, NEW f \in S, pos[e] = pos[f], e # f PROVE FALSE
    BY Zenon
  <2> HIDE DEF pos, n, Below
  <2>2. pos[e] \in 0..(n - 1)
    BY <1>2
  <2>3. pos[f] \in 0..(n - 1)
    BY <1>2
  <2>4. CASE <<e, f>> \in R
    <3>1. pos[e] < pos[f]
      BY <1>3, <2>4
    <3> QED
      BY <1>1, <2>1, <2>2, <2>3, <3>1
  <2>5. CASE <<f, e>> \in R
    <3>1. pos[f] < pos[e]
      BY <1>3, <2>5
    <3> QED
      BY <1>1, <2>1, <2>2, <2>3, <3>1
  <2> QED
    BY <2>1, <2>4, <2>5 DEF StrictOrder
<1>5. pos \in Injection(S, 0..(n - 1))
  <2>1. pos \in [S -> 0..(n - 1)]
    BY <1>2
  <2>2. IsInjective(pos)
    BY <1>4 DEF IsInjective
  <2> QED
    BY <2>1, <2>2 DEF Injection
<1>6. IsFiniteSet(0..(n - 1)) /\ Cardinality(0..(n - 1)) = n
  BY <1>1, FS_Interval
<1>7. pos \in Surjection(S, 0..(n - 1))
  <2> HIDE DEF pos
  <2> QED
    BY <1>5, <1>6, FS_Injection
<1>8. \A k \in 0..(n - 1) : \E e \in S : pos[e] = k
  <2> HIDE DEF pos
  <2> QED
    BY <1>7 DEF Surjection
<1>9. ASSUME NEW i \in 1..n PROVE s[i] \in S /\ pos[s[i]] = i - 1
  <2>1. i - 1 \in 0..(n - 1)
    BY <1>1
  <2>2. \E e \in S : Cardinality(Below(e)) = i - 1
    BY <1>8, <2>1
  <2>3. s[i] = CHOOSE e \in S : Cardinality(Below(e)) = i - 1
    BY DEF Ordered
  <2>4. s[i] \in S /\ Cardinality(Below(s[i])) = i - 1
    <3> HIDE DEF s, Below
    <3> QED
      BY <2>2, <2>3
  <2> QED
    BY <2>4
<1>10. s \in [1..n -> S]
  <2> DEFINE at(i) == CHOOSE e \in S : Cardinality({f \in S : <<f, e>> \in R}) = i - 1
  <2>1. s = [i \in 1..n |-> at(i)]
    BY DEF Ordered
  <2> HIDE DEF s, n, at
  <2>2. \A i \in 1..n : at(i) = s[i]
    BY <2>1
  <2>3. \A i \in 1..n : at(i) \in S
    BY <1>9, <2>2
  <2> QED
    BY <2>1, <2>3
<1>11. ASSUME NEW e \in S PROVE \E i \in 1..n : s[i] = e
  <2> HIDE DEF s, pos, n, Below
  <2>0. pos[e] \in 0..(n - 1)
    BY <1>2
  <2>1. pos[e] + 1 \in 1..n /\ (pos[e] + 1) - 1 = pos[e]
    BY <1>1, <2>0
  <2>2. s[pos[e] + 1] \in S /\ pos[s[pos[e] + 1]] = pos[e]
    BY <1>9, <2>1
  <2> QED
    BY <1>4, <2>1, <2>2
<1>12. ASSUME NEW i \in 1..n, NEW j \in 1..n, i < j PROVE <<s[i], s[j]>> \in R /\ s[i] # s[j]
  <2> HIDE DEF s, pos
  <2>1. /\ s[i] \in S /\ s[j] \in S /\ pos[s[i]] = i - 1 /\ pos[s[j]] = j - 1
    BY <1>9
  <2>2. ~ (<<s[j], s[i]>> \in R)
    <3>1. SUFFICES ASSUME <<s[j], s[i]>> \in R PROVE FALSE
      OBVIOUS
    <3>2. pos[s[j]] < pos[s[i]]
      BY <1>3, <2>1, <3>1
    <3> QED
      BY <1>12, <2>1, <3>2
  <2>3. s[i] # s[j]
    BY <1>12, <2>1
  <2> QED
    BY <2>1, <2>2, <2>3 DEF StrictOrder
<1>13. \A e \in S : \E i \in 1..n : s[i] = e
  BY <1>11
<1>14. \A i, j \in 1..n : i < j => <<s[i], s[j]>> \in R /\ s[i] # s[j]
  BY <1>12
<1>15. n = Cardinality(S) /\ s = Ordered(S, R)
  OBVIOUS
<1> HIDE DEF s, n
<1> QED
  BY <1>1, <1>10, <1>13, <1>14, <1>15

\* A set of numbers has a least one.
LEMMA Least ==
  ASSUME NEW S \in SUBSET Nat, S # {}
  PROVE  \E m \in S : \A k \in S : m <= k
<1>1. PICK m \in S : \A k \in S : ~ (<<k, m>> \in OpToRel(<, Nat))
  BY NatLessThanWellFounded, WFMin, Zenon
<1>2. ASSUME NEW k \in S, k < m PROVE FALSE
  <2>1. <<k, m>> \in Nat \X Nat /\ <<k, m>>[1] < <<k, m>>[2]
    BY <1>2
  <2>2. <<k, m>> \in OpToRel(<, Nat)
    BY <2>1 DEF OpToRel
  <2> QED
    BY <1>1, <2>2
<1> QED
  BY <1>2

\* The image of a finite set is finite.
LEMMA Image ==
  ASSUME NEW S, IsFiniteSet(S), NEW f
  PROVE  IsFiniteSet({f[x] : x \in S})
<1> DEFINE T == {f[x] : x \in S}
           g == [x \in S |-> f[x]]
<1>1. g \in [S -> T] /\ \A t \in T : \E x \in S : g[x] = t
  OBVIOUS
<1>2. g \in Surjection(S, T)
  BY <1>1 DEF Surjection
<1> HIDE DEF g
<1>3. IsFiniteSet(T)
  <2> HIDE DEF T
  <2> QED
    BY <1>2, FS_Surjection
<1> QED
  BY <1>3
-----------------------------------------------------------------------------
(* Sequences.                                                              *)

\* p lists the positions I in order.
Enumerates(p, n, I) ==
  /\ \A k \in 1..n : p[k] \in I /\ k <= p[k]
  /\ \A i \in I : \E k \in 1..n : p[k] = i
  /\ \A k, l \in 1..n : k < l => p[k] < p[l]

\* At(s, I) has what s has at I, in order.
LEMMA Selection ==
  ASSUME NEW X, NEW s \in Seq(X), NEW I \in SUBSET (1..Len(s))
  PROVE  LET t == At(s, I)
         IN  /\ t \in Seq(X) /\ Len(t) = Cardinality(I)
             /\ \E p \in [1..Len(t) -> I] : /\ Enumerates(p, Len(t), I)
                                            /\ \A k \in 1..Len(t) : t[k] = s[p[k]]
<1> DEFINE n == Cardinality(I)
           R == {q \in I \X I : q[1] < q[2]}
           p == Ordered(I, R)
           t == At(s, I)
<1>1. IsFiniteSet(I) /\ I \subseteq Nat \ {0}
  <2>1. Len(s) \in Nat
    OBVIOUS
  <2>2. IsFiniteSet(1..Len(s))
    BY <2>1, FS_Interval
  <2>3. IsFiniteSet(I)
    BY <2>2, FS_Subset
  <2> QED
    BY <2>1, <2>3
<1>2. StrictOrder(I, R)
  <2>1. \A i, j \in I : <<i, j>> \in R <=> i < j
    OBVIOUS
  <2> HIDE DEF R
  <2> QED
    BY <1>1, <2>1 DEF StrictOrder
<1>3. /\ n \in Nat /\ p \in [1..n -> I]
      /\ \A i \in I : \E k \in 1..n : p[k] = i
      /\ \A k, l \in 1..n : k < l => <<p[k], p[l]>> \in R
  <2> HIDE DEF R
  <2> QED
    BY <1>1, <1>2, Ordering
<1>4. \A k, l \in 1..n : k < l => p[k] < p[l]
  <2> HIDE DEF p
  <2> QED
    BY <1>3
<1>5. \A k \in 1..n : k <= p[k]
  <2> DEFINE S == {k \in Nat : k \in 1..n => k <= p[k]}
  <2> HIDE DEF p, n
  <2>1. 0 \in S
    OBVIOUS
  <2>2. ASSUME NEW k \in Nat, k \in S PROVE k + 1 \in S
    <3>1. SUFFICES ASSUME k + 1 \in 1..n PROVE k + 1 <= p[k + 1]
      OBVIOUS
    <3>2. p[k + 1] \in Nat \ {0}
      BY <1>1, <1>3, <3>1
    <3>3. CASE k = 0
      BY <3>2, <3>3
    <3>4. CASE k # 0
      <4>1. k \in 1..n /\ k < k + 1
        BY <1>3, <3>1, <3>4
      <4>2. p[k] < p[k + 1] /\ k <= p[k] /\ p[k] \in Nat
        BY <1>1, <1>3, <1>4, <2>2, <3>1, <4>1
      <4> QED
        BY <3>2, <4>2
    <3> QED
      BY <3>3, <3>4
  <2>3. Nat \subseteq S
    <3> HIDE DEF S
    <3> QED
      BY <2>1, <2>2, AllNumbers
  <2> QED
    BY <2>3
<1>6. t = [k \in 1..n |-> s[p[k]]]
  <2>1. t = [k \in DOMAIN p |-> s[p[k]]]
    BY DEF At, Sorted
  <2> HIDE DEF t, p
  <2> QED
    BY <1>3, <2>1
<1>7. t \in Seq(X) /\ Len(t) = n
  <2> HIDE DEF t, p, n
  <2>1. \A k \in 1..n : s[p[k]] \in X
    <3>1. SUFFICES ASSUME NEW k \in 1..n PROVE s[p[k]] \in X
      OBVIOUS
    <3>2. p[k] \in 1..Len(s)
      BY <1>3
    <3> QED
      BY <3>2
  <2> QED
    BY <1>3, <1>6, <2>1
<1>8. Enumerates(p, n, I)
  <2> HIDE DEF p
  <2> QED
    BY <1>3, <1>4, <1>5 DEF Enumerates
<1>9. \A k \in 1..n : t[k] = s[p[k]]
  <2> HIDE DEF t, p
  <2> QED
    BY <1>6
<1>10. n = Cardinality(I) /\ t = At(s, I)
  OBVIOUS
<1> HIDE DEF t, p, n
<1> QED
  BY <1>3, <1>7, <1>8, <1>9, <1>10

\* Of every element a list without repetitions has the first occurrence, at
\* no later a position.
LEMMA DistinctElements ==
  ASSUME NEW X, NEW s \in Seq(X)
  PROVE  LET t == Distinct(s)
         IN  /\ t \in Seq(X) /\ Len(t) <= Len(s)
             /\ \A k \in 1..Len(t) : \E j \in 1..Len(s) : t[k] = s[j]
             /\ \A j \in 1..Len(s) : \E k \in 1..Len(t) : k <= j /\ t[k] = s[j]
             /\ \A k, l \in 1..Len(t) : t[k] = t[l] => k = l
<1> DEFINE I == {i \in 1..Len(s) : \A j \in 1..(i - 1) : s[j] # s[i]}
           t == Distinct(s)
<1>1. t = At(s, I) /\ Len(s) \in Nat
  <2>1. DOMAIN s = 1..Len(s)
    OBVIOUS
  <2> QED
    BY <2>1 DEF Distinct
<1>2. I \in SUBSET (1..Len(s))
  OBVIOUS
<1>3. /\ t \in Seq(X) /\ Len(t) = Cardinality(I)
      /\ \E p \in [1..Len(t) -> I] : /\ Enumerates(p, Len(t), I)
                                     /\ \A k \in 1..Len(t) : t[k] = s[p[k]]
  <2> HIDE DEF I, t
  <2> QED
    BY <1>1, <1>2, Selection
<1>4. PICK p \in [1..Len(t) -> I] : /\ Enumerates(p, Len(t), I)
                                    /\ \A k \in 1..Len(t) : t[k] = s[p[k]]
  BY <1>3
<1>5. Len(t) <= Len(s)
  <2> DEFINE m == Len(s)
  <2>2. m \in Int /\ (1 > m => m = 0)
    BY <1>1
  <2> HIDE DEF I, t, m
  <2>3. IsFiniteSet(1..m)
    BY <2>2, FS_Interval
  <2>4. Cardinality(1..m) = m
    BY <2>2, FS_Interval
  <2>1. IsFiniteSet(1..Len(s)) /\ Cardinality(1..Len(s)) = Len(s)
    BY <2>3, <2>4 DEF m
  <2> QED
    BY <1>2, <1>3, <2>1, FS_Subset
<1>6. ASSUME NEW j \in 1..Len(s) PROVE \E k \in 1..Len(t) : k <= j /\ t[k] = s[j]
  <2> DEFINE J == {i \in 1..Len(s) : s[i] = s[j]}
  <2>1. J \in SUBSET Nat /\ J # {}
    OBVIOUS
  <2>2. PICK i \in J : \A k \in J : i <= k
    <3> HIDE DEF J
    <3> QED
      BY <2>1, Least
  <2>3. i \in I /\ i <= j /\ s[i] = s[j] /\ i \in Nat
    <3>1. \A k \in 1..(i - 1) : s[k] # s[i]
      <4>1. SUFFICES ASSUME NEW k \in 1..(i - 1), s[k] = s[i] PROVE FALSE
        OBVIOUS
      <4>2. k \in J /\ k < i
        BY <4>1
      <4> QED
        BY <2>2, <4>2
    <3> QED
      BY <2>2, <3>1
  <2>4. PICK k \in 1..Len(t) : p[k] = i
    <3> HIDE DEF I, t
    <3> QED
      BY <1>4, <2>3 DEF Enumerates
  <2>5. k <= p[k] /\ t[k] = s[p[k]]
    <3> HIDE DEF I, t
    <3> QED
      BY <1>4 DEF Enumerates
  <2> HIDE DEF I, t
  <2> QED
    BY <2>3, <2>4, <2>5
<1>7. ASSUME NEW k \in 1..Len(t), NEW l \in 1..Len(t), t[k] = t[l], k < l PROVE FALSE
  <2>1. p[k] \in I /\ p[l] \in I /\ p[k] < p[l]
    <3> HIDE DEF I, t
    <3> QED
      BY <1>4, <1>7 DEF Enumerates
  <2>2. s[p[k]] = s[p[l]]
    <3> HIDE DEF I, t
    <3> QED
      BY <1>4, <1>7
  <2>3. p[k] \in 1..(p[l] - 1)
    BY <2>1
  <2> HIDE DEF t
  <2> QED
    BY <2>1, <2>2, <2>3
<1>8. \A k \in 1..Len(t) : \E j \in 1..Len(s) : t[k] = s[j]
  <2> HIDE DEF t
  <2> QED
    BY <1>4
<1>9. \A k, l \in 1..Len(t) : t[k] = t[l] => k = l
  <2> HIDE DEF t
  <2>1. Len(t) \in Nat
    BY <1>3
  <2> QED
    BY <1>7, <2>1
<1>10. \A j \in 1..Len(s) : \E k \in 1..Len(t) : k <= j /\ t[k] = s[j]
  BY <1>6
<1>11. t = Distinct(s)
  OBVIOUS
<1> HIDE DEF t
<1> QED
  BY <1>3, <1>5, <1>8, <1>9, <1>10, <1>11

\* The first n elements.
LEMMA FirstElements ==
  ASSUME NEW X, NEW s \in Seq(X), NEW n \in Nat
  PROVE  LET t == First(n, s)
             k == IF Len(s) < n THEN Len(s) ELSE n
         IN  /\ t \in Seq(X) /\ Len(t) = k
             /\ \A i \in 1..k : t[i] = s[i]
<1> DEFINE k == IF Len(s) < n THEN Len(s) ELSE n
<1>1. k \in Nat /\ k <= Len(s) /\ \A i \in 1..k : s[i] \in X
  OBVIOUS
<1>2. First(n, s) = SubSeq(s, 1, k)
  BY DEF First
<1>3. /\ SubSeq(s, 1, k) \in Seq(X) /\ Len(SubSeq(s, 1, k)) = k
      /\ \A i \in 1..k : SubSeq(s, 1, k)[i] = s[i]
  <2> HIDE DEF k
  <2>1. 1 \in Int /\ k \in Int /\ k - 1 + 1 = k /\ \A i \in 1..k : 1 + i - 1 = i
    BY <1>1
  <2> QED
    BY <1>1, <2>1, SubSeqProperties
<1> QED
  BY <1>1, <1>2, <1>3
\* Orders by a sequence of keys, in which no two elements agree, are strict
\* and total.
ByKeys(S, R, m, key) ==
  \A e, f \in S : <<e, f>> \in R <=> \E i \in 1..m : /\ key[e][i] < key[f][i]
                                                     /\ \A j \in 1..(i - 1) : key[e][j] = key[f][j]

\* An order by the first of several keys that differs.
LEMMA KeyOrder ==
  ASSUME NEW S, NEW R, NEW m \in Nat, NEW key \in [S -> [1..m -> Int]],
         ByKeys(S, R, m, key),
         \A e, f \in S : key[e] = key[f] => e = f
  PROVE  StrictOrder(S, R)
<1>1. ASSUME NEW e \in S, <<e, e>> \in R PROVE FALSE
  <2>1. PICK i \in 1..m : key[e][i] < key[e][i]
    BY <1>1 DEF ByKeys
  <2>2. key[e][i] \in Int
    OBVIOUS
  <2> QED
    BY <2>1, <2>2
<1>2. ASSUME NEW e \in S, NEW f \in S, e # f PROVE <<e, f>> \in R \/ <<f, e>> \in R
  <2> DEFINE D == {i \in 1..m : key[e][i] # key[f][i]}
  <2>1. D # {}
    <3>1. SUFFICES ASSUME \A i \in 1..m : key[e][i] = key[f][i] PROVE FALSE
      OBVIOUS
    <3>2. key[e] = key[f]
      BY <3>1
    <3> QED
      BY <1>2, <3>2
  <2>2. D \in SUBSET Nat
    OBVIOUS
  <2>3. PICK i \in D : \A j \in D : i <= j
    <3> HIDE DEF D
    <3> QED
      BY <2>1, <2>2, Least
  <2>4. i \in 1..m /\ key[e][i] \in Int /\ key[f][i] \in Int /\ key[e][i] # key[f][i]
    OBVIOUS
  <2>5. ASSUME NEW j \in 1..(i - 1) PROVE key[e][j] = key[f][j]
    <3>1. j \in 1..m /\ ~ (i <= j)
      BY <2>4
    <3> QED
      BY <2>3, <3>1
  <2> HIDE DEF D
  <2>6. CASE key[e][i] < key[f][i]
    BY <2>4, <2>5, <2>6 DEF ByKeys
  <2>7. CASE key[f][i] < key[e][i]
    BY <2>4, <2>5, <2>7 DEF ByKeys
  <2> QED
    BY <2>4, <2>6, <2>7
<1>3. ASSUME NEW e \in S, NEW f \in S, NEW g \in S, <<e, f>> \in R, <<f, g>> \in R
      PROVE <<e, g>> \in R
  <2>1. PICK i \in 1..m : /\ key[e][i] < key[f][i]
                          /\ \A j \in 1..(i - 1) : key[e][j] = key[f][j]
    BY <1>3 DEF ByKeys
  <2>2. PICK k \in 1..m : /\ key[f][k] < key[g][k]
                          /\ \A j \in 1..(k - 1) : key[f][j] = key[g][j]
    BY <1>3 DEF ByKeys
  <2>3. /\ key[e][i] \in Int /\ key[f][i] \in Int /\ key[g][i] \in Int
        /\ key[e][k] \in Int /\ key[f][k] \in Int /\ key[g][k] \in Int
    OBVIOUS
  <2>4. CASE i <= k
    <3>1. key[e][i] < key[g][i]
      BY <2>1, <2>2, <2>3, <2>4
    <3>2. ASSUME NEW j \in 1..(i - 1) PROVE key[e][j] = key[g][j]
      <4>1. j \in 1..(k - 1)
        BY <2>4
      <4> QED
        BY <2>1, <2>2, <4>1
    <3> QED
      BY <3>1, <3>2 DEF ByKeys
  <2>5. CASE k < i
    <3>1. key[e][k] < key[g][k]
      BY <2>1, <2>2, <2>3, <2>5
    <3>2. ASSUME NEW j \in 1..(k - 1) PROVE key[e][j] = key[g][j]
      <4>1. j \in 1..(i - 1)
        BY <2>5
      <4> QED
        BY <2>1, <2>2, <4>1
    <3> QED
      BY <3>1, <3>2 DEF ByKeys
  <2> QED
    BY <2>4, <2>5
<1> QED
  BY <1>1, <1>2, <1>3 DEF StrictOrder

\* The elements of a set in an order are a sequence of them.
LEMMA Elements ==
  ASSUME NEW S, NEW R, IsFiniteSet(S), StrictOrder(S, R)
  PROVE  LET s == Ordered(S, R)
         IN  /\ s \in Seq(S) /\ Len(s) = Cardinality(S)
             /\ \A e \in S : \E i \in 1..Len(s) : s[i] = e
             /\ \A i, j \in 1..Len(s) : i < j => <<s[i], s[j]>> \in R /\ s[i] # s[j]
<1> DEFINE n == Cardinality(S)
           s == Ordered(S, R)
<1>1. /\ n \in Nat /\ s \in [1..n -> S]
      /\ \A e \in S : \E i \in 1..n : s[i] = e
      /\ \A i, j \in 1..n : i < j => <<s[i], s[j]>> \in R /\ s[i] # s[j]
  BY Ordering
<1>2. n = Cardinality(S) /\ s = Ordered(S, R)
  OBVIOUS
<1> HIDE DEF s, n
<1>3. s \in Seq(S) /\ Len(s) = n
  BY <1>1
<1> QED
  BY <1>1, <1>2, <1>3

\* An authority has a rank.
LEMMA Authority ==
  \A a : AuthorityRank(a) \in 1..8
<1>1. DOMAIN Tiers = 1..7 /\ Len(Tiers) = 7
  BY DEF Tiers
<1> HIDE DEF Tiers
<1>2. ASSUME NEW a, a \in ToSet(Tiers) PROVE \E i \in DOMAIN Tiers : Tiers[i] = a
  BY <1>2 DEF ToSet
<1> QED
  BY <1>1, <1>2 DEF AuthorityRank
-----------------------------------------------------------------------------
(* Chunks.                                                                 *)

\* The chunks that a search of some roots may have found since the request began.
Under(roots) == {c \in Chunk : RootOf(c) \in roots /\ c.rev \in past[c.doc]}

\* The text of a document is a sequence of chunks.
LEMMA BodySequence ==
  ASSUME NEW d \in Docs, NEW r \in Revisions
  PROVE  /\ DOMAIN Body[d][r] = 1..Len(Body[d][r]) /\ Len(Body[d][r]) \in Nat
         /\ \A i \in DOMAIN Body[d][r] :
              /\ IsFiniteSet(Body[d][r][i].terms) /\ IsFiniteSet(Body[d][r][i].signals)
              /\ Body[d][r][i].apis \in Seq(Names)
<1> DEFINE s == Body[d][r]
<1>1. s \in Seq(ToSet(s))
  BY RetrievalAssumption DEF CorpusAssumption, Sequence
<1>2. \A c \in ToSet(s) : /\ IsFiniteSet(c.terms) /\ IsFiniteSet(c.signals)
                          /\ c.apis \in Seq(Names)
  BY RetrievalAssumption DEF CorpusAssumption
<1>3. \A i \in DOMAIN s : s[i] \in ToSet(s)
  BY DEF ToSet
<1> HIDE DEF s
<1>4. DOMAIN s = 1..Len(s) /\ Len(s) \in Nat
  BY <1>1
<1> QED
  BY <1>2, <1>3, <1>4 DEF s

\* The text of a chunk has finitely many terms.
LEMMA ChunkText ==
  ASSUME NEW c \in Chunk
  PROVE  /\ c.doc \in Docs /\ c.rev \in Revisions /\ c.ord \in Nat \ {0}
         /\ IsFiniteSet(Text(c).terms) /\ IsFiniteSet(Text(c).signals)
         /\ Text(c).apis \in Seq(Names)
<1>1. /\ c.doc \in Docs /\ c.rev \in Revisions /\ c.ord \in Nat \ {0}
      /\ c.ord \in DOMAIN Body[c.doc][c.rev]
  BY DEF Chunk
<1> QED
  BY <1>1, BodySequence DEF Text

\* The chunks of a document are stored, distinct and in its root.
LEMMA DocumentChunks ==
  ASSUME TablesTypeOK, NEW d \in Docs
  PROVE  /\ ChunksOf(d) \in Seq({c \in Chunk : c.doc = d /\ Stored(c)})
         /\ IsFiniteSet(ToSet(ChunksOf(d)))
<1> DEFINE s == ChunksOf(d)
           X == {c \in Chunk : c.doc = d /\ Stored(c)}
<1>1. CASE corpus[d] = 0
  <2>1. s = <<>>
    BY <1>1 DEF ChunksOf
  <2>2. ToSet(s) = {}
    BY <2>1 DEF ToSet
  <2>3. IsFiniteSet(ToSet(s))
    BY <2>2, FS_EmptySet
  <2>4. s \in Seq(X)
    <3> HIDE DEF X, s
    <3> QED
      BY <2>1
  <2> QED
    BY <2>3, <2>4
<1>2. CASE corpus[d] # 0
  <2> DEFINE r == corpus[d]
             n == Len(Body[d][r])
             chunk(i) == [doc |-> d, rev |-> r, ord |-> i]
  <2>1. r \in Revisions
    BY <1>2 DEF TablesTypeOK
  <2>2. DOMAIN Body[d][r] = 1..n /\ n \in Nat
    BY <2>1, BodySequence
  <2>3. s = [i \in 1..n |-> chunk(i)]
    BY <1>2, <2>2 DEF ChunksOf
  <2>4. ASSUME NEW i \in 1..n PROVE chunk(i) \in X
    <3>1. i \in Nat \ {0} /\ i \in DOMAIN Body[d][r]
      BY <2>2
    <3>2. chunk(i) \in Chunk
      BY <2>1, <3>1 DEF Chunk
    <3> QED
      BY <3>2 DEF Stored
  <2> HIDE DEF X, n, chunk, s
  <2>5. s \in Seq(X) /\ DOMAIN s = 1..n
    BY <2>2, <2>3, <2>4
  <2>6. IsFiniteSet(1..n)
    BY <2>2, FS_Interval
  <2>7. IsFiniteSet({s[i] : i \in 1..n})
    BY <2>6, Image
  <2>8. ToSet(s) = {s[i] : i \in 1..n}
    BY <2>5 DEF ToSet
  <2> QED
    BY <2>5, <2>7, <2>8 DEF s, X
<1> QED
  BY <1>1, <1>2

\* The chunks of some roots are finitely many.
LEMMA RootChunks ==
  ASSUME TablesTypeOK, NEW roots
  PROVE  /\ IsFiniteSet(ChunksIn(roots)) /\ ChunksIn(roots) \subseteq Under(roots)
         /\ \A c \in ChunksIn(roots) : Stored(c)
<1> DEFINE of == [d \in Docs |-> ToSet(ChunksOf(d))]
           T == {of[d] : d \in Docs}
           X == {c \in Chunk : Stored(c)}
<1>1. ChunksIn(roots) = {c \in UNION T : RootOf(c) \in roots}
  BY DEF ChunksIn
<1>2. IsFiniteSet(Docs)
  BY RetrievalAssumption DEF CorpusAssumption
<1>3. \A d \in Docs : IsFiniteSet(of[d]) /\ of[d] \subseteq X
  <2>1. SUFFICES ASSUME NEW d \in Docs PROVE IsFiniteSet(of[d]) /\ of[d] \subseteq X
    OBVIOUS
  <2> DEFINE s == ChunksOf(d)
             Y == {c \in Chunk : c.doc = d /\ Stored(c)}
  <2>2. s \in Seq(Y) /\ IsFiniteSet(ToSet(s))
    BY DocumentChunks
  <2>3. ToSet(s) \subseteq Y
    <3> HIDE DEF s, Y
    <3> QED
      BY <2>2 DEF ToSet
  <2> QED
    BY <2>2, <2>3
<1>4. IsFiniteSet(T)
  <2> HIDE DEF of
  <2> QED
    BY <1>2, Image
<1>5. IsFiniteSet(UNION T) /\ UNION T \subseteq X
  <2>1. \A t \in T : IsFiniteSet(t) /\ t \subseteq X
    BY <1>3
  <2> HIDE DEF T, X
  <2> QED
    BY <1>4, <2>1, FS_UNION
<1> HIDE DEF T
<1>6. ChunksIn(roots) \in SUBSET (UNION T)
  BY <1>1
<1>7. IsFiniteSet(ChunksIn(roots))
  BY <1>5, <1>6, FS_Subset
<1>8. \A c \in ChunksIn(roots) : c \in Under(roots) /\ Stored(c)
  <2>1. \A c \in X : c.doc \in Docs /\ c.rev \in Revisions /\ c.rev # 0
    BY ChunkText, RetrievalAssumption DEF CorpusAssumption
  <2>2. \A c \in X : c.rev \in past[c.doc]
    BY <2>1 DEF Stored, TablesTypeOK
  <2> QED
    BY <1>1, <1>5, <2>2 DEF Under
<1> QED
  BY <1>7, <1>8

\* The text order, and the order of the ranking for any score.
LEMMA TextOrder ==
  ASSUME NEW S \in SUBSET Chunk
  PROVE  StrictOrder(S, {p \in S \X S : \/ Bm25[p[1].doc] > Bm25[p[2].doc]
                                        \/ Before(p[1], p[2])})
<1> DEFINE R == {p \in S \X S : \/ Bm25[p[1].doc] > Bm25[p[2].doc]
                                \/ Before(p[1], p[2])}
           key == [c \in S |-> [i \in 1..3 |-> CASE i = 1 -> 0 - Bm25[c.doc]
                                                 [] i = 2 -> c.rev
                                                 [] OTHER -> c.ord]]
<1>1. \A c \in S : /\ c.doc \in Docs /\ c.rev \in Int /\ c.ord \in Int
                   /\ Bm25[c.doc] \in Int
                   /\ c = [doc |-> c.doc, rev |-> c.rev, ord |-> c.ord]
  <2>1. SUFFICES ASSUME NEW c \in S
                 PROVE  /\ c.doc \in Docs /\ c.rev \in Int /\ c.ord \in Int
                        /\ Bm25[c.doc] \in Int
                        /\ c = [doc |-> c.doc, rev |-> c.rev, ord |-> c.ord]
    BY Zenon
  <2>2. c \in [doc : Docs, rev : Revisions, ord : Nat \ {0}]
    BY DEF Chunk
  <2>3. c.doc \in Docs /\ c.rev \in Revisions /\ c.ord \in Nat \ {0}
        /\ c = [doc |-> c.doc, rev |-> c.rev, ord |-> c.ord]
    BY <2>2
  <2>4. Revisions \subseteq Nat /\ Bm25[c.doc] \in Int
    BY <2>3, RetrievalAssumption DEF CorpusAssumption, OrderAssumption
  <2> QED
    BY <2>3, <2>4
<1>2. \A c, d \in S : Bm25[c.doc] = Bm25[d.doc] => c.doc = d.doc
  BY <1>1, RetrievalAssumption DEF OrderAssumption
<1>3. key \in [S -> [1..3 -> Int]]
  BY <1>1
<1>4. \A c \in S : key[c][1] = 0 - Bm25[c.doc] /\ key[c][2] = c.rev /\ key[c][3] = c.ord
  OBVIOUS
<1>5. ByKeys(S, R, 3, key)
  <2>1. SUFFICES ASSUME NEW c \in S, NEW d \in S
                 PROVE  <<c, d>> \in R <=>
                          \E i \in 1..3 : /\ key[c][i] < key[d][i]
                                          /\ \A j \in 1..(i - 1) : key[c][j] = key[d][j]
    BY DEF ByKeys
  <2>2. <<c, d>> \in R <=> Bm25[c.doc] > Bm25[d.doc] \/ Before(c, d)
    OBVIOUS
  <2> HIDE DEF key, R
  <2>3. (\E i \in 1..3 : /\ key[c][i] < key[d][i]
                         /\ \A j \in 1..(i - 1) : key[c][j] = key[d][j])
          <=> \/ key[c][1] < key[d][1]
              \/ key[c][1] = key[d][1] /\ key[c][2] < key[d][2]
              \/ key[c][1] = key[d][1] /\ key[c][2] = key[d][2] /\ key[c][3] < key[d][3]
    OBVIOUS
  <2> QED
    BY <1>1, <1>2, <1>4, <2>2, <2>3 DEF Before
<1>6. \A c, d \in S : key[c] = key[d] => c = d
  <2>1. SUFFICES ASSUME NEW c \in S, NEW d \in S, key[c] = key[d] PROVE c = d
    OBVIOUS
  <2> HIDE DEF key
  <2>2. c.doc = d.doc /\ c.rev = d.rev /\ c.ord = d.ord
    BY <1>1, <1>2, <1>4, <2>1
  <2> QED
    BY <1>1, <2>2
<1> HIDE DEF key, R
<1>7. StrictOrder(S, R)
  BY <1>3, <1>5, <1>6, KeyOrder
<1> QED
  BY <1>7 DEF R

\* Tier, score and place rank the chunks without ties.
LEMMA RankingOrder ==
  ASSUME NEW S \in SUBSET Chunk, NEW scores \in [S -> Int]
  PROVE  StrictOrder(S, {p \in S \X S : Ahead(p[1], p[2], scores)})
<1> DEFINE R == {p \in S \X S : Ahead(p[1], p[2], scores)}
           tier == [c \in S |-> AuthorityRank(Row(c).authority)]
           bm25 == [c \in S |-> Bm25[c.doc]]
           key == [c \in S |-> [i \in 1..5 |-> CASE i = 1 -> tier[c]
                                                 [] i = 2 -> 0 - scores[c]
                                                 [] i = 3 -> 0 - bm25[c]
                                                 [] i = 4 -> c.rev
                                                 [] OTHER -> c.ord]]
<1>1. ASSUME NEW c \in S
      PROVE  /\ tier[c] \in Int /\ scores[c] \in Int /\ bm25[c] \in Int
             /\ c.doc \in Docs /\ c.rev \in Int /\ c.ord \in Int
             /\ c = [doc |-> c.doc, rev |-> c.rev, ord |-> c.ord]
  <2>1. c \in [doc : Docs, rev : Revisions, ord : Nat \ {0}]
    BY DEF Chunk
  <2>2. c.doc \in Docs /\ c.rev \in Revisions /\ c.ord \in Nat \ {0}
        /\ c = [doc |-> c.doc, rev |-> c.rev, ord |-> c.ord]
    BY <2>1
  <2>3. Revisions \subseteq Nat /\ Bm25[c.doc] \in Int
    BY <2>2, RetrievalAssumption DEF CorpusAssumption, OrderAssumption
  <2>4. tier[c] \in 1..8
    BY Authority
  <2> QED
    BY <2>2, <2>3, <2>4
<1>2. ASSUME NEW c \in S, NEW d \in S
      PROVE  (bm25[c] = bm25[d] => c.doc = d.doc) /\ (c.doc = d.doc => bm25[c] = bm25[d])
  BY <1>1, RetrievalAssumption DEF OrderAssumption
<1>3. ASSUME NEW c \in S, NEW d \in S
      PROVE  <<c, d>> \in R <=>
               \/ tier[c] < tier[d]
               \/ tier[c] = tier[d] /\ scores[c] > scores[d]
               \/ tier[c] = tier[d] /\ scores[c] = scores[d] /\ bm25[c] > bm25[d]
               \/ /\ tier[c] = tier[d] /\ scores[c] = scores[d] /\ c.doc = d.doc
                  /\ c.rev < d.rev \/ (c.rev = d.rev /\ c.ord < d.ord)
  <2>1. <<c, d>> \in R <=> Ahead(c, d, scores)
    OBVIOUS
  <2> HIDE DEF R
  <2> QED
    BY <2>1 DEF Ahead, Before
<1>4. \A c \in S : /\ key[c][1] = tier[c] /\ key[c][2] = 0 - scores[c]
                   /\ key[c][3] = 0 - bm25[c] /\ key[c][4] = c.rev /\ key[c][5] = c.ord
  <2> HIDE DEF tier, bm25
  <2> QED
    OBVIOUS
<1> HIDE DEF R, tier, bm25
<1>5. key \in [S -> [1..5 -> Int]]
  BY <1>1
<1>6. ByKeys(S, R, 5, key)
  <2>1. SUFFICES ASSUME NEW c \in S, NEW d \in S
                 PROVE  <<c, d>> \in R <=>
                          \E i \in 1..5 : /\ key[c][i] < key[d][i]
                                          /\ \A j \in 1..(i - 1) : key[c][j] = key[d][j]
    BY DEF ByKeys
  <2> HIDE DEF key
  <2>2. (\E i \in 1..5 : /\ key[c][i] < key[d][i]
                         /\ \A j \in 1..(i - 1) : key[c][j] = key[d][j])
          <=> \/ key[c][1] < key[d][1]
              \/ key[c][1] = key[d][1] /\ key[c][2] < key[d][2]
              \/ key[c][1] = key[d][1] /\ key[c][2] = key[d][2] /\ key[c][3] < key[d][3]
              \/ /\ key[c][1] = key[d][1] /\ key[c][2] = key[d][2] /\ key[c][3] = key[d][3]
                 /\ key[c][4] < key[d][4]
              \/ /\ key[c][1] = key[d][1] /\ key[c][2] = key[d][2] /\ key[c][3] = key[d][3]
                 /\ key[c][4] = key[d][4] /\ key[c][5] < key[d][5]
    OBVIOUS
  <2>3. /\ tier[c] \in Int /\ scores[c] \in Int /\ bm25[c] \in Int /\ c.rev \in Int /\ c.ord \in Int
        /\ tier[d] \in Int /\ scores[d] \in Int /\ bm25[d] \in Int /\ d.rev \in Int /\ d.ord \in Int
    BY <1>1
  <2>4. /\ key[c][1] = tier[c] /\ key[c][2] = 0 - scores[c]
        /\ key[c][3] = 0 - bm25[c] /\ key[c][4] = c.rev /\ key[c][5] = c.ord
        /\ key[d][1] = tier[d] /\ key[d][2] = 0 - scores[d]
        /\ key[d][3] = 0 - bm25[d] /\ key[d][4] = d.rev /\ key[d][5] = d.ord
    BY <1>4
  <2>5. bm25[c] = bm25[d] <=> c.doc = d.doc
    BY <1>2
  <2>6. <<c, d>> \in R <=>
               \/ tier[c] < tier[d]
               \/ tier[c] = tier[d] /\ scores[c] > scores[d]
               \/ tier[c] = tier[d] /\ scores[c] = scores[d] /\ bm25[c] > bm25[d]
               \/ /\ tier[c] = tier[d] /\ scores[c] = scores[d] /\ c.doc = d.doc
                  /\ c.rev < d.rev \/ (c.rev = d.rev /\ c.ord < d.ord)
    BY <1>3
  <2> QED
    BY <2>2, <2>3, <2>4, <2>5, <2>6
<1>7. \A c, d \in S : key[c] = key[d] => c = d
  <2>1. SUFFICES ASSUME NEW c \in S, NEW d \in S, key[c] = key[d] PROVE c = d
    OBVIOUS
  <2> HIDE DEF key
  <2>2. bm25[c] = bm25[d] /\ c.rev = d.rev /\ c.ord = d.ord
    BY <1>1, <1>4, <2>1
  <2>3. c.doc = d.doc
    BY <1>2, <2>2
  <2> QED
    BY <1>1, <2>2, <2>3
<1> HIDE DEF key
<1>8. StrictOrder(S, R)
  BY <1>5, <1>6, <1>7, KeyOrder
<1> QED
  BY <1>8 DEF R

\* The first of the elements of a set in an order.
LEMMA Best ==
  ASSUME NEW S, NEW R, IsFiniteSet(S), StrictOrder(S, R), NEW n \in Nat
  PROVE  LET s == First(n, Ordered(S, R))
         IN  /\ s \in Seq(S) /\ Len(s) <= n
             /\ ToSet(s) \subseteq S /\ IsFiniteSet(ToSet(s))
             /\ n > 0 /\ S # {} => ToSet(s) # {}
<1> DEFINE all == Ordered(S, R)
           s == First(n, all)
<1>1. all \in Seq(S) /\ \A e \in S : \E i \in 1..Len(all) : all[i] = e
  BY Elements
<1> HIDE DEF all
<1>2. /\ s \in Seq(S) /\ Len(s) = IF Len(all) < n THEN Len(all) ELSE n
  BY <1>1, FirstElements
<1>3. Len(all) \in Nat
  BY <1>1
<1> HIDE DEF s
<1>4. ToSet(s) \subseteq S /\ Len(s) <= n
  BY <1>2, <1>3 DEF ToSet
<1>5. IsFiniteSet(ToSet(s))
  BY <1>4, FS_Subset
<1>6. ASSUME n > 0, S # {} PROVE ToSet(s) # {}
  <2>1. Len(s) >= 1
    BY <1>1, <1>2, <1>3, <1>6
  <2>2. s[1] \in ToSet(s)
    BY <1>2, <2>1 DEF ToSet
  <2> QED
    BY <2>2
<1> QED
  BY <1>2, <1>4, <1>5, <1>6 DEF s, all

\* What a full-text statement returns.
LEMMA TextHits ==
  ASSUME NEW C \in SUBSET Chunk, IsFiniteSet(C), NEW n \in Nat
  PROVE  /\ TopText(n, C) \subseteq C /\ IsFiniteSet(TopText(n, C))
         /\ n > 0 /\ C # {} => TopText(n, C) # {}
<1> DEFINE R == {p \in C \X C : \/ Bm25[p[1].doc] > Bm25[p[2].doc]
                                \/ Before(p[1], p[2])}
<1>1. StrictOrder(C, R)
  BY TextOrder
<1>2. TopText(n, C) = ToSet(First(n, Ordered(C, R)))
  BY DEF TopText, Sorted
<1> HIDE DEF R
<1> QED
  BY <1>1, <1>2, Best

\* A set of chunks in the order of scores.
LEMMA RankedChunks ==
  ASSUME NEW C \in SUBSET Chunk, IsFiniteSet(C), NEW scores \in [C -> Int]
  PROVE  LET s == Sorted(C, LAMBDA c, d : Ahead(c, d, scores))
         IN  /\ s \in Seq(C) /\ Len(s) = Cardinality(C)
             /\ \A e \in C : \E i \in 1..Len(s) : s[i] = e
<1> DEFINE R == {p \in C \X C : Ahead(p[1], p[2], scores)}
           s == Sorted(C, LAMBDA c, d : Ahead(c, d, scores))
<1>1. StrictOrder(C, R)
  BY RankingOrder
<1>2. s = Ordered(C, R)
  BY DEF Sorted
<1> HIDE DEF R, s
<1> DEFINE o == Ordered(C, R)
<1>4. /\ o \in Seq(C) /\ Len(o) = Cardinality(C)
      /\ \A e \in C : \E i \in 1..Len(o) : o[i] = e
  BY <1>1, Elements
<1>3. /\ s \in Seq(C) /\ Len(s) = Cardinality(C)
      /\ \A e \in C : \E i \in 1..Len(s) : s[i] = e
  BY <1>2, <1>4
<1> QED
  BY <1>3 DEF s

\* A score is a number.
LEMMA Scores ==
  ASSUME NEW c \in Chunk, NEW query
  PROVE  Score(c, query) \in Int /\ Bias(c, query) \in Int
<1>1. Bm25[c.doc] \in Int
  BY ChunkText, RetrievalAssumption DEF OrderAssumption
<1> DEFINE titled == IF c.doc \in query.titled THEN 28 ELSE 0
           archived == IF Row(c).archived THEN 25 ELSE 0
           v == Row(c).version
           version == CASE query.version = NoVersion \/ v = NoVersion -> 0
                        [] query.version # NoVersion /\ v = query.version -> 5
                        [] OTHER -> -8
           r == query.roles[RootOf(c)]
           role == CASE r \in {"official_documentation", "official_example"} -> 2
                     [] r \in {"curated_knowledge", "current_project"} -> 1
                     [] OTHER -> 0
           project == IF RootOf(c) = query.project THEN 4 ELSE 0
<1>2. titled \in Int /\ archived \in Int /\ project \in Int
  OBVIOUS
<1>3. version \in Int
  <2> HIDE DEF v
  <2>1. CASE query.version = NoVersion \/ v = NoVersion
    <3>1. version = 0
      BY <2>1
    <3> QED
      BY <3>1
  <2>2. CASE query.version # NoVersion /\ v # NoVersion /\ v = query.version
    <3>1. version = 5
      BY <2>2
    <3> QED
      BY <3>1
  <2>3. CASE query.version # NoVersion /\ v # NoVersion /\ v # query.version
    <3>1. version = -8
      BY <2>3
    <3> QED
      BY <3>1
  <2> QED
    BY <2>1, <2>2, <2>3
<1>4. role \in Int
  <2> HIDE DEF r
  <2>1. role \in {0, 1, 2}
    OBVIOUS
  <2> QED
    BY <2>1
<1>5. Score(c, query) = Bm25[c.doc] + titled - archived + version
  BY DEF Score
<1>6. Bias(c, query) = role + project
  BY DEF Bias
<1> HIDE DEF titled, archived, version, role, project
<1> QED
  BY <1>1, <1>2, <1>3, <1>4, <1>5, <1>6

\* What the statements of a search return lies under its roots; the text
\* search finds something when there is something.
LEMMA TextSearch ==
  ASSUME TablesTypeOK, NEW query, NEW roots, NEW n \in Nat
  PROVE  /\ FullText(query, roots, n) \subseteq ChunksIn(roots)
         /\ AnyText(query, roots, n) \subseteq ChunksIn(roots)
         /\ ByTitle(query, roots) \subseteq ChunksIn(roots)
         /\ (n > 0 /\ \E c \in ChunksIn(roots) : query.terms \cap Text(c).terms # {})
              => AnyText(query, roots, n) # {}
<1> DEFINE all == {c \in ChunksIn(roots) : query.terms \subseteq Text(c).terms}
           any == {c \in ChunksIn(roots) : query.terms \cap Text(c).terms # {}}
<1>1. IsFiniteSet(ChunksIn(roots)) /\ ChunksIn(roots) \subseteq Chunk
  BY RootChunks DEF Under
<1>2. all \in SUBSET ChunksIn(roots) /\ any \in SUBSET ChunksIn(roots)
  OBVIOUS
<1>3. /\ all \in SUBSET Chunk /\ any \in SUBSET Chunk /\ IsFiniteSet(all) /\ IsFiniteSet(any)
  <2> HIDE DEF all, any
  <2>1. IsFiniteSet(all)
    BY <1>1, <1>2, FS_Subset
  <2>2. IsFiniteSet(any)
    BY <1>1, <1>2, FS_Subset
  <2> QED
    BY <1>1, <1>2, <2>1, <2>2
<1>4. FullText(query, roots, n) = TopText(n, all) /\ AnyText(query, roots, n) = TopText(n, any)
  BY DEF FullText, AnyText
<1>5. (\E c \in ChunksIn(roots) : query.terms \cap Text(c).terms # {}) => any # {}
  OBVIOUS
<1>6. ByTitle(query, roots) \subseteq ChunksIn(roots)
  BY DEF ByTitle
<1> HIDE DEF all, any
<1>7. TopText(n, all) \subseteq all
  BY <1>3, TextHits
<1>8. TopText(n, any) \subseteq any /\ (n > 0 /\ any # {} => TopText(n, any) # {})
  BY <1>3, TextHits
<1> QED
  BY <1>2, <1>4, <1>5, <1>6, <1>7, <1>8

\* What the postings and vectors return.
LEMMA VectorSearch ==
  ASSUME TablesTypeOK, NEW query, IsFiniteSet(query.terms), NEW roots, NEW terms, NEW n \in Nat
  PROVE  ByVector(query, roots, terms, n) \subseteq ChunksIn(roots)
<1> DEFINE C == {c \in ChunksIn(roots) : terms \cap Text(c).terms # {} /\ Similar(c, query)}
           shared(c) == Cardinality(query.terms \cap Text(c).terms)
           scores == [c \in C |-> shared(c)]
           s == Sorted(C, LAMBDA c, d : Ahead(c, d, scores))
<1>1. IsFiniteSet(ChunksIn(roots)) /\ ChunksIn(roots) \subseteq Chunk
  BY RootChunks DEF Under
<1>2. C \in SUBSET ChunksIn(roots)
  OBVIOUS
<1>3. IsFiniteSet(C) /\ C \in SUBSET Chunk
  <2> HIDE DEF C
  <2> QED
    BY <1>1, <1>2, FS_Subset
<1>4. scores \in [C -> Int]
  <2>1. \A c : query.terms \cap Text(c).terms \in SUBSET query.terms
    OBVIOUS
  <2>2. \A c : shared(c) \in Nat
    BY <2>1, FS_Subset, FS_CardinalityType
  <2> HIDE DEF C, shared
  <2> QED
    BY <2>2
<1>5. ByVector(query, roots, terms, n) = ToSet(First(n, s))
  BY DEF ByVector, Ranked
<1>6. s \in Seq(C)
  <2> HIDE DEF C, scores
  <2> QED
    BY <1>3, <1>4, RankedChunks
<1> HIDE DEF C, s
<1>7. First(n, s) \in Seq(C)
  BY <1>6, FirstElements
<1>8. ToSet(First(n, s)) \subseteq C
  BY <1>7 DEF ToSet
<1> QED
  BY <1>2, <1>5, <1>8

\* Of what is not empty at least one is kept.
LEMMA Diversified ==
  ASSUME NEW X, NEW s \in Seq(X), NEW n \in Nat \ {0}
  PROVE  Diversify(s, n) \in Seq(X) /\ (s # <<>> => Diversify(s, n) # <<>>)
<1> DEFINE few(i) == Cardinality({j \in 1..(i - 1) : s[j].doc = s[i].doc})
           I == {i \in 1..Len(s) : few(i) < MaxPerDocument}
           t == At(s, I)
<1>1. Diversify(s, n) = First(n, t)
  <2>1. DOMAIN s = 1..Len(s)
    OBVIOUS
  <2> QED
    BY <2>1 DEF Diversify
<1>2. I \in SUBSET (1..Len(s))
  OBVIOUS
<1>3. s # <<>> => 1 \in I
  <2>1. SUFFICES ASSUME s # <<>> PROVE 1 \in I
    OBVIOUS
  <2>2. 1 \in 1..Len(s)
    BY <2>1
  <2>3. {j \in 1..(1 - 1) : s[j].doc = s[1].doc} = {}
    OBVIOUS
  <2>4. few(1) = 0
    BY <2>3, FS_EmptySet
  <2>5. MaxPerDocument \in Nat \ {0}
    BY RetrievalAssumption
  <2> HIDE DEF few
  <2> QED
    BY <2>2, <2>4, <2>5
<1> HIDE DEF I
<1>4. t \in Seq(X) /\ Len(t) = Cardinality(I)
  BY <1>2, Selection
<1>5. I # {} => Cardinality(I) \in Nat \ {0}
  <2>1. IsFiniteSet(1..Len(s))
    <3>1. Len(s) \in Nat
      OBVIOUS
    <3> QED
      BY <3>1, FS_Interval
  <2>2. IsFiniteSet(I)
    BY <1>2, <2>1, FS_Subset
  <2> QED
    BY <2>2, FS_EmptySet, FS_CardinalityType
<1> HIDE DEF t
<1>6. First(n, t) \in Seq(X) /\ Len(First(n, t)) = IF Len(t) < n THEN Len(t) ELSE n
  BY <1>4, FirstElements
<1>7. s # <<>> => Len(First(n, t)) >= 1
  BY <1>3, <1>4, <1>5, <1>6
<1> QED
  BY <1>1, <1>6, <1>7
-----------------------------------------------------------------------------
(* Symbols and recipes.                                                    *)

\* The symbols of some documents are finitely many.
LEMMA DocumentSymbols ==
  ASSUME TablesTypeOK, NEW docs \in SUBSET Docs
  PROVE  /\ IsFiniteSet(SymbolsIn(docs))
         /\ SymbolsIn(docs) \subseteq {s \in Symbol : s.doc \in docs /\ s.rev = corpus[s.doc]}
<1> DEFINE D == {d \in docs : corpus[d] # 0}
           rows(d) == {[doc |-> d, rev |-> corpus[d], name |-> s.name, kind |-> s.kind] :
                       s \in SymbolsOf[d]}
           of == [d \in D |-> rows(d)]
           T == {of[d] : d \in D}
           X == {s \in Symbol : s.doc \in docs /\ s.rev = corpus[s.doc]}
<1>1. SymbolsIn(docs) = UNION T
  <2>1. SymbolsIn(docs) = UNION {rows(d) : d \in D}
    BY Zenon DEF SymbolsIn
  <2> HIDE DEF rows, D
  <2>2. \A d \in D : of[d] = rows(d)
    OBVIOUS
  <2>3. T = {rows(d) : d \in D}
    BY <2>2
  <2> QED
    BY <2>1, <2>3
<1>2. IsFiniteSet(D)
  <2>1. D \in SUBSET Docs /\ IsFiniteSet(Docs)
    BY RetrievalAssumption DEF CorpusAssumption
  <2> HIDE DEF D
  <2> QED
    BY <2>1, FS_Subset
<1>3. \A d \in D : IsFiniteSet(of[d]) /\ of[d] \subseteq X
  <2>1. SUFFICES ASSUME NEW d \in D PROVE IsFiniteSet(of[d]) /\ of[d] \subseteq X
    OBVIOUS
  <2> DEFINE row == [s \in SymbolsOf[d] |->
                      [doc |-> d, rev |-> corpus[d], name |-> s.name, kind |-> s.kind]]
  <2>2. d \in Docs /\ corpus[d] \in Revisions
    BY DEF TablesTypeOK
  <2>3. IsFiniteSet(SymbolsOf[d]) /\ SymbolsOf[d] \subseteq [name : Names, kind : Kinds]
    BY <2>2, RetrievalAssumption DEF CorpusAssumption
  <2>4. of[d] = {row[s] : s \in SymbolsOf[d]}
    OBVIOUS
  <2>5. \A s \in SymbolsOf[d] : row[s] \in X
    BY <2>2, <2>3 DEF Symbol
  <2> HIDE DEF row, of
  <2> QED
    BY <2>3, <2>4, <2>5, Image
<1>4. IsFiniteSet(T)
  <2> HIDE DEF D, of
  <2> QED
    BY <1>2, Image
<1>5. IsFiniteSet(UNION T) /\ UNION T \subseteq X
  <2>1. \A t \in T : IsFiniteSet(t) /\ t \subseteq X
    BY <1>3
  <2> HIDE DEF T, X
  <2> QED
    BY <1>4, <2>1, FS_UNION
<1> QED
  BY <1>1, <1>5

\* Kind, authority, document and name order the symbols without ties.
LEMMA SymbolOrder ==
  ASSUME TablesTypeOK, NEW S, IsFiniteSet(S), S \subseteq SymbolsIn(Docs), NEW n \in Nat
  PROVE  SymbolRows(n, S) \in Seq(S)
<1> DEFINE key(s) == <<KindRank[s.kind], AuthorityRank(Row(s).authority), Rank[s.doc],
                       Rank[s.name]>>
           less(s, t) == \E i \in 1..4 : /\ key(s)[i] < key(t)[i]
                                         /\ \A j \in 1..(i - 1) : key(s)[j] = key(t)[j]
           R == {p \in S \X S : less(p[1], p[2])}
           keys == [s \in S |-> key(s)]
<1>1. \A s \in S : s \in Symbol /\ s.rev = corpus[s.doc]
  BY DocumentSymbols
<1>2. ASSUME NEW s \in S
      PROVE  /\ s.doc \in Docs /\ s.name \in Names /\ s.kind \in Kinds
             /\ s = [doc |-> s.doc, rev |-> s.rev, name |-> s.name, kind |-> s.kind]
  BY <1>1 DEF Symbol
<1>3. \A k \in Kinds : KindRank[k] \in Int
  BY DEF Kinds, KindRank
<1>4. \A k, l \in Kinds : KindRank[k] = KindRank[l] => k = l
  BY DEF Kinds, KindRank
<1>5. ASSUME NEW s \in S PROVE key(s) \in [1..4 -> Int]
  <2>1. Rank[s.doc] \in Int /\ Rank[s.name] \in Int
    BY <1>2, RetrievalAssumption DEF OrderAssumption
  <2>2. AuthorityRank(Row(s).authority) \in Int
    <3>1. AuthorityRank(Row(s).authority) \in 1..8
      BY Authority
    <3> QED
      BY <3>1
  <2>3. KindRank[s.kind] \in Int
    BY <1>2, <1>3
  <2> QED
    BY <2>1, <2>2, <2>3
<1>6. ByKeys(S, R, 4, keys)
  <2>1. SUFFICES ASSUME NEW s \in S, NEW t \in S PROVE <<s, t>> \in R <=> less(s, t)
    <3> HIDE DEF R, key
    <3> QED
      BY <2>1 DEF ByKeys
  <2> HIDE DEF less
  <2> QED
    OBVIOUS
<1>7. ASSUME NEW s \in S, NEW t \in S, keys[s] = keys[t] PROVE s = t
  <2>1. key(s) = key(t)
    BY <1>7
  <2>2. KindRank[s.kind] = KindRank[t.kind] /\ Rank[s.doc] = Rank[t.doc] /\ Rank[s.name] = Rank[t.name]
    BY <2>1
  <2>3. s.kind = t.kind
    BY <1>2, <1>4, <2>2
  <2>4. s.doc = t.doc /\ s.name = t.name
    BY <1>2, <2>2, RetrievalAssumption DEF OrderAssumption
  <2>5. s.rev = t.rev
    BY <1>1, <2>4
  <2> QED
    BY <1>2, <2>3, <2>4, <2>5
<1>8. keys \in [S -> [1..4 -> Int]]
  <2> HIDE DEF key
  <2> QED
    BY <1>5
<1>9. SymbolRows(n, S) = First(n, Ordered(S, R))
  BY DEF SymbolRows, Sorted
<1> HIDE DEF R, keys
<1>10. StrictOrder(S, R)
  BY <1>6, <1>7, <1>8, KeyOrder
<1> QED
  BY <1>9, <1>10, Best

\* FindSymbols returns symbols of the roots it was given.
LEMMA SymbolSearch ==
  ASSUME TablesTypeOK, NEW token, NEW roots, NEW limit \in Nat
  PROVE  FindSymbols(token, roots, limit) \in Seq(SymbolsUnder(roots))
<1> DEFINE S == SymbolsUnder(roots)
           at(k, n) == SymbolRows(n, {s \in SymbolsUnder(roots) : <<token, s.name, k>> \in Matches})
           new(out, s) == Where(s, LAMBDA e : ~Contains(out, e))
           level(out, k) ==
             IF Len(out) >= limit THEN out
             ELSE First(limit, out \o new(out, at(k, IF k = 7 THEN 50 ELSE 2 * (limit - Len(out)))))
           F == [k \in 1..7 |-> [out \in Seq(S) |-> level(out, k)]]
           step(f, k) == IF k = 0 THEN <<>> ELSE level(f[k - 1], k)
           rows == CHOOSE rows : rows = [k \in 0..7 |-> step(rows, k)]
<1>1. FindSymbols(token, roots, limit) = rows[7]
  BY DEF FindSymbols
<1>2. S \subseteq SymbolsIn(Docs) /\ IsFiniteSet(S)
  <2>1. S \in SUBSET SymbolsIn(Docs)
    BY DEF SymbolsUnder
  <2>2. IsFiniteSet(SymbolsIn(Docs))
    BY DocumentSymbols
  <2> HIDE DEF S
  <2> QED
    BY <2>1, <2>2, FS_Subset
<1>3. ASSUME NEW k, NEW n \in Nat PROVE at(k, n) \in Seq(S)
  <2> DEFINE T == {s \in SymbolsUnder(roots) : <<token, s.name, k>> \in Matches}
  <2>1. T \in SUBSET S
    OBVIOUS
  <2> HIDE DEF T, S
  <2>2. IsFiniteSet(T) /\ T \subseteq SymbolsIn(Docs)
    BY <1>2, <2>1, FS_Subset
  <2>3. SymbolRows(n, T) \in Seq(T)
    BY <2>2, SymbolOrder
  <2>4. SymbolRows(n, T) \in Seq(S)
    BY <2>1, <2>3
  <2> QED
    BY <2>4 DEF T
<1>4. ASSUME NEW out, NEW s \in Seq(S) PROVE new(out, s) \in Seq(S)
  <2> DEFINE I == {i \in 1..Len(s) : ~Contains(out, s[i])}
  <2>1. DOMAIN s = 1..Len(s) /\ I \in SUBSET (1..Len(s))
    OBVIOUS
  <2>2. new(out, s) = At(s, I)
    BY <2>1 DEF Where
  <2> HIDE DEF I, S
  <2> QED
    BY <2>1, <2>2, Selection
<1>5. ASSUME NEW out \in Seq(S), NEW k PROVE level(out, k) \in Seq(S)
  <2> DEFINE n == IF k = 7 THEN 50 ELSE 2 * (limit - Len(out))
             more == new(out, at(k, n))
  <2>1. CASE Len(out) >= limit
    BY <2>1
  <2>2. CASE ~ (Len(out) >= limit)
    <3>1. n \in Nat
      BY <2>2
    <3> HIDE DEF S, at, new, n
    <3>2. more \in Seq(S)
      BY <1>3, <1>4, <3>1
    <3> HIDE DEF more
    <3>3. out \o more \in Seq(S)
      BY <3>2
    <3>4. First(limit, out \o more) \in Seq(S)
      BY <3>3, FirstElements
    <3>5. level(out, k) = First(limit, out \o more)
      BY <2>2 DEF more, n
    <3> QED
      BY <3>4, <3>5
  <2> QED
    BY <2>1, <2>2
<1> HIDE DEF S, level
<1>6. F \in [1..7 -> [Seq(S) -> Seq(S)]]
  BY <1>5
<1>7. PICK f \in [0..7 -> Seq(S)] : Follows(f, 7, <<>>, F)
  <2> HIDE DEF F
  <2>1. <<>> \in Seq(S) /\ 7 \in Nat
    OBVIOUS
  <2> QED
    BY <1>6, <2>1, Recursion, Zenon
<1>8. f = [k \in 0..7 |-> step(f, k)]
  <2>1. \A k \in 1..7 : f[k] = level(f[k - 1], k)
    <3>1. SUFFICES ASSUME NEW k \in 1..7 PROVE f[k] = level(f[k - 1], k)
      OBVIOUS
    <3>2. f[k] = F[k][f[k - 1]] /\ f[k - 1] \in Seq(S)
      <4>1. k - 1 \in 0..7
        OBVIOUS
      <4> HIDE DEF F
      <4> QED
        BY <1>7, <4>1 DEF Follows
    <3>3. F[k][f[k - 1]] = level(f[k - 1], k)
      BY <3>2
    <3> QED
      BY <3>2, <3>3
  <2>2. f[0] = <<>>
    BY <1>7 DEF Follows
  <2>3. ASSUME NEW k \in 0..7 PROVE f[k] = step(f, k)
    BY <2>1, <2>2
  <2> HIDE DEF step
  <2> QED
    BY <2>3
<1>9. rows = [k \in 0..7 |-> step(rows, k)]
  <2> HIDE DEF step
  <2> QED
    BY <1>8, Zenon
<1> HIDE DEF rows
<1>10. rows[0] = <<>> /\ \A k \in 1..7 : rows[k] = level(rows[k - 1], k)
  <2>1. \A k \in 0..7 : rows[k] = step(rows, k)
    <3> HIDE DEF step
    <3> QED
      BY <1>9
  <2>2. \A k \in 1..7 : k \in 0..7 /\ k # 0
    OBVIOUS
  <2> QED
    BY <2>1, <2>2
<1>11. \A k \in 0..7 : rows[k] \in Seq(S)
  <2>1. \A k \in 1..7 : rows[k - 1] \in Seq(S) => rows[k] \in Seq(S)
    BY <1>5, <1>10
  <2>2. rows[0] \in Seq(S)
    BY <1>10
  <2> DEFINE Y == Seq(S)
  <2>3. 7 \in Nat /\ rows[0] \in Y /\ \A k \in 1..7 : rows[k - 1] \in Y => rows[k] \in Y
    BY <2>1, <2>2
  <2> HIDE DEF Y
  <2>4. \A k \in 0..7 : rows[k] \in Y
    BY <2>3, AlongChain, Zenon
  <2> QED
    BY <2>4 DEF Y
<1> QED
  BY <1>1, <1>11 DEF S
\* An order by a number, and by another where that one has ties.
LEMMA TwoKeys ==
  ASSUME NEW S, NEW a \in [S -> Int], NEW b \in [S -> Int],
         \A e, f \in S : a[e] = a[f] /\ b[e] = b[f] => e = f
  PROVE  StrictOrder(S, {p \in S \X S : \/ a[p[1]] < a[p[2]]
                                        \/ a[p[1]] = a[p[2]] /\ b[p[1]] < b[p[2]]})
<1> DEFINE R == {p \in S \X S : \/ a[p[1]] < a[p[2]]
                                \/ a[p[1]] = a[p[2]] /\ b[p[1]] < b[p[2]]}
<1>1. \A e, f \in S : <<e, f>> \in R <=> a[e] < a[f] \/ (a[e] = a[f] /\ b[e] < b[f])
  OBVIOUS
<1>2. \A e \in S : a[e] \in Int /\ b[e] \in Int
  OBVIOUS
<1> HIDE DEF R
<1>3. ASSUME NEW e \in S PROVE <<e, e>> \notin R
  BY <1>1, <1>2
<1>4. ASSUME NEW e \in S, NEW f \in S PROVE e = f \/ <<e, f>> \in R \/ <<f, e>> \in R
  BY <1>1, <1>2
<1>5. ASSUME NEW e \in S, NEW f \in S, NEW g \in S, <<e, f>> \in R, <<f, g>> \in R
      PROVE  <<e, g>> \in R
  BY <1>1, <1>2, <1>5
<1>6. StrictOrder(S, R)
  BY <1>3, <1>4, <1>5 DEF StrictOrder
<1> QED
  BY <1>6 DEF R

\* Review status and age order the recipes without ties.
LEMMA RecipeOrder ==
  ASSUME TablesTypeOK, NEW roots
  PROVE  RecipesIn(roots) \in Seq({u \in Recipes : recipes[u] # "none" /\ RecipeOf[u].root \in roots})
<1> DEFINE S == {u \in Recipes : recipes[u] # "none" /\ RecipeOf[u].root \in roots}
           R == {p \in S \X S :
                  \/ recipes[p[1]] = "human_reviewed" /\ recipes[p[2]] # "human_reviewed"
                  \/ recipes[p[1]] = recipes[p[2]] /\ RecipeOf[p[1]].created > RecipeOf[p[2]].created}
           class == [u \in S |-> IF recipes[u] = "human_reviewed" THEN 0 ELSE 1]
           created == [u \in S |-> RecipeOf[u].created]
           age == [u \in S |-> 0 - created[u]]
           Q == {p \in S \X S : \/ class[p[1]] < class[p[2]]
                                \/ class[p[1]] = class[p[2]] /\ age[p[1]] < age[p[2]]}
<1>1. RecipesIn(roots) = Ordered(S, R)
  BY DEF RecipesIn, Sorted
<1>2. IsFiniteSet(S)
  <2>1. S \in SUBSET Recipes /\ IsFiniteSet(Recipes)
    BY RetrievalAssumption DEF CorpusAssumption
  <2> HIDE DEF S
  <2> QED
    BY <2>1, FS_Subset
<1>3. created \in [S -> Int]
  BY RetrievalAssumption DEF OrderAssumption
<1>4. \A u, v \in S : created[u] = created[v] => u = v
  BY RetrievalAssumption DEF OrderAssumption
<1>5. \A u, v \in S :
        /\ class[u] < class[v] <=> (recipes[u] = "human_reviewed" /\ recipes[v] # "human_reviewed")
        /\ class[u] = class[v] <=> recipes[u] = recipes[v]
  <2>1. SUFFICES ASSUME NEW u \in S, NEW v \in S
          PROVE
           /\ class[u] < class[v] <=> (recipes[u] = "human_reviewed" /\ recipes[v] # "human_reviewed")
           /\ class[u] = class[v] <=> recipes[u] = recipes[v]
    BY Zenon
  <2>2. recipes[u] \in {"generated", "human_reviewed"} /\ recipes[v] \in {"generated", "human_reviewed"}
    BY DEF TablesTypeOK, Status
  <2> QED
    BY <2>2
<1>6. class \in [S -> Int]
  OBVIOUS
<1>7. R = Q
  <2>1. \A p \in S \X S : created[p[1]] = RecipeOf[p[1]].created /\ created[p[2]] = RecipeOf[p[2]].created
    OBVIOUS
  <2> HIDE DEF created, class
  <2>2. \A u, v \in S : created[u] > created[v] <=> age[u] < age[v]
    BY <1>3
  <2> HIDE DEF age
  <2>3. ASSUME NEW p \in S \X S
        PROVE  (\/ recipes[p[1]] = "human_reviewed" /\ recipes[p[2]] # "human_reviewed"
                \/ recipes[p[1]] = recipes[p[2]] /\ RecipeOf[p[1]].created > RecipeOf[p[2]].created)
               <=> (\/ class[p[1]] < class[p[2]]
                    \/ class[p[1]] = class[p[2]] /\ age[p[1]] < age[p[2]])
    <3>1. p[1] \in S /\ p[2] \in S
      OBVIOUS
    <3> HIDE DEF S
    <3> QED
      BY <1>5, <2>1, <2>2, <3>1
  <2> HIDE DEF S
  <2> QED
    BY <2>3
<1> HIDE DEF S, R, class, created
<1>8. age \in [S -> Int] /\ \A u, v \in S : class[u] = class[v] /\ age[u] = age[v] => u = v
  BY <1>3, <1>4
<1> HIDE DEF age
<1>9. StrictOrder(S, R)
  BY <1>6, <1>7, <1>8, TwoKeys
<1> HIDE DEF Q
<1> DEFINE s == Ordered(S, R)
<1>10. s \in Seq(S)
  BY <1>2, <1>9, Elements
<1> QED
  BY <1>1, <1>10 DEF S

\* Of sources that are named by some URIs, those that are read are of these.
LEMMA AuthorityOrder ==
  ASSUME NEW Z \in SUBSET (Docs \cup Recipes), NEW X, \A x \in X : x.uri \in Z,
         NEW sources \in Seq(X), NEW official
  PROVE  ByAuthority(sources, official) \in Seq(Z)
<1> DEFINE W == {i \in DOMAIN sources : Worth(sources[i].authority)}
           worthy == At(sources, W)
           I == {i \in DOMAIN worthy : \A j \in 1..(i - 1) : worthy[j].uri # worthy[i].uri}
           once == At(worthy, I)
           S == ToSet(once)
           key(x) == <<IF official /\ AuthorityRank(x.authority) \in {4, 5} THEN 0 ELSE 1,
                       AuthorityRank(x.authority), Rank[x.uri]>>
           less(x, y) == \E i \in 1..3 : /\ key(x)[i] < key(y)[i]
                                         /\ \A j \in 1..(i - 1) : key(x)[j] = key(y)[j]
           R == {p \in S \X S : less(p[1], p[2])}
           keys == [x \in S |-> key(x)]
           best == First(MaxAugment, Ordered(S, R))
<1>1. ByAuthority(sources, official) = [k \in DOMAIN best |-> best[k].uri]
  BY DEF ByAuthority, Where, Sorted
<1>2. worthy \in Seq(X)
  <2>1. W \in SUBSET (1..Len(sources))
    OBVIOUS
  <2> HIDE DEF W
  <2> QED
    BY <2>1, Selection
<1> HIDE DEF worthy
<1>3. I \in SUBSET (1..Len(worthy)) /\ Len(worthy) \in Nat
  BY <1>2
<1>4. /\ once \in Seq(X)
      /\ \E p \in [1..Len(once) -> I] : /\ Enumerates(p, Len(once), I)
                                        /\ \A k \in 1..Len(once) : once[k] = worthy[p[k]]
  <2> HIDE DEF I
  <2> QED
    BY <1>2, <1>3, Selection
<1>5. \A k, l \in 1..Len(once) : k < l => once[k].uri # once[l].uri
  <2>1. PICK p \in [1..Len(once) -> I] : /\ Enumerates(p, Len(once), I)
                                         /\ \A k \in 1..Len(once) : once[k] = worthy[p[k]]
    BY <1>4
  <2>2. SUFFICES ASSUME NEW k \in 1..Len(once), NEW l \in 1..Len(once), k < l
                 PROVE  once[k].uri # once[l].uri
    OBVIOUS
  <2>3. p[k] < p[l] /\ p[k] \in I /\ p[l] \in I
    BY <2>1, <2>2 DEF Enumerates
  <2>4. p[k] \in 1..(p[l] - 1)
    <3>1. p[k] \in 1..Len(worthy) /\ p[l] \in 1..Len(worthy)
      BY <1>3, <2>3
    <3> HIDE DEF I
    <3> QED
      BY <1>3, <2>3, <3>1
  <2>5. worthy[p[k]].uri # worthy[p[l]].uri
    BY <2>3, <2>4
  <2> QED
    BY <2>1, <2>5
<1> HIDE DEF once
<1>6. /\ S \subseteq X /\ IsFiniteSet(S)
      /\ \A x, y \in S : x.uri = y.uri => x = y
  <2>1. DOMAIN once = 1..Len(once) /\ Len(once) \in Nat /\ \A k \in 1..Len(once) : once[k] \in X
    BY <1>4
  <2>2. S = {once[k] : k \in 1..Len(once)}
    BY <2>1 DEF ToSet
  <2>3. IsFiniteSet(1..Len(once))
    BY <2>1, FS_Interval
  <2>4. IsFiniteSet({once[k] : k \in 1..Len(once)})
    BY <2>3, Image
  <2> HIDE DEF S
  <2>5. ASSUME NEW x \in S, NEW y \in S, x.uri = y.uri PROVE x = y
    <3>1. PICK k \in 1..Len(once) : x = once[k]
      BY <2>2
    <3>2. PICK l \in 1..Len(once) : y = once[l]
      BY <2>2
    <3>3. ~ (k < l) /\ ~ (l < k)
      BY <1>5, <2>5, <3>1, <3>2
    <3>4. k = l
      BY <2>1, <3>3
    <3> QED
      BY <3>1, <3>2, <3>4
  <2> QED
    BY <2>1, <2>2, <2>4, <2>5
<1> HIDE DEF S
<1>7. \A x \in S : x.uri \in Z /\ x.uri \in Docs \cup Recipes
  BY <1>6
<1>8. ASSUME NEW x \in S PROVE key(x) \in [1..3 -> Int]
  <2>1. Rank[x.uri] \in Int
    BY <1>7, RetrievalAssumption DEF OrderAssumption
  <2>2. AuthorityRank(x.authority) \in 1..8
    BY Authority
  <2> QED
    BY <2>1, <2>2
<1>9. ASSUME NEW x \in S, NEW y \in S, keys[x] = keys[y] PROVE x = y
  <2>1. key(x) = key(y)
    BY <1>9
  <2>2. Rank[x.uri] = Rank[y.uri]
    BY <2>1
  <2>3. x.uri = y.uri
    BY <1>7, <2>2, RetrievalAssumption DEF OrderAssumption
  <2> QED
    BY <1>6, <2>3
<1>10. ByKeys(S, R, 3, keys)
  <2>1. SUFFICES ASSUME NEW x \in S, NEW y \in S PROVE <<x, y>> \in R <=> less(x, y)
    <3> HIDE DEF R, key
    <3> QED
      BY <2>1 DEF ByKeys
  <2> HIDE DEF less
  <2> QED
    OBVIOUS
<1>11. keys \in [S -> [1..3 -> Int]]
  <2> HIDE DEF key
  <2> QED
    BY <1>8
<1>12. MaxAugment \in Nat
  BY PackageAssumption
<1> HIDE DEF R, keys
<1>13. StrictOrder(S, R)
  BY <1>9, <1>10, <1>11, KeyOrder
<1>14. best \in Seq(S)
  BY <1>6, <1>12, <1>13, Best
<1> HIDE DEF best
<1>15. [k \in DOMAIN best |-> best[k].uri] \in Seq(Z)
  <2>1. DOMAIN best = 1..Len(best) /\ Len(best) \in Nat /\ \A k \in 1..Len(best) : best[k] \in S
    BY <1>14
  <2>2. \A k \in 1..Len(best) : best[k].uri \in Z
    BY <1>7, <2>1
  <2> QED
    BY <2>1, <2>2
<1> QED
  BY <1>1, <1>15

-----------------------------------------------------------------------------
(* The inductive invariant.                                                *)

\* The documents that a searched root has held since the request began.
ScopedDocs == {d \in Docs : Had(d) \cap Searched # {}}

\* Chunks, symbols, hits, examples and citations of what these documents were.
ScopedChunk == {c \in Chunk : c.doc \in ScopedDocs /\ c.rev \in past[c.doc]}
ScopedSymbol == {s \in Symbol : s.doc \in ScopedDocs /\ s.rev \in past[s.doc]}
ScopedHit == {h \in Hit : h.lines \in ScopedChunk /\ h.text = h.lines /\ h.row \in past[h.lines.doc]}
ScopedExample == {e \in Example : InScope(e.uri, e.root) /\ e.lines = e.text}
ScopedCitation == {c \in Citation : InScope(c.uri, c.root)}

\* A package of such evidence, with the limits kept.
SoundPackage ==
  {p \in Package : /\ p.symbols \in Seq(ScopedSymbol)
                   /\ p.examples \in Seq(ScopedExample) /\ Len(p.examples) <= MaxExamples
                   /\ p.citations \in Seq(ScopedCitation)}

\* A row that a document had is in the scope of what is cited of it.
LEMMA RowInScope ==
  ASSUME NEW d \in ScopedDocs, NEW r \in past[d]
  PROVE  d \in Docs /\ d \notin Recipes /\ InScope(d, Profile[d][r].root)
<1>1. d \in Docs /\ d \notin Recipes /\ Had(d) \cap Searched # {}
  BY RetrievalAssumption DEF ScopedDocs, CorpusAssumption
<1>2. Profile[d][r].root \in Had(d)
  BY DEF Had
<1> QED
  BY <1>1, <1>2 DEF InScope

\* A symbol of a searched root keeps the package sound.
LEMMA SymbolAdded ==
  ASSUME NEW p \in SoundPackage, NEW s \in ScopedSymbol
  PROVE  AddSymbol(p, s) \in SoundPackage
<1> DEFINE x == Append(p.symbols, s)
           y == Distinct(Append(p.apis, s.name))
           c == CiteSymbol(s)
           z == Append(p.citations, c)
           q == [p EXCEPT !.symbols = x, !.apis = y, !.citations = z]
<1>1. /\ p \in Package /\ p.symbols \in Seq(ScopedSymbol) /\ p.apis \in Seq(Names)
      /\ p.examples \in Seq(ScopedExample) /\ Len(p.examples) <= MaxExamples
      /\ p.citations \in Seq(ScopedCitation)
  BY DEF SoundPackage, Package
<1>2. s \in Symbol /\ s.name \in Names /\ s.doc \in Docs /\ s.rev \in Revisions
      /\ s.doc \in ScopedDocs /\ s.rev \in past[s.doc]
  BY DEF ScopedSymbol, ScopedDocs, Symbol
<1>3. x \in Seq(ScopedSymbol)
  BY <1>1
<1>4. y \in Seq(Names)
  <2>1. Append(p.apis, s.name) \in Seq(Names)
    BY <1>1, <1>2
  <2> QED
    BY <2>1, DistinctElements
<1>5. c \in ScopedCitation
  <2>1. InScope(s.doc, Profile[s.doc][s.rev].root)
    BY <1>2, RowInScope
  <2>2. Profile[s.doc][s.rev] \in Rows
    BY <1>2 DEF Rows
  <2>3. c \in Citation
    BY <1>2, <2>2 DEF CiteSymbol, Citation, Roots, Authorities, Versions, RootOf, Row
  <2> QED
    BY <1>2, <2>1, <2>3 DEF CiteSymbol, ScopedCitation, RootOf, Row
<1>6. z \in Seq(ScopedCitation)
  <2> HIDE DEF c
  <2> QED
    BY <1>1, <1>5
<1>7. AddSymbol(p, s) = q
  <2>1. q = [p EXCEPT !.symbols = x, !.apis = y, !.citations = z]
    OBVIOUS
  <2> QED
    BY DEF AddSymbol
<1>8. x \in Seq(Symbol) /\ z \in Seq(Citation)
  <2> HIDE DEF x, z
  <2> QED
    BY <1>3, <1>6 DEF ScopedSymbol, ScopedCitation
<1> HIDE DEF x, y, z
<1>9. /\ q \in Package /\ q.symbols = x /\ q.apis = y /\ q.citations = z
      /\ q.examples = p.examples
  BY <1>1, <1>4, <1>8 DEF Package
<1> HIDE DEF q
<1>10. q \in SoundPackage
  BY <1>1, <1>3, <1>6, <1>9 DEF SoundPackage
<1> QED
  BY <1>7, <1>10

\* The stages of a search.
SearchStages == {"search", "or", "title", "idf", "postings", "hydrate"}

\* What a search has found is of the roots it asks.
SearchSound(s) ==
  /\ s \in [roots : SUBSET Searched, terms : SUBSET request.terms,
            ids : SUBSET Chunk, found : SUBSET Chunk, symbols : Seq(ScopedSymbol),
            row : Revisions \cup {0}]
  /\ s.ids \subseteq Under(s.roots) /\ s.found \subseteq Under(s.roots)
  /\ IsFiniteSet(s.found) /\ IsFiniteSet(s.ids)

\* A row that was read is one of the document whose chunks are next.
RowSound(list, row) ==
  row # 0 => list # <<>> /\ list[1] \in ScopedDocs /\ row \in past[list[1]]

\* What is still to be read, by the stage that reads it.
TodoSound(at, list, s, h) ==
  /\ at \in SearchStages => /\ list \in Seq(SUBSET Searched) /\ list # <<>>
                            /\ s.roots = list[1]
  /\ at = "cited" => list \in Seq(ScopedDocs \cup Recipes) /\ RowSound(list, s.row)
  /\ at = "signals" => list \in Seq(ScopedDocs) /\ RowSound(list, s.row)
  /\ at = "bodies" => list \in Seq(DOMAIN h)

\* A finished package names the roots it is made of.
Sealed(at, p) == at = "done" => p.contributing = RootsOf(p)

\* The inductive invariant.
IInv ==
  /\ request \in Requests /\ TablesTypeOK /\ stage \in Stages
  /\ hits \in Seq(ScopedHit) /\ pkg \in SoundPackage
  /\ SearchSound(search) /\ TodoSound(stage, todo, search, hits)
  /\ Sealed(stage, pkg)
  /\ rounds \in 0..MaxRounds /\ disturbed \in BOOLEAN

\* What is a sequence over a set is one over every larger set.
LEMMA WiderSequence ==
  ASSUME NEW A, NEW B, A \subseteq B
  PROVE  Seq(A) \subseteq Seq(B)
OBVIOUS

\* What was sound stays sound when documents get more of a past.
LEMMA Growth ==
  ASSUME request' = request, \A d \in Docs : past[d] \subseteq past'[d]
  PROVE  /\ Searched' = Searched /\ ScopedDocs \subseteq ScopedDocs'
         /\ ScopedSymbol \subseteq ScopedSymbol'
         /\ ScopedHit \subseteq ScopedHit' /\ SoundPackage \subseteq SoundPackage'
         /\ \A s : SearchSound(s) => SearchSound(s)'
         /\ \A at, list, s, h : TodoSound(at, list, s, h) => TodoSound(at, list, s, h)'
<1>1. Searched' = Searched
  BY DEF Searched
<1>2. \A d \in Docs : Had(d) \subseteq Had(d)'
  BY DEF Had
<1>3. ScopedDocs \subseteq ScopedDocs'
  BY <1>1, <1>2 DEF ScopedDocs
<1>4. \A d \in ScopedDocs : past[d] \subseteq past'[d]
  BY DEF ScopedDocs
<1>5. ScopedChunk \subseteq ScopedChunk' /\ ScopedSymbol \subseteq ScopedSymbol'
  BY <1>3, <1>4 DEF ScopedChunk, ScopedSymbol
<1>6. ScopedHit \subseteq ScopedHit'
  <2>1. \A c \in ScopedChunk : past[c.doc] \subseteq past'[c.doc]
    BY <1>4 DEF ScopedChunk
  <2> QED
    BY <1>5, <2>1 DEF ScopedHit
<1>7. \A uri \in Docs \cup Recipes : \A root : InScope(uri, root) => InScope(uri, root)'
  BY <1>1, <1>2 DEF InScope
<1>8. ScopedExample \subseteq ScopedExample' /\ ScopedCitation \subseteq ScopedCitation'
  BY <1>7 DEF ScopedExample, ScopedCitation, Example, Citation
<1>9. SoundPackage \subseteq SoundPackage'
  <2>1. SUFFICES ASSUME NEW p \in SoundPackage PROVE p \in SoundPackage'
    OBVIOUS
  <2>2. /\ p.symbols \in Seq(ScopedSymbol) /\ p.examples \in Seq(ScopedExample)
        /\ p.citations \in Seq(ScopedCitation) /\ p \in Package /\ Len(p.examples) <= MaxExamples
    BY DEF SoundPackage
  <2>3. /\ p.symbols \in Seq(ScopedSymbol') /\ p.examples \in Seq(ScopedExample')
        /\ p.citations \in Seq(ScopedCitation')
    BY <1>5, <1>8, <2>2, WiderSequence
  <2> QED
    BY <2>2, <2>3 DEF SoundPackage
<1>10. \A roots : Under(roots) \subseteq Under(roots)'
  BY DEF Under, Chunk
<1>11. ASSUME NEW s, SearchSound(s) PROVE SearchSound(s)'
  <2>1. /\ s \in [roots : SUBSET Searched, terms : SUBSET request.terms,
                  ids : SUBSET Chunk, found : SUBSET Chunk, symbols : Seq(ScopedSymbol),
                  row : Revisions \cup {0}]
        /\ s.ids \subseteq Under(s.roots) /\ s.found \subseteq Under(s.roots)
        /\ IsFiniteSet(s.found) /\ IsFiniteSet(s.ids)
    BY <1>11 DEF SearchSound
  <2>2. Seq(ScopedSymbol) \subseteq Seq(ScopedSymbol')
    BY <1>5, WiderSequence
  <2>3. s.ids \subseteq Under(s.roots)' /\ s.found \subseteq Under(s.roots)'
    BY <1>10, <2>1
  <2> QED
    BY <1>1, <2>1, <2>2, <2>3 DEF SearchSound
<1>12. ASSUME NEW at, NEW list, NEW s, NEW h, TodoSound(at, list, s, h)
       PROVE  TodoSound(at, list, s, h)'
  <2>1. Seq(ScopedDocs) \subseteq Seq(ScopedDocs')
        /\ Seq(ScopedDocs \cup Recipes) \subseteq Seq(ScopedDocs' \cup Recipes)
    BY <1>3, WiderSequence
  <2>2. \A row : RowSound(list, row) => RowSound(list, row)'
    BY <1>3, <1>4 DEF RowSound
  <2> QED
    BY <1>1, <1>12, <2>1, <2>2 DEF TodoSound
<1> QED
  BY <1>1, <1>3, <1>5, <1>6, <1>9, <1>11, <1>12

\* A step of the request need only keep its own part of the invariant.
LEMMA OwnStep ==
  ASSUME IInv, Reads,
         stage' \in Stages, hits' \in Seq(ScopedHit), pkg' \in SoundPackage,
         SearchSound(search'), TodoSound(stage', todo', search', hits'), Sealed(stage', pkg')
  PROVE  IInv'
<1>1. request' = request /\ corpus' = corpus /\ recipes' = recipes /\ edits' = edits
      /\ rounds' = rounds /\ disturbed' = disturbed /\ past' = past
  BY DEF Reads, tables
<1>2. TablesTypeOK'
  BY <1>1 DEF IInv, TablesTypeOK
<1>3. hits' \in Seq(ScopedHit') /\ pkg' \in SoundPackage' /\ SearchSound(search)'
      /\ TodoSound(stage, todo, search, hits)'
  <2>1. hits' \in Seq(ScopedHit') /\ pkg' \in SoundPackage'
    BY <1>1, Growth, WiderSequence
  <2>2. Searched' = Searched /\ ScopedSymbol' = ScopedSymbol /\ ScopedDocs' = ScopedDocs
        /\ \A roots : Under(roots)' = Under(roots)
    BY <1>1 DEF Searched, ScopedSymbol, ScopedDocs, Had, Under
  <2>3. SearchSound(search)'
    BY <1>1, <2>2 DEF SearchSound
  <2>4. TodoSound(stage, todo, search, hits)'
    BY <1>1, <2>2 DEF TodoSound, RowSound
  <2> QED
    BY <2>1, <2>3, <2>4
<1>4. Sealed(stage, pkg)'
  BY DEF Sealed, RootsOf
<1> QED
  BY <1>1, <1>2, <1>3, <1>4 DEF IInv

\* The tables keep their types, and documents their past, under an edit.
LEMMA EditedTables ==
  ASSUME TablesTypeOK, Editors
  PROVE  TablesTypeOK' /\ \A d \in Docs : past[d] \subseteq past'[d]
<1>1. /\ corpus \in [Docs -> Revisions \cup {0}] /\ past \in [Docs -> SUBSET Revisions]
      /\ \A d \in Docs : corpus[d] \in past[d] \cup {0}
      /\ recipes \in [Recipes -> Status] /\ edits \in 0..MaxEdits /\ MaxEdits \in Nat
  BY RetrievalAssumption DEF TablesTypeOK
<1>2. CASE \E d \in Docs : DeleteDocument(d)
  BY <1>1, <1>2 DEF DeleteDocument, Edit, TablesTypeOK
<1>3. ASSUME NEW d \in Docs, NEW r \in Revisions, Reindex(d, r)
      PROVE  TablesTypeOK' /\ \A c \in Docs : past[c] \subseteq past'[c]
  <2>1. /\ corpus' = [corpus EXCEPT ![d] = r] /\ past' = [past EXCEPT ![d] = @ \cup {r}]
        /\ recipes' = recipes /\ edits < MaxEdits /\ edits' = edits + 1
    BY <1>3 DEF Reindex, Edit
  <2>2. corpus' \in [Docs -> Revisions \cup {0}] /\ past' \in [Docs -> SUBSET Revisions]
    BY <1>1, <2>1
  <2>3. \A c \in Docs : corpus'[c] \in past'[c] \cup {0} /\ past[c] \subseteq past'[c]
    BY <1>1, <2>1
  <2> QED
    BY <1>1, <2>1, <2>2, <2>3 DEF TablesTypeOK
<1>4. CASE \E u \in Recipes, s \in Status \ {"none"} : PutRecipe(u, s)
  BY <1>1, <1>4 DEF PutRecipe, Edit, TablesTypeOK
<1>5. CASE DeleteAllRecipes
  BY <1>1, <1>5 DEF DeleteAllRecipes, Edit, TablesTypeOK, Status
<1> QED
  BY <1>2, <1>3, <1>4, <1>5 DEF Editors

\* An edit of the corpus leaves the request alone.
LEMMA EditStep ==
  ASSUME IInv, Edited
  PROVE  IInv'
<1>1. /\ request' = request /\ stage' = stage /\ todo' = todo /\ search' = search
      /\ hits' = hits /\ pkg' = pkg /\ rounds' = rounds /\ disturbed' = TRUE /\ Editors
  BY DEF Edited
<1>2. TablesTypeOK' /\ \A d \in Docs : past[d] \subseteq past'[d]
  BY <1>1, EditedTables DEF IInv
<1>3. hits' \in Seq(ScopedHit') /\ pkg' \in SoundPackage'
  BY <1>1, <1>2, Growth, WiderSequence DEF IInv
<1>4. SearchSound(search)'
  <2>1. SearchSound(search)
    BY DEF IInv
  <2>2. \A s : SearchSound(s) => SearchSound(s)'
    BY <1>1, <1>2, Growth
  <2> QED
    BY <1>1, <2>1, <2>2 DEF SearchSound
<1>5. TodoSound(stage, todo, search, hits)'
  <2>1. TodoSound(stage, todo, search, hits)
    BY DEF IInv
  <2>2. \A at, list, s, h : TodoSound(at, list, s, h) => TodoSound(at, list, s, h)'
    BY <1>1, <1>2, Growth
  <2> QED
    BY <1>1, <2>1, <2>2 DEF TodoSound
<1>6. Sealed(stage, pkg)'
  BY <1>1 DEF Sealed, RootsOf, IInv
<1> QED
  BY <1>1, <1>2, <1>3, <1>4, <1>5, <1>6 DEF IInv

\* The smaller and the larger of two numbers.
LEMMA Smaller ==
  ASSUME NEW a \in Nat, NEW b \in Nat
  PROVE  Min({a, b}) \in Nat /\ Min({a, b}) <= a /\ Min({a, b}) <= b /\ Min({a, b}) \in {a, b}
<1>1. \E m \in {a, b} : \A y \in {a, b} : m <= y
  <2>1. CASE a <= b
    BY <2>1
  <2>2. CASE b <= a
    BY <2>2
  <2> QED
    BY <2>1, <2>2
<1>2. Min({a, b}) \in {a, b} /\ \A y \in {a, b} : Min({a, b}) <= y
  BY <1>1 DEF Min
<1> QED
  BY <1>2

\* The larger of two numbers.
LEMMA Larger ==
  ASSUME NEW a \in Int, NEW b \in Int
  PROVE  Max({a, b}) \in {a, b} /\ Max({a, b}) >= a /\ Max({a, b}) >= b
<1>1. \E m \in {a, b} : \A y \in {a, b} : m >= y
  <2>1. CASE a >= b
    BY <2>1
  <2>2. CASE b >= a
    BY <2>2
  <2> QED
    BY <2>1, <2>2
<1>2. Max({a, b}) \in {a, b} /\ \A y \in {a, b} : Max({a, b}) >= y
  BY <1>1 DEF Max
<1> QED
  BY <1>2

-----------------------------------------------------------------------------
(* The steps.                                                              *)

\* A recipe of a searched root makes a sound package.
LEMMA RecipePackage ==
  ASSUME NEW p \in SoundPackage, NEW u \in Recipes, RecipeOf[u].root \in Searched, TablesTypeOK
  PROVE  LET r == RecipeOf[u]
         IN  [p EXCEPT
               !.recipe = recipes[u], !.apis = Distinct(r.apis),
               !.constraints = r.constraints, !.prereqs = r.prereqs,
               !.sequence = r.sequence, !.citations = <<CiteRecipe(u)>>,
               !.examples = [i \in 1..Min({r.examples, MaxExamples}) |->
                 [uri |-> u, root |-> r.root, lines |-> <<>>, text |-> <<>>,
                  size |-> Size.excerpt]]] \in SoundPackage
<1> DEFINE r == RecipeOf[u]
           status == recipes[u]
           apis == Distinct(r.apis)
           cites == <<CiteRecipe(u)>>
           n == Min({r.examples, MaxExamples})
           e == [uri |-> u, root |-> r.root, lines |-> <<>>, text |-> <<>>, size |-> Size.excerpt]
           shown == [i \in 1..n |-> e]
           q == [p EXCEPT !.recipe = status, !.apis = apis, !.constraints = r.constraints,
                          !.prereqs = r.prereqs, !.sequence = r.sequence, !.citations = cites,
                          !.examples = shown]
<1>1. /\ r.apis \in Seq(Names) /\ r.sequence \in BOOLEAN /\ r.constraints \in Nat
      /\ r.prereqs \in Nat /\ r.examples \in Nat
  BY RetrievalAssumption DEF CorpusAssumption
<1>2. MaxExamples \in Nat /\ Size.excerpt \in Nat
  BY PackageAssumption
<1>3. status \in Status
  BY DEF TablesTypeOK
<1>4. apis \in Seq(Names)
  <2> HIDE DEF r
  <2> QED
    BY <1>1, DistinctElements
<1>5. n \in Nat /\ n <= MaxExamples
  <2> HIDE DEF r
  <2> QED
    BY <1>1, <1>2, Smaller
<1>7. CiteRecipe(u) \in ScopedCitation
  <2>1. CiteRecipe(u) \in Citation
    BY <1>3 DEF CiteRecipe, Citation, Roots, Authorities, Versions
  <2> QED
    BY <2>1 DEF CiteRecipe, ScopedCitation, InScope
<1>8. cites \in Seq(ScopedCitation)
  BY <1>7
<1>9. e \in ScopedExample
  <2>1. e \in Example
    BY <1>2 DEF Example, Roots
  <2> QED
    BY <2>1 DEF ScopedExample, InScope
<1>10. shown \in Seq(ScopedExample) /\ Len(shown) = n
  <2> HIDE DEF e, n
  <2> QED
    BY <1>5, <1>9
<1>11. cites \in Seq(Citation) /\ shown \in Seq(Example)
  <2> HIDE DEF cites, shown
  <2> QED
    BY <1>8, <1>10 DEF ScopedCitation, ScopedExample
<1>12. p \in Package /\ p.symbols \in Seq(ScopedSymbol)
  BY DEF SoundPackage
<1> HIDE DEF status, apis, cites, shown, n
<1>13. /\ q \in Package /\ q.citations = cites /\ q.examples = shown
       /\ q.symbols = p.symbols
  <2> HIDE DEF r
  <2> QED
    BY <1>1, <1>3, <1>4, <1>11, <1>12 DEF Package
<1> HIDE DEF q
<1>14. q \in SoundPackage
  BY <1>5, <1>8, <1>10, <1>12, <1>13 DEF SoundPackage
<1> QED
  BY <1>14 DEF q, status, apis, cites, shown, n

\* The steps up to the searches.
LEMMA RecipeStep ==
  ASSUME IInv, ReadRecipe
  PROVE  IInv'
<1>1. Reads /\ stage' = "symbols" /\ todo' = request.tokens /\ search' = search /\ hits' = hits
  BY DEF ReadRecipe
<1>2. pkg' \in SoundPackage
  <2> DEFINE s == RecipesIn(Searched)
             S == {u \in Recipes : recipes[u] # "none" /\ RecipeOf[u].root \in Searched}
             u1 == s[1]
  <2>1. TablesTypeOK /\ pkg \in SoundPackage
    BY DEF IInv
  <2>2. s \in Seq(S)
    BY <2>1, RecipeOrder
  <2>3. CASE s = <<>>
    BY <2>1, <2>3 DEF ReadRecipe
  <2>4. CASE s # <<>>
    <3>1. u1 \in S
      <4> HIDE DEF s, S
      <4> QED
        BY <2>2, <2>4
    <3>2. u1 \in Recipes /\ RecipeOf[u1].root \in Searched
      BY <3>1
    <3>3. pkg' = [pkg EXCEPT
               !.recipe = recipes[u1], !.apis = Distinct(RecipeOf[u1].apis),
               !.constraints = RecipeOf[u1].constraints, !.prereqs = RecipeOf[u1].prereqs,
               !.sequence = RecipeOf[u1].sequence, !.citations = <<CiteRecipe(u1)>>,
               !.examples = [i \in 1..Min({RecipeOf[u1].examples, MaxExamples}) |->
                 [uri |-> u1, root |-> RecipeOf[u1].root, lines |-> <<>>, text |-> <<>>,
                  size |-> Size.excerpt]]]
      BY <2>4 DEF ReadRecipe
    <3> HIDE DEF u1
    <3> QED
      BY <2>1, <3>2, <3>3, RecipePackage
  <2> QED
    BY <2>3, <2>4
<1>3. TodoSound(stage', todo', search', hits') /\ Sealed(stage', pkg')
  BY <1>1 DEF TodoSound, Sealed, SearchStages
<1> QED
  BY <1>1, <1>2, <1>3, OwnStep DEF IInv, Stages

\* A symbol that is stored is of a revision that the document had.
LEMMA StoredSymbol ==
  ASSUME TablesTypeOK, NEW t \in Symbol, t.rev = corpus[t.doc]
  PROVE  t.rev \in past[t.doc]
<1>1. t.doc \in Docs /\ t.rev \in Revisions /\ t.rev # 0
  BY RetrievalAssumption DEF Symbol, CorpusAssumption
<1> QED
  BY <1>1 DEF TablesTypeOK

\* The symbols that are found lie in the scope.
LEMMA ScopedSymbols ==
  ASSUME IInv, NEW token, NEW limit \in Nat
  PROVE  FindSymbols(token, Searched, limit) \in Seq(ScopedSymbol)
<1> DEFINE S == SymbolsUnder(Searched)
           s == FindSymbols(token, Searched, limit)
<1>1. S \subseteq ScopedSymbol
  <2>1. TablesTypeOK
    BY DEF IInv
  <2>2. SymbolsIn(Docs) \subseteq {t \in Symbol : t.doc \in Docs /\ t.rev = corpus[t.doc]}
    BY <2>1, DocumentSymbols
  <2>3. ASSUME NEW t \in S PROVE t \in ScopedSymbol
    <3>1. t \in Symbol /\ t.doc \in Docs /\ t.rev = corpus[t.doc] /\ RootOf(t) \in Searched
      BY <2>2 DEF SymbolsUnder
    <3>2. t.rev \in past[t.doc]
      BY <2>1, <3>1, StoredSymbol
    <3>3. RootOf(t) \in Had(t.doc)
      BY <3>2 DEF Had, RootOf, Row
    <3> QED
      BY <3>1, <3>2, <3>3 DEF ScopedSymbol, ScopedDocs
  <2> QED
    BY <2>3
<1>2. s \in Seq(S)
  BY SymbolSearch DEF IInv
<1> HIDE DEF S, s
<1>3. s \in Seq(ScopedSymbol)
  BY <1>1, <1>2
<1> QED
  BY <1>3 DEF s

\* Each symbol that is found is added.
LEMMA SymbolsStep ==
  ASSUME IInv, ReadSymbols
  PROVE  IInv'
<1> DEFINE limit == Min({5, MaxResults})
           found == FindSymbols(Head(todo), Searched, limit)
           n == Len(found)
           Y == SoundPackage
           add(p, s) == IF Len(p.apis) >= ApiCap /\ p # pkg THEN p ELSE AddSymbol(p, s)
           step(f, i) == IF i = 0 THEN pkg ELSE add(f[i - 1], found[i])
           after == CHOOSE after : after = [i \in 0..n |-> step(after, i)]
           F == [i \in 1..n |-> [p \in Y |-> add(p, found[i])]]
<1>1. Reads /\ stage' = stage /\ stage = "symbols" /\ search' = search /\ hits' = hits
  BY DEF ReadSymbols
<1>2. pkg' = after[n]
  BY DEF ReadSymbols
<1>3. limit \in Nat
  <2>1. MaxResults \in Nat /\ 5 \in Nat
    BY PackageAssumption
  <2> QED
    BY <2>1, Smaller
<1>4. found \in Seq(ScopedSymbol)
  <2> HIDE DEF limit
  <2> QED
    BY <1>3, ScopedSymbols
<1> HIDE DEF found
<1>5. n \in Nat /\ \A i \in 1..n : found[i] \in ScopedSymbol
  BY <1>4
<1>6. \A p \in Y : \A s \in ScopedSymbol : add(p, s) \in Y
  BY SymbolAdded
<1>7. pkg \in Y
  BY DEF IInv
<1> HIDE DEF n, Y, add
<1>8. F \in [1..n -> [Y -> Y]]
  BY <1>5, <1>6
<1>9. PICK f \in [0..n -> Y] : Follows(f, n, pkg, F)
  <2> HIDE DEF F
  <2> QED
    BY <1>5, <1>7, <1>8, Recursion, Zenon
<1>10. f = [i \in 0..n |-> step(f, i)]
  <2>1. f[0] = pkg /\ \A i \in 1..n : f[i] = F[i][f[i - 1]]
    <3> HIDE DEF F
    <3> QED
      BY <1>9 DEF Follows
  <2>2. ASSUME NEW i \in 1..n PROVE f[i] = add(f[i - 1], found[i])
    <3>1. f[i - 1] \in Y
      BY <1>5
    <3>2. F[i][f[i - 1]] = add(f[i - 1], found[i])
      BY <3>1
    <3> HIDE DEF F
    <3> QED
      BY <2>1, <3>2
  <2>3. ASSUME NEW i \in 0..n PROVE f[i] = step(f, i)
    <3>1. i = 0 \/ i \in 1..n
      BY <1>5
    <3> QED
      BY <2>1, <2>2, <3>1
  <2> HIDE DEF step
  <2> QED
    BY <2>3
<1>11. after = [i \in 0..n |-> step(after, i)]
  <2> HIDE DEF step
  <2> QED
    BY <1>10, Zenon
<1> HIDE DEF after
<1>12. after[0] \in Y /\ \A i \in 1..n : after[i - 1] \in Y => after[i] \in Y
  <2>1. \A i \in 0..n : after[i] = step(after, i)
    <3> HIDE DEF step
    <3> QED
      BY <1>11
  <2>2. after[0] = pkg
    BY <1>5, <2>1
  <2>3. \A i \in 1..n : i \in 0..n /\ i # 0
    BY <1>5
  <2>4. \A i \in 1..n : after[i] = add(after[i - 1], found[i])
    BY <2>1, <2>3
  <2> QED
    BY <1>5, <1>6, <1>7, <2>2, <2>4
<1>13. \A i \in 0..n : after[i] \in Y
  BY <1>5, <1>12, AlongChain, Zenon
<1>14. pkg' \in SoundPackage
  BY <1>2, <1>5, <1>13 DEF Y
<1>15. TodoSound(stage', todo', search', hits') /\ Sealed(stage', pkg')
  BY <1>1 DEF TodoSound, Sealed, SearchStages
<1> QED
  BY <1>1, <1>14, <1>15, OwnStep DEF IInv, Stages

\* A search begins with nothing found.
LEMMA FirstSearch ==
  ASSUME IInv
  PROVE  /\ Searches \in Seq(SUBSET Searched) /\ Searches # <<>> /\ SearchSound(NoSearch)
         /\ \A roots \in SUBSET Searched : SearchSound([NoSearch EXCEPT !.roots = roots])
<1>1. Sequence(request.roots)
  BY PackageAssumption DEF IInv
<1> DEFINE s == request.roots
<1>2. s \in Seq(Searched)
  BY <1>1 DEF Sequence, Searched
<1> DEFINE alone == IF Grouped THEN [i \in DOMAIN s |-> {s[i]}] ELSE <<>>
<1>3. alone \in Seq(SUBSET Searched)
  <2> HIDE DEF s
  <2>1. Len(s) \in Nat /\ DOMAIN s = 1..Len(s) /\ \A i \in 1..Len(s) : {s[i]} \in SUBSET Searched
    BY <1>2
  <2>2. [i \in DOMAIN s |-> {s[i]}] \in Seq(SUBSET Searched)
    BY <2>1
  <2> QED
    BY <2>2
<1>4. Searches = alone \o <<Searched>>
  BY DEF Searches, RecallEachRoot
<1> HIDE DEF alone
<1>5. Searches \in Seq(SUBSET Searched) /\ Searches # <<>>
  BY <1>3, <1>4
<1>6. SearchSound(NoSearch) /\ NoSearch.ids = {} /\ NoSearch.found = {}
  BY FS_EmptySet DEF NoSearch, SearchSound
<1>7. \A roots \in SUBSET Searched : SearchSound([NoSearch EXCEPT !.roots = roots])
  BY <1>6 DEF SearchSound
<1> QED
  BY <1>5, <1>6, <1>7

\* The searches begin.
LEMMA BeginStep ==
  ASSUME IInv, BeginSearches
  PROVE  IInv'
<1>1. /\ Reads /\ stage' = "search" /\ todo' = Searches /\ hits' = hits /\ pkg' = pkg
      /\ search' = [NoSearch EXCEPT !.roots = Searches[1]]
  BY DEF BeginSearches
<1>2. Searches \in Seq(SUBSET Searched) /\ Searches # <<>>
  BY FirstSearch
<1>3. Searches[1] \in SUBSET Searched
  BY <1>2
<1>4. SearchSound(search')
  BY <1>1, <1>3, FirstSearch
<1>5. search'.roots = Searches[1]
  BY <1>1 DEF NoSearch
<1>6. TodoSound(stage', todo', search', hits') /\ Sealed(stage', pkg')
  BY <1>1, <1>2, <1>5 DEF TodoSound, Sealed
<1> QED
  BY <1>1, <1>4, <1>6, OwnStep DEF IInv, Stages

\* Limits are positive.
LEMMA Limits ==
  Limit \in Nat \ {0} /\ Candidates \in Nat \ {0}
<1>1. MaxResults \in Nat \ {0}
  BY PackageAssumption
<1>2. Max({MaxResults, 3}) \in Nat \ {0}
  <2>1. MaxResults \in Int /\ 3 \in Int
    BY <1>1
  <2>2. Max({MaxResults, 3}) \in {MaxResults, 3}
    BY <2>1, Larger
  <2> QED
    BY <1>1, <2>2
<1>3. Limit \in Nat \ {0}
  BY <1>1, <1>2 DEF Limit
<1> QED
  BY <1>3 DEF Candidates

\* What the present search finds lies in the scope.
LEMMA SearchScope ==
  ASSUME IInv, stage \in SearchStages
  PROVE  /\ ChunksIn(search.roots) \subseteq Under(search.roots)
         /\ Under(search.roots) \subseteq Under(Searched)
         /\ IsFiniteSet(ChunksIn(search.roots))
         /\ TablesTypeOK /\ IsFiniteSet(request.terms) /\ request \in Requests
<1>1. search.roots \subseteq Searched
  BY DEF IInv, SearchSound
<1>2. TablesTypeOK /\ request \in Requests /\ IsFiniteSet(request.terms)
  BY PackageAssumption DEF IInv
<1>3. ChunksIn(search.roots) \subseteq Under(search.roots) /\ IsFiniteSet(ChunksIn(search.roots))
  BY <1>2, RootChunks
<1> QED
  BY <1>1, <1>2, <1>3 DEF Under

\* What was found under searched roots is of documents in the scope.
LEMMA UnderScope ==
  Under(Searched) \subseteq ScopedChunk
<1>1. \A c \in Under(Searched) : c \in Chunk /\ c.doc \in Docs /\ c.rev \in past[c.doc]
  BY ChunkText DEF Under
<1>2. \A c \in Under(Searched) : RootOf(c) \in Had(c.doc) \cap Searched
  BY <1>1 DEF Under, Had, RootOf, Row
<1> QED
  BY <1>1, <1>2 DEF ScopedChunk, ScopedDocs

\* What a statement finds is added to what was found.
LEMMA FoundStep ==
  ASSUME IInv, stage \in SearchStages, Reads, NEW chunks, chunks \subseteq ChunksIn(search.roots),
         Found(chunks), stage' \in SearchStages, todo' = todo, hits' = hits, pkg' = pkg
  PROVE  IInv'
<1>1. chunks \subseteq Under(search.roots) /\ chunks \subseteq Chunk /\ IsFiniteSet(chunks)
  BY SearchScope, FS_Subset DEF Under
<1>2. SearchSound(search) /\ TodoSound(stage, todo, search, hits)
  BY DEF IInv
<1>3. IsFiniteSet(search.found \cup chunks)
  BY <1>1, <1>2, FS_Union DEF SearchSound
<1> DEFINE all == search.found \cup chunks
<1>4. search' = [search EXCEPT !.found = all]
  BY DEF Found
<1>5. all \subseteq Under(search.roots) /\ all \subseteq Chunk
  BY <1>1, <1>2 DEF SearchSound
<1> HIDE DEF all
<1>6. SearchSound(search') /\ search'.roots = search.roots
  BY <1>2, <1>3, <1>4, <1>5 DEF SearchSound, all
<1>7. TodoSound(stage', todo', search', hits')
  BY <1>2, <1>6 DEF TodoSound, SearchStages
<1>8. stage' \in Stages /\ Sealed(stage', pkg')
  BY DEF SearchStages, Stages, Sealed
<1> QED
  BY <1>6, <1>7, <1>8, OwnStep DEF IInv

\* The statements of a search.
LEMMA SearchAllStep ==
  ASSUME IInv, SearchAll
  PROVE  IInv'
<1> DEFINE all == FullText(request, search.roots, Candidates)
<1>1. /\ stage \in SearchStages /\ Reads /\ Found(all) /\ stage' \in SearchStages
      /\ todo' = todo /\ hits' = hits /\ pkg' = pkg
  BY DEF SearchAll, SearchStages
<1>2. all \subseteq ChunksIn(search.roots)
  BY <1>1, SearchScope, Limits, TextSearch
<1> HIDE DEF all
<1> QED
  BY <1>1, <1>2, FoundStep

\* The statement with any of the terms.
LEMMA SearchAnyStep ==
  ASSUME IInv, SearchAny
  PROVE  IInv'
<1> DEFINE any == AnyText(request, search.roots, Candidates)
<1>1. /\ stage \in SearchStages /\ Reads /\ Found(any) /\ stage' \in SearchStages
      /\ todo' = todo /\ hits' = hits /\ pkg' = pkg
  BY DEF SearchAny, SearchStages
<1>2. any \subseteq ChunksIn(search.roots)
  BY <1>1, SearchScope, Limits, TextSearch
<1> HIDE DEF any
<1> QED
  BY <1>1, <1>2, FoundStep

\* The statement by path and title.
LEMMA SearchTitlesStep ==
  ASSUME IInv, SearchTitles
  PROVE  IInv'
<1> DEFINE titled == ByTitle(request, search.roots)
<1>1. /\ stage \in SearchStages /\ Reads /\ Found(titled) /\ stage' \in SearchStages
      /\ todo' = todo /\ hits' = hits /\ pkg' = pkg
  BY DEF SearchTitles, SearchStages
<1>2. titled \subseteq ChunksIn(search.roots)
  BY DEF ByTitle
<1> HIDE DEF titled
<1> QED
  BY <1>1, <1>2, FoundStep

\* The statement that counts the terms.
LEMMA FrequenciesStep ==
  ASSUME IInv, ReadFrequencies
  PROVE  IInv'
<1> DEFINE terms == LookupTerms(request, search.roots)
<1>1. /\ stage \in SearchStages /\ Reads /\ stage' \in SearchStages
      /\ todo' = todo /\ hits' = hits /\ pkg' = pkg /\ search' = [search EXCEPT !.terms = terms]
  BY DEF ReadFrequencies, SearchStages
<1>2. terms \subseteq request.terms
  BY DEF LookupTerms
<1> HIDE DEF terms
<1>3. SearchSound(search) /\ TodoSound(stage, todo, search, hits)
  BY DEF IInv
<1>4. SearchSound(search') /\ search'.roots = search.roots
  BY <1>1, <1>2, <1>3 DEF SearchSound
<1>5. TodoSound(stage', todo', search', hits')
  BY <1>1, <1>3, <1>4 DEF TodoSound, SearchStages
<1>6. stage' \in Stages /\ Sealed(stage', pkg')
  BY <1>1 DEF SearchStages, Stages, Sealed
<1> QED
  BY <1>1, <1>4, <1>5, <1>6, OwnStep DEF IInv

\* The statement that reads postings and vectors.
LEMMA PostingsStep ==
  ASSUME IInv, ReadPostings
  PROVE  IInv'
<1> DEFINE ids == ByVector(request, search.roots, search.terms, Limit)
<1>1. /\ stage \in SearchStages /\ Reads /\ stage' \in SearchStages
      /\ todo' = todo /\ hits' = hits /\ pkg' = pkg /\ search' = [search EXCEPT !.ids = ids]
  BY DEF ReadPostings, SearchStages
<1>2. ids \subseteq ChunksIn(search.roots)
  BY <1>1, SearchScope, Limits, VectorSearch
<1> HIDE DEF ids
<1>3. ids \subseteq Under(search.roots) /\ ids \subseteq Chunk /\ IsFiniteSet(ids)
  BY <1>1, <1>2, SearchScope, FS_Subset DEF Under
<1>4. SearchSound(search) /\ TodoSound(stage, todo, search, hits)
  BY DEF IInv
<1>5. SearchSound(search') /\ search'.roots = search.roots
  BY <1>1, <1>3, <1>4 DEF SearchSound
<1>6. TodoSound(stage', todo', search', hits')
  BY <1>1, <1>4, <1>5 DEF TodoSound, SearchStages
<1>7. stage' \in Stages /\ Sealed(stage', pkg')
  BY <1>1 DEF SearchStages, Stages, Sealed
<1> QED
  BY <1>1, <1>5, <1>6, <1>7, OwnStep DEF IInv
\* A search ends with what was found before and, when it found anything,
\* with something of its own.
LEMMA Merged ==
  ASSUME IInv, EndSearch
  PROVE  \E order \in Seq(ScopedChunk) :
           /\ hits' = [i \in DOMAIN order |-> Shown(order[i])]
           /\ \A i \in DOMAIN hits : \E k \in 1..Len(order) : order[k] = hits[i].lines
           /\ search.found # {} =>
                \E k \in 1..Len(order) : order[k] \in Under(search.roots)
<1> DEFINE C == search.found \cup {c \in search.ids : Stored(c)}
           scores == [c \in C |-> Score(c, request)]
           s == Sorted(C, LAMBDA c, d : Ahead(c, d, scores))
           best == Diversify(s, Limit)
           merged == Distinct(PlacesOf(hits) \o best)
           last == Len(todo) = 1
           M == ToSet(merged)
           scores2 == [c \in M |-> Score(c, request) + Bias(c, request)]
           s2 == Sorted(M, LAMBDA c, d : Ahead(c, d, scores2))
           order == IF last /\ Grouped THEN s2 ELSE merged
           X == ScopedChunk
<1>1. stage \in SearchStages /\ hits' = [i \in DOMAIN order |-> Shown(order[i])]
  <2>1. stage \in SearchStages
    BY DEF EndSearch, SearchStages
  <2>2. s = Ranked(C, LAMBDA c : Score(c, request))
    BY DEF Ranked
  <2>3. s2 = Ranked(M, LAMBDA c : Score(c, request) + Bias(c, request))
    BY DEF Ranked
  <2> HIDE DEF s2, scores2, s, scores
  <2> QED
    BY <2>1, <2>2, <2>3 DEF EndSearch
<1>2. C \subseteq Under(search.roots) /\ C \subseteq X /\ X \subseteq Chunk
      /\ IsFiniteSet(C)
  <2>1. /\ search.found \subseteq Under(search.roots) /\ search.ids \subseteq Under(search.roots)
        /\ IsFiniteSet(search.found) /\ IsFiniteSet(search.ids)
    BY DEF IInv, SearchSound
  <2>2. {c \in search.ids : Stored(c)} \in SUBSET search.ids
    OBVIOUS
  <2>3. IsFiniteSet({c \in search.ids : Stored(c)})
    BY <2>1, <2>2, FS_Subset
  <2>4. IsFiniteSet(C)
    BY <2>1, <2>3, FS_Union
  <2>5. Under(search.roots) \subseteq X
    BY <1>1, SearchScope, UnderScope
  <2> QED
    BY <2>1, <2>4, <2>5 DEF ScopedChunk
<1>3. scores \in [C -> Int]
  <2> HIDE DEF C
  <2> QED
    BY <1>2, Scores
<1> HIDE DEF C, X
<1>4. /\ s \in Seq(C) /\ \A e \in C : \E i \in 1..Len(s) : s[i] = e
  <2> HIDE DEF scores
  <2>1. C \in SUBSET Chunk /\ IsFiniteSet(C)
    BY <1>2
  <2>2. LET t == Sorted(C, LAMBDA c, d : Ahead(c, d, scores))
        IN  /\ t \in Seq(C) /\ Len(t) = Cardinality(C)
            /\ \A e \in C : \E i \in 1..Len(t) : t[i] = e
    BY <1>3, <2>1, RankedChunks, Zenon
  <2> QED
    BY <2>2, Zenon
<1> HIDE DEF s, scores
<1>5. best \in Seq(C) /\ (C # {} => best # <<>>)
  <2>1. Limit \in Nat \ {0} /\ (C # {} => s # <<>>)
    BY <1>4, Limits
  <2> QED
    BY <1>4, <2>1, Diversified
<1> HIDE DEF best
<1>6. PlacesOf(hits) \in Seq(X) /\ Len(PlacesOf(hits)) = Len(hits) /\ Len(hits) \in Nat
      /\ DOMAIN hits = 1..Len(hits)
      /\ \A i \in 1..Len(hits) : PlacesOf(hits)[i] = hits[i].lines
  <2>1. hits \in Seq(ScopedHit)
    BY DEF IInv
  <2>2. DOMAIN hits = 1..Len(hits) /\ Len(hits) \in Nat
        /\ \A i \in 1..Len(hits) : hits[i] \in ScopedHit
    BY <2>1
  <2>3. \A i \in 1..Len(hits) : hits[i].lines \in X
    BY <2>2 DEF ScopedHit, X
  <2>4. PlacesOf(hits) = [i \in 1..Len(hits) |-> hits[i].lines]
    BY <2>2 DEF PlacesOf
  <2> QED
    BY <2>2, <2>3, <2>4
<1> DEFINE p == PlacesOf(hits)
           both == p \o best
<1>7. /\ both \in Seq(X) /\ Len(both) = Len(hits) + Len(best) /\ Len(best) \in Nat
      /\ \A i \in 1..Len(hits) : both[i] = hits[i].lines
      /\ \A i \in 1..Len(best) : both[Len(hits) + i] = best[i]
  <2>1. best \in Seq(X)
    BY <1>2, <1>5
  <2> HIDE DEF p
  <2> QED
    BY <1>6, <2>1 DEF p
<1> HIDE DEF both
<1>8. /\ merged \in Seq(X)
      /\ \A j \in 1..Len(both) : \E k \in 1..Len(merged) : merged[k] = both[j]
  <2>1. LET t == Distinct(both)
        IN  /\ t \in Seq(X)
            /\ \A j \in 1..Len(both) : \E k \in 1..Len(t) : k <= j /\ t[k] = both[j]
    BY <1>7, DistinctElements
  <2>2. merged = Distinct(both)
    BY DEF both
  <2> HIDE DEF merged
  <2> QED
    BY <2>1, <2>2
<1> HIDE DEF merged
<1>9. /\ M \subseteq X /\ IsFiniteSet(M) /\ \A k \in 1..Len(merged) : merged[k] \in M
  <2>1. DOMAIN merged = 1..Len(merged) /\ Len(merged) \in Nat
    BY <1>8
  <2>2. M = {merged[k] : k \in 1..Len(merged)}
    BY <2>1 DEF ToSet
  <2>3. IsFiniteSet(1..Len(merged))
    BY <2>1, FS_Interval
  <2>4. IsFiniteSet({merged[k] : k \in 1..Len(merged)})
    BY <2>3, Image
  <2> HIDE DEF M
  <2> QED
    BY <1>8, <2>2, <2>4
<1>10. scores2 \in [M -> Int]
  <2>1. \A c \in M : Score(c, request) \in Int /\ Bias(c, request) \in Int
    BY <1>2, <1>9, Scores
  <2> HIDE DEF M
  <2> QED
    BY <2>1
<1> HIDE DEF M
<1>11. /\ s2 \in Seq(M) /\ \A e \in M : \E i \in 1..Len(s2) : s2[i] = e
  <2> HIDE DEF scores2
  <2>1. M \in SUBSET Chunk /\ IsFiniteSet(M)
    BY <1>2, <1>9
  <2>2. LET t == Sorted(M, LAMBDA c, d : Ahead(c, d, scores2))
        IN  /\ t \in Seq(M) /\ Len(t) = Cardinality(M)
            /\ \A e \in M : \E i \in 1..Len(t) : t[i] = e
    BY <1>10, <2>1, RankedChunks, Zenon
  <2> QED
    BY <2>2, Zenon
<1> HIDE DEF s2, scores2
<1>12. order \in Seq(X) /\ \A j \in 1..Len(both) : \E k \in 1..Len(order) : order[k] = both[j]
  <2>1. CASE order = s2
    <3>1. s2 \in Seq(X)
      BY <1>9, <1>11
    <3> HIDE DEF order
    <3> QED
      BY <1>8, <1>9, <1>11, <2>1, <3>1
  <2>2. CASE order = merged
    <3> HIDE DEF order
    <3> QED
      BY <1>8, <2>2
  <2> QED
    BY <2>1, <2>2
<1> HIDE DEF order
<1>13. \A i \in DOMAIN hits : \E k \in 1..Len(order) : order[k] = hits[i].lines
  <2>1. \A i \in 1..Len(hits) : i \in 1..Len(both)
    BY <1>6, <1>7
  <2> QED
    BY <1>6, <1>7, <1>12, <2>1
<1>14. search.found # {} => \E k \in 1..Len(order) : order[k] \in Under(search.roots)
  <2>1. SUFFICES ASSUME search.found # {}
                 PROVE  \E k \in 1..Len(order) : order[k] \in Under(search.roots)
    OBVIOUS
  <2>2. C # {}
    BY <2>1 DEF C
  <2>3. 1 \in 1..Len(best) /\ best[1] \in C
    BY <1>5, <2>2
  <2>4. Len(hits) + 1 \in 1..Len(both) /\ both[Len(hits) + 1] = best[1]
    BY <1>6, <1>7, <2>3
  <2> QED
    BY <1>2, <1>12, <2>3, <2>4
<1> QED
  BY <1>1, <1>12, <1>13, <1>14 DEF X

\* The end of a search, and of the last one.
LEMMA EndSearchStep ==
  ASSUME IInv, EndSearch
  PROVE  IInv'
<1>1. PICK order \in Seq(ScopedChunk) : hits' = [i \in DOMAIN order |-> Shown(order[i])]
  BY Merged
<1>2. hits' \in Seq(ScopedHit)
  <2>1. \A c \in ScopedChunk : Shown(c) \in ScopedHit
    BY ChunkText DEF Shown, ScopedHit, Hit, ScopedChunk
  <2>2. DOMAIN order = 1..Len(order) /\ Len(order) \in Nat
    BY <1>1
  <2>3. \A i \in 1..Len(order) : Shown(order[i]) \in ScopedHit
    BY <1>1, <2>1
  <2> QED
    BY <1>1, <2>2, <2>3
<1>3. /\ Reads /\ pkg' = pkg
      /\ Len(todo) = 1 => todo' = <<>> /\ stage' = "cited" /\ search' = NoSearch
      /\ Len(todo) # 1 => /\ todo' = Tail(todo) /\ stage' = "search"
                          /\ search' = [NoSearch EXCEPT !.roots = todo[2]]
  BY DEF EndSearch
<1>4. todo \in Seq(SUBSET Searched) /\ todo # <<>>
  BY DEF IInv, TodoSound, EndSearch, SearchStages
<1>5. CASE Len(todo) = 1
  <2>1. SearchSound(search')
    BY <1>3, <1>5, FirstSearch
  <2>2. TodoSound(stage', todo', search', hits') /\ Sealed(stage', pkg') /\ stage' \in Stages
    BY <1>3, <1>5 DEF TodoSound, RowSound, NoSearch, Sealed, SearchStages, Stages
  <2> QED
    BY <1>2, <1>3, <2>1, <2>2, OwnStep DEF IInv
<1>6. CASE Len(todo) # 1
  <2>1. /\ Tail(todo) \in Seq(SUBSET Searched) /\ Tail(todo) # <<>> /\ Tail(todo)[1] = todo[2]
        /\ todo[2] \in SUBSET Searched
    <3> DEFINE Z == SUBSET Searched
               t == Tail(todo)
    <3>1. todo \in Seq(Z) /\ todo # <<>>
      BY <1>4
    <3> HIDE DEF Z
    <3>2. Len(todo) \in Nat /\ Len(todo) >= 2
      <4>1. Len(todo) \in Nat /\ Len(todo) # 0
        BY <3>1, EmptySeq
      <4> DEFINE n == Len(todo)
      <4>2. n \in Nat /\ n # 0 /\ n # 1
        BY <1>6, <4>1
      <4> HIDE DEF n
      <4>3. n >= 2
        BY <4>2
      <4> QED
        BY <4>2, <4>3 DEF n
    <3>3. t \in Seq(Z) /\ Len(t) = Len(todo) - 1 /\ todo[2] \in Z
      BY <3>1, <3>2
    <3>4. t[1] = todo[2]
      BY <3>1, <3>2
    <3> HIDE DEF t
    <3>5. t # <<>>
      BY <3>2, <3>3
    <3> QED
      BY <3>3, <3>4, <3>5 DEF Z, t
  <2>2. SearchSound(search')
    BY <1>3, <1>6, <2>1, FirstSearch
  <2>3. search'.roots = todo[2]
    BY <1>3, <1>6 DEF NoSearch
  <2>4. TodoSound(stage', todo', search', hits') /\ Sealed(stage', pkg') /\ stage' \in Stages
    BY <1>3, <1>6, <2>1, <2>3 DEF TodoSound, Sealed, Stages
  <2> QED
    BY <1>2, <1>3, <2>2, <2>4, OwnStep DEF IInv
<1> QED
  BY <1>5, <1>6
\* The elements of a sequence, by one of their fields, are finitely many.
LEMMA FiniteRange ==
  ASSUME NEW X, NEW s \in Seq(X), NEW f
  PROVE  IsFiniteSet({f[s[i]] : i \in DOMAIN s})
<1> DEFINE g == [i \in 1..Len(s) |-> f[s[i]]]
           T == {g[i] : i \in 1..Len(s)}
<1>1. Len(s) \in Nat /\ DOMAIN s = 1..Len(s)
  OBVIOUS
<1>2. IsFiniteSet(1..Len(s))
  BY <1>1, FS_Interval
<1>3. T = {f[s[i]] : i \in DOMAIN s}
  BY <1>1
<1> HIDE DEF g
<1>4. IsFiniteSet(T)
  BY <1>2, Image
<1> QED
  BY <1>3, <1>4

\* The documents of the hits are of searched roots.
LEMMA HitScope ==
  ASSUME IInv
  PROVE  HitDocs \subseteq ScopedDocs /\ HitDocs \subseteq Docs /\ IsFiniteSet(HitDocs)
<1>1. hits \in Seq(ScopedHit)
  BY DEF IInv
<1>2. \A h \in ScopedHit : h.lines.doc \in ScopedDocs
  BY DEF ScopedHit, ScopedChunk
<1>3. \A i \in DOMAIN hits : hits[i] \in ScopedHit
  BY <1>1
<1> DEFINE f == [h \in ScopedHit |-> h.lines.doc]
<1>4. HitDocs = {f[hits[i]] : i \in DOMAIN hits}
  BY <1>3 DEF HitDocs
<1> HIDE DEF f
<1>5. IsFiniteSet(HitDocs)
  BY <1>1, <1>4, FiniteRange
<1> QED
  BY <1>2, <1>3, <1>5 DEF HitDocs, ScopedDocs

\* What is cited and was not hit is of the scope, or a recipe.
LEMMA CitedScope ==
  ASSUME IInv
  PROVE  CitedDocs \in Seq(ScopedDocs \cup Recipes)
<1> DEFINE Z == ScopedDocs \cup Recipes
           X == [uri : Z, authority : Authorities]
           c == pkg.citations
           s == pkg.symbols
           named == [i \in DOMAIN s |-> [uri |-> s[i].doc, authority |-> Row(s[i]).authority]]
           cited == [i \in DOMAIN c |-> [uri |-> c[i].uri, authority |-> c[i].authority]]
           all == named \o cited
           I == {i \in DOMAIN all : all[i].uri \notin HitDocs}
           t == At(all, I)
<1>1. c \in Seq(ScopedCitation) /\ s \in Seq(ScopedSymbol)
  BY DEF IInv, SoundPackage
<1>2. CitedDocs = ByAuthority(t, FALSE)
  BY DEF CitedDocs, Where
<1>3. \A x \in ScopedSymbol : x.doc \in Z /\ Row(x).authority \in Authorities
  BY DEF ScopedSymbol, Symbol, Row, Rows, Authorities
<1>4. \A x \in ScopedCitation : x.uri \in Z /\ x.authority \in Authorities
  BY DEF ScopedCitation, Citation, InScope, ScopedDocs
<1> HIDE DEF c, s, Z
<1>5. named \in Seq(X)
  <2>1. DOMAIN s = 1..Len(s) /\ Len(s) \in Nat /\ \A i \in 1..Len(s) : s[i] \in ScopedSymbol
    BY <1>1
  <2>2. \A i \in 1..Len(s) : [uri |-> s[i].doc, authority |-> Row(s[i]).authority] \in X
    BY <1>3, <2>1
  <2> HIDE DEF X
  <2> QED
    BY <2>1, <2>2
<1>6. cited \in Seq(X)
  <2>1. DOMAIN c = 1..Len(c) /\ Len(c) \in Nat /\ \A i \in 1..Len(c) : c[i] \in ScopedCitation
    BY <1>1
  <2>2. \A i \in 1..Len(c) : [uri |-> c[i].uri, authority |-> c[i].authority] \in X
    BY <1>4, <2>1
  <2> HIDE DEF X
  <2> QED
    BY <2>1, <2>2
<1>7. \A x \in X : x.uri \in Z
  OBVIOUS
<1> HIDE DEF named, cited, X
<1>8. all \in Seq(X)
  BY <1>5, <1>6
<1> HIDE DEF all
<1>9. I \in SUBSET (1..Len(all))
  BY <1>8
<1> HIDE DEF I
<1>10. t \in Seq(X)
  BY <1>8, <1>9, Selection
<1>11. Z \in SUBSET (Docs \cup Recipes)
  BY DEF Z, ScopedDocs
<1> HIDE DEF t
<1>12. ByAuthority(t, FALSE) \in Seq(Z)
  BY <1>7, <1>10, <1>11, AuthorityOrder
<1> QED
  BY <1>2, <1>12 DEF Z

\* The documents of the hits that are read again are in the scope.
LEMMA SignalScope ==
  ASSUME IInv
  PROVE  SignalDocs \in Seq(ScopedDocs)
<1> DEFINE X == [uri : ScopedDocs, authority : Authorities]
           t == [i \in DOMAIN hits |-> [uri |-> hits[i].lines.doc, authority |-> RowOf(hits[i]).authority]]
<1>1. hits \in Seq(ScopedHit)
  BY DEF IInv
<1>2. \A h \in ScopedHit : h.lines.doc \in ScopedDocs /\ RowOf(h).authority \in Authorities
  BY DEF ScopedHit, ScopedChunk, Hit, Chunk, RowOf, Rows, Authorities
<1>3. DOMAIN hits = 1..Len(hits) /\ Len(hits) \in Nat /\ \A i \in 1..Len(hits) : hits[i] \in ScopedHit
  BY <1>1
<1>4. \A i \in 1..Len(hits) : [uri |-> hits[i].lines.doc, authority |-> RowOf(hits[i]).authority] \in X
  BY <1>2, <1>3
<1>5. \A x \in X : x.uri \in ScopedDocs
  OBVIOUS
<1> HIDE DEF X
<1>6. t \in Seq(X)
  BY <1>3, <1>4
<1>7. SignalDocs = ByAuthority(t, TRUE)
  BY DEF SignalDocs
<1>8. ScopedDocs \in SUBSET (Docs \cup Recipes)
  BY DEF ScopedDocs
<1> HIDE DEF t
<1>9. ByAuthority(t, TRUE) \in Seq(ScopedDocs)
  BY <1>5, <1>6, <1>8, AuthorityOrder
<1> QED
  BY <1>7, <1>9

\* Chunks of a document in the scope may be added to the hits, with any row
\* that the document had.
LEMMA MoreHits ==
  ASSUME IInv, NEW d \in ScopedDocs, NEW row \in past[d],
         NEW best \in Seq({c \in ScopedChunk : c.doc = d})
  PROVE  LET more == hits \o [i \in DOMAIN best |-> Whole(best[i], row)]
         IN  /\ more \in Seq(ScopedHit)
             /\ DOMAIN hits \subseteq DOMAIN more /\ \A i \in DOMAIN hits : more[i] = hits[i]
<1> DEFINE w == [i \in DOMAIN best |-> Whole(best[i], row)]
           more == hits \o w
           X == {c \in ScopedChunk : c.doc = d}
<1>1. hits \in Seq(ScopedHit)
  BY DEF IInv
<1>2. w \in Seq(ScopedHit)
  <2>1. row \in Revisions
    BY DEF IInv, TablesTypeOK, ScopedDocs
  <2>2. \A c \in X : Whole(c, row) \in ScopedHit
    BY <2>1 DEF Whole, ScopedHit, Hit, ScopedChunk
  <2> HIDE DEF X
  <2>3. DOMAIN best = 1..Len(best) /\ Len(best) \in Nat /\ \A i \in 1..Len(best) : best[i] \in X
    BY DEF X
  <2>4. \A i \in 1..Len(best) : Whole(best[i], row) \in ScopedHit
    BY <2>2, <2>3
  <2> QED
    BY <2>3, <2>4
<1> HIDE DEF w
<1>3. /\ more \in Seq(ScopedHit) /\ Len(more) = Len(hits) + Len(w)
      /\ \A i \in 1..Len(hits) : more[i] = hits[i]
  BY <1>1, <1>2
<1>4. Len(hits) \in Nat /\ Len(w) \in Nat /\ DOMAIN hits = 1..Len(hits) /\ DOMAIN more = 1..Len(more)
  <2> HIDE DEF more
  <2> QED
    BY <1>1, <1>2, <1>3
<1> HIDE DEF more
<1>5. DOMAIN hits \subseteq DOMAIN more /\ \A i \in DOMAIN hits : more[i] = hits[i]
  BY <1>3, <1>4
<1> QED
  BY <1>3, <1>5 DEF more, w

\* The chunks of a document in scope are in scope.
LEMMA ScopedChunks ==
  ASSUME IInv, NEW d \in ScopedDocs
  PROVE  /\ ChunksOf(d) \in Seq({c \in ScopedChunk : c.doc = d}) /\ IsFiniteSet(ToSet(ChunksOf(d)))
         /\ \A c \in ToSet(ChunksOf(d)) : c \in ScopedChunk /\ c.doc = d /\ Stored(c)
<1> DEFINE X == {c \in Chunk : c.doc = d /\ Stored(c)}
           Y == {c \in ScopedChunk : c.doc = d}
           s == ChunksOf(d)
<1>1. d \in Docs /\ TablesTypeOK
  BY DEF ScopedDocs, IInv
<1>2. s \in Seq(X) /\ IsFiniteSet(ToSet(s))
  BY <1>1, DocumentChunks
<1>3. X \subseteq Y /\ \A c \in X : c.doc = d /\ Stored(c)
  <2>1. \A c \in X : c.rev \in Revisions /\ c.rev # 0 /\ corpus[d] = c.rev
    BY ChunkText, RetrievalAssumption DEF CorpusAssumption, Stored
  <2>2. \A c \in X : c.rev \in past[d]
    BY <1>1, <2>1 DEF TablesTypeOK
  <2> QED
    BY <2>2 DEF ScopedChunk
<1> HIDE DEF X, Y, s
<1>4. s \in Seq(Y)
  BY <1>2, <1>3
<1>5. ToSet(s) \subseteq X
  BY <1>2 DEF ToSet
<1> QED
  BY <1>2, <1>3, <1>4, <1>5 DEF s, Y

\* After a document comes the next, and its row is still to be read.
LEMMA NextRead ==
  ASSUME IInv, stage \in {"cited", "signals"}, todo # <<>>, NextDocument
  PROVE  /\ SearchSound(search') /\ stage' \in {"cited", "signals", "rank"}
         /\ \A h : TodoSound(stage', todo', search', h)
<1> DEFINE Z == IF stage = "cited" THEN ScopedDocs \cup Recipes ELSE ScopedDocs
           t == Tail(todo)
<1>1. todo \in Seq(Z)
  BY DEF IInv, TodoSound
<1> HIDE DEF Z
<1>2. t \in Seq(Z) /\ <<>> \in Seq(Z)
  BY <1>1
<1>3. /\ search' = NoSearch
      /\ \/ todo' = t /\ stage' = stage
         \/ todo' = <<>> /\ stage' = IF stage = "cited" THEN "signals" ELSE "rank"
  BY DEF NextDocument
<1> HIDE DEF t
<1>4. SearchSound(search') /\ search'.row = 0
  BY <1>3, FirstSearch DEF NoSearch
<1>5. \A h : TodoSound(stage', todo', search', h)
  <2>1. CASE todo' = t /\ stage' = stage
    BY <1>2, <1>4, <2>1 DEF TodoSound, RowSound, SearchStages, Z
  <2>2. CASE todo' = <<>> /\ stage' = IF stage = "cited" THEN "signals" ELSE "rank"
    BY <1>4, <2>2 DEF TodoSound, RowSound, SearchStages
  <2> QED
    BY <1>3, <2>1, <2>2
<1> QED
  BY <1>3, <1>4, <1>5

\* The row of a document is read.
LEMMA RowStep ==
  ASSUME IInv, ReadRow
  PROVE  IInv'
<1> DEFINE d == Head(todo)
<1>1. /\ stage \in {"cited", "signals"} /\ todo # <<>> /\ d \in Docs /\ corpus[d] # 0
      /\ search' = [search EXCEPT !.row = corpus[d]]
      /\ stage' = stage /\ todo' = todo /\ hits' = hits /\ pkg' = pkg /\ Reads
  BY DEF ReadRow
<1>2. TablesTypeOK /\ SearchSound(search) /\ TodoSound(stage, todo, search, hits)
  BY DEF IInv
<1>3. todo \in Seq(ScopedDocs \cup Recipes)
  BY <1>1, <1>2, WiderSequence DEF TodoSound
<1>4. d = todo[1] /\ d \in ScopedDocs
  <2>1. d \in ScopedDocs \cup Recipes /\ d = todo[1]
    BY <1>1, <1>3
  <2>2. d \notin Recipes
    BY <1>1, RetrievalAssumption DEF CorpusAssumption
  <2> HIDE DEF d
  <2> QED
    BY <2>1, <2>2
<1> HIDE DEF d
<1>5. corpus[d] \in past[d] /\ corpus[d] \in Revisions \cup {0}
  BY <1>1, <1>2 DEF TablesTypeOK
<1>6. SearchSound(search') /\ search'.row = corpus[d]
  BY <1>1, <1>2, <1>5 DEF SearchSound
<1>7. RowSound(todo, search'.row)
  BY <1>1, <1>4, <1>5, <1>6 DEF RowSound
<1>8. TodoSound(stage', todo', search', hits') /\ Sealed(stage', pkg')
  BY <1>1, <1>2, <1>7 DEF TodoSound, Sealed, SearchStages
<1> QED
  BY <1>1, <1>6, <1>8, OwnStep DEF IInv

\* There is no such document, or none any more.
LEMMA NoRowStep ==
  ASSUME IInv, NoRow
  PROVE  IInv'
<1>1. /\ stage \in {"cited", "signals"} /\ todo # <<>> /\ NextDocument
      /\ hits' = hits /\ pkg' = pkg /\ Reads
  BY DEF NoRow
<1>2. /\ SearchSound(search') /\ stage' \in {"cited", "signals", "rank"}
      /\ TodoSound(stage', todo', search', hits')
  BY <1>1, NextRead
<1>3. Sealed(stage', pkg') /\ stage' \in Stages
  BY <1>2 DEF Sealed, Stages
<1> QED
  BY <1>1, <1>2, <1>3, OwnStep DEF IInv

\* Chunks of the next document make new hits.
LEMMA ChunksStep ==
  ASSUME IInv, stage \in {"cited", "signals"}, todo # <<>>, search.row # 0,
         NEW best \in Seq({c \in ScopedChunk : c.doc = todo[1]}),
         hits' = hits \o [i \in DOMAIN best |-> Whole(best[i], search.row)],
         NextDocument, pkg' = pkg, Reads
  PROVE  IInv' /\ DOMAIN hits \subseteq DOMAIN hits' /\ \A i \in DOMAIN hits : hits'[i] = hits[i]
<1>1. todo[1] \in ScopedDocs /\ search.row \in past[todo[1]]
  BY DEF IInv, TodoSound, RowSound
<1>2. hits' \in Seq(ScopedHit) /\ DOMAIN hits \subseteq DOMAIN hits'
      /\ \A i \in DOMAIN hits : hits'[i] = hits[i]
  BY <1>1, MoreHits
<1>3. /\ SearchSound(search') /\ stage' \in {"cited", "signals", "rank"}
      /\ TodoSound(stage', todo', search', hits')
  BY NextRead
<1>4. Sealed(stage', pkg') /\ stage' \in Stages
  BY <1>3 DEF Sealed, Stages
<1>5. IInv'
  BY <1>2, <1>3, <1>4, OwnStep DEF IInv
<1> QED
  BY <1>2, <1>5

\* The best chunks of a cited document.
LEMMA CitedBest ==
  ASSUME IInv, ReadCited
  PROVE  \E best \in Seq({c \in ScopedChunk : c.doc = todo[1]}) :
           hits' = hits \o [i \in DOMAIN best |-> Whole(best[i], search.row)]
<1> DEFINE d == todo[1]
           best == First(2, ChunksOf(d))
<1>1. todo \in Seq(ScopedDocs \cup Recipes) /\ todo # <<>> /\ d \in ScopedDocs
  BY DEF ReadCited, IInv, TodoSound, RowSound
<1>2. Head(todo) = d
  BY <1>1
<1>3. hits' = hits \o [i \in DOMAIN best |-> Whole(best[i], search.row)]
  BY <1>2 DEF ReadCited
<1> HIDE DEF d
<1> DEFINE X == {c \in ScopedChunk : c.doc = d}
<1>4. ChunksOf(d) \in Seq(X) /\ 2 \in Nat
  BY <1>1, ScopedChunks
<1> HIDE DEF X
<1>5. best \in Seq(X)
  BY <1>4, FirstElements
<1> HIDE DEF best
<1> QED
  BY <1>3, <1>5 DEF X, d

\* The steps of the cited documents.
LEMMA CitedSteps ==
  ASSUME IInv, BeginCited \/ ReadCited \/ NothingCited
  PROVE  IInv'
<1>1. TodoSound(stage, todo, search, hits) /\ SearchSound(search) /\ stage = "cited" /\ Reads
      /\ pkg' = pkg
  BY DEF IInv, BeginCited, ReadCited, NothingCited
<1>2. CASE BeginCited
  <2>1. todo' = CitedDocs /\ stage' = stage /\ hits' = hits /\ search' = search /\ todo = <<>>
    BY <1>2 DEF BeginCited
  <2>2. search.row = 0
    BY <1>1, <2>1 DEF TodoSound, RowSound
  <2>3. TodoSound(stage', todo', search', hits') /\ Sealed(stage', pkg')
    BY <1>1, <2>1, <2>2, CitedScope DEF TodoSound, RowSound, Sealed, SearchStages
  <2> QED
    BY <1>1, <2>1, <2>3, OwnStep DEF IInv
<1>3. CASE ReadCited
  <2>1. todo # <<>> /\ search.row # 0 /\ NextDocument
    BY <1>3 DEF ReadCited
  <2>2. PICK best \in Seq({c \in ScopedChunk : c.doc = todo[1]}) :
               hits' = hits \o [i \in DOMAIN best |-> Whole(best[i], search.row)]
    BY <1>3, CitedBest
  <2> QED
    BY <1>1, <2>1, <2>2, ChunksStep
<1>4. CASE NothingCited
  <2>1. todo' = todo /\ todo = <<>> /\ stage' = "signals" /\ hits' = hits /\ search' = search
    BY <1>4 DEF NothingCited
  <2>2. TodoSound(stage', todo', search', hits') /\ Sealed(stage', pkg') /\ stage' \in Stages
    BY <1>1, <2>1 DEF TodoSound, RowSound, Sealed, SearchStages, Stages
  <2> QED
    BY <1>1, <2>1, <2>2, OwnStep DEF IInv
<1> QED
  BY <1>2, <1>3, <1>4

\* The best signal chunks of a document.
LEMMA SignalsBest ==
  ASSUME IInv, ReadSignals
  PROVE  \E best \in Seq({c \in ScopedChunk : c.doc = todo[1]}) :
           hits' = hits \o [i \in DOMAIN best |-> Whole(best[i], search.row)]
<1> DEFINE d == Head(todo)
           new == {c \in ToSet(ChunksOf(d)) : ~Contains(PlacesOf(hits), c) /\ Signal(c) > 0}
           less(c, e) == Signal(c) > Signal(e) \/ (Signal(c) = Signal(e) /\ c.ord < e.ord)
           best == First(2, Sorted(new, less))
           a == [c \in new |-> 0 - Signal(c)]
           b == [c \in new |-> c.ord]
           R == {p \in new \X new : \/ a[p[1]] < a[p[2]]
                                    \/ a[p[1]] = a[p[2]] /\ b[p[1]] < b[p[2]]}
<1>1. hits' = hits \o [i \in DOMAIN best |-> Whole(best[i], search.row)]
  BY DEF ReadSignals
<1>2. todo \in Seq(ScopedDocs) /\ todo # <<>> /\ request \in Requests
  BY DEF ReadSignals, IInv, TodoSound
<1>3. d \in ScopedDocs /\ d = todo[1]
  BY <1>2
<1>4. /\ IsFiniteSet(ToSet(ChunksOf(d)))
      /\ \A c \in ToSet(ChunksOf(d)) : c \in ScopedChunk /\ c.doc = d /\ Stored(c)
  <2> HIDE DEF d
  <2> QED
    BY <1>3, ScopedChunks
<1>5. new \in SUBSET ToSet(ChunksOf(d))
  OBVIOUS
<1>6. IsFiniteSet(new) /\ \A c \in new : c \in ScopedChunk /\ c.doc = d /\ c.rev = corpus[d]
                                          /\ c \in Chunk
  <2> HIDE DEF new, d
  <2>1. IsFiniteSet(new)
    BY <1>4, <1>5, FS_Subset
  <2> QED
    BY <1>4, <1>5, <2>1 DEF Stored, ScopedChunk
<1>7. ASSUME NEW c \in new
      PROVE  Signal(c) \in Int /\ c.ord \in Int /\ c = [doc |-> c.doc, rev |-> c.rev, ord |-> c.ord]
  <2> HIDE DEF new, d
  <2>1. IsFiniteSet(Text(c).signals) /\ IsFiniteSet(Text(c).terms) /\ c.ord \in Nat
    BY <1>6, ChunkText
  <2>2. IsFiniteSet(request.terms)
    BY <1>2, PackageAssumption
  <2>3. request.terms \cap Text(c).terms \in SUBSET request.terms
    OBVIOUS
  <2>4. IsFiniteSet(request.terms \cap Text(c).terms)
    BY <2>2, <2>3, FS_Subset
  <2>5. Cardinality(request.terms \cap Text(c).terms) \in Nat /\ Cardinality(Text(c).signals) \in Nat
    BY <2>1, <2>4, FS_CardinalityType
  <2>6. Signal(c) \in Int
    BY <2>5 DEF Signal
  <2>7. c \in [doc : Docs, rev : Revisions, ord : Nat \ {0}]
    BY <1>6 DEF Chunk
  <2> QED
    BY <2>1, <2>6, <2>7
<1> HIDE DEF new, d
<1>8. a \in [new -> Int] /\ b \in [new -> Int]
  BY <1>7
<1>9. ASSUME NEW c \in new, NEW e \in new, a[c] = a[e], b[c] = b[e] PROVE c = e
  <2>1. c.ord = e.ord /\ c.doc = e.doc /\ c.rev = e.rev
    BY <1>6, <1>9
  <2> QED
    BY <1>7, <2>1
<1>10. Sorted(new, less) = Ordered(new, R)
  <2>1. \A c, e \in new : less(c, e) <=> a[c] < a[e] \/ (a[c] = a[e] /\ b[c] < b[e])
    <3>1. SUFFICES ASSUME NEW c \in new, NEW e \in new
                   PROVE  less(c, e) <=> a[c] < a[e] \/ (a[c] = a[e] /\ b[c] < b[e])
      BY Zenon
    <3>2. a[c] = 0 - Signal(c) /\ a[e] = 0 - Signal(e) /\ b[c] = c.ord /\ b[e] = e.ord
      OBVIOUS
    <3>3. Signal(c) \in Int /\ Signal(e) \in Int
      BY <1>7
    <3> HIDE DEF a, b
    <3> QED
      BY <3>2, <3>3
  <2> HIDE DEF a, b, less
  <2>2. {p \in new \X new : less(p[1], p[2])} = R
    BY <2>1
  <2> QED
    BY <2>2 DEF Sorted
<1> HIDE DEF a, b
<1>11. StrictOrder(new, R)
  BY <1>8, <1>9, TwoKeys
<1> HIDE DEF R
<1>12. First(2, Ordered(new, R)) \in Seq(new)
  <2>1. 2 \in Nat
    OBVIOUS
  <2> QED
    BY <1>6, <1>11, <2>1, Best
<1>13. best \in Seq(new)
  BY <1>10, <1>12
<1> HIDE DEF best
<1>14. best \in Seq({c \in ScopedChunk : c.doc = todo[1]})
  BY <1>3, <1>6, <1>13
<1> QED
  BY <1>1, <1>14

\* The steps of the signal chunks.
LEMMA SignalsSteps ==
  ASSUME IInv, BeginSignals \/ ReadSignals
  PROVE  IInv'
<1>1. TodoSound(stage, todo, search, hits) /\ SearchSound(search) /\ stage = "signals" /\ Reads
      /\ pkg' = pkg
  BY DEF IInv, BeginSignals, ReadSignals
<1>2. CASE BeginSignals
  <2>1. hits' = hits /\ todo = <<>> /\ search' = search
        /\ ((stage' = "rank" /\ todo' = todo) \/ (todo' = SignalDocs /\ stage' = stage))
    BY <1>2 DEF BeginSignals
  <2>2. SignalDocs \in Seq(ScopedDocs)
    BY SignalScope
  <2>3. search.row = 0
    BY <1>1, <2>1 DEF TodoSound, RowSound
  <2>4. TodoSound(stage', todo', search', hits') /\ Sealed(stage', pkg') /\ stage' \in Stages
    BY <1>1, <2>1, <2>2, <2>3 DEF TodoSound, RowSound, Sealed, SearchStages, Stages
  <2> QED
    BY <1>1, <2>1, <2>4, OwnStep DEF IInv
<1>3. CASE ReadSignals
  <2>1. todo # <<>> /\ search.row # 0 /\ NextDocument
    BY <1>3 DEF ReadSignals
  <2>2. PICK best \in Seq({c \in ScopedChunk : c.doc = todo[1]}) :
               hits' = hits \o [i \in DOMAIN best |-> Whole(best[i], search.row)]
    BY <1>3, SignalsBest
  <2> QED
    BY <1>1, <2>1, <2>2, ChunksStep
<1> QED
  BY <1>2, <1>3

\* The places of the hits whose bodies are read, in order.
LEMMA BodyOrder ==
  ASSUME IInv, RankBodies
  PROVE  todo' \in Seq(DOMAIN hits)
<1> DEFINE D == DOMAIN hits
           class(i) == LET r == AuthorityRank(RowOf(hits[i]).authority)
                       IN  CASE r = 4 -> 0 [] r = 5 -> 1 [] r = 3 -> 2 [] r <= 2 -> 3 [] OTHER -> 4 + r
           less(i, j) == class(i) < class(j) \/ (class(i) = class(j) /\ i < j)
           a == [i \in D |-> class(i)]
           b == [i \in D |-> i]
           R == {p \in D \X D : \/ a[p[1]] < a[p[2]]
                                \/ a[p[1]] = a[p[2]] /\ b[p[1]] < b[p[2]]}
<1>1. todo' = First(12, Sorted(D, less))
  BY DEF RankBodies
<1>2. D = 1..Len(hits) /\ Len(hits) \in Nat
  <2>1. hits \in Seq(ScopedHit)
    BY DEF IInv
  <2> QED
    BY <2>1
<1>3. IsFiniteSet(D)
  <2> HIDE DEF D
  <2> QED
    BY <1>2, FS_Interval
<1>4. \A i \in D : class(i) \in Int
  <2>1. SUFFICES ASSUME NEW i \in D PROVE class(i) \in Int
    OBVIOUS
  <2> DEFINE r == AuthorityRank(RowOf(hits[i]).authority)
  <2>2. r \in 1..8
    BY Authority
  <2> HIDE DEF r
  <2>3. (CASE r = 4 -> 0 [] r = 5 -> 1 [] r = 3 -> 2 [] r <= 2 -> 3 [] OTHER -> 4 + r) \in Int
    BY <2>2
  <2> QED
    BY <2>3 DEF r
<1> HIDE DEF class
<1>5. a \in [D -> Int]
  BY <1>4
<1>6. b \in [D -> Int] /\ \A i \in D : b[i] = i
  BY <1>2
<1>7. Sorted(D, less) = Ordered(D, R)
  <2>1. \A i, j \in D : less(i, j) <=> a[i] < a[j] \/ (a[i] = a[j] /\ b[i] < b[j])
    OBVIOUS
  <2> HIDE DEF a, b, less, D
  <2>2. {p \in D \X D : less(p[1], p[2])} = R
    BY <2>1
  <2> QED
    BY <2>2 DEF Sorted
<1> HIDE DEF a, b, D
<1>8. StrictOrder(D, R)
  <2>1. \A i, j \in D : a[i] = a[j] /\ b[i] = b[j] => i = j
    BY <1>6
  <2> QED
    BY <1>5, <1>6, <2>1, TwoKeys
<1> HIDE DEF R
<1> DEFINE t == First(12, Ordered(D, R))
<1>9. t \in Seq(D)
  <2>1. 12 \in Nat
    OBVIOUS
  <2> QED
    BY <1>3, <1>8, <2>1, Best
<1> HIDE DEF t
<1>10. todo' = t
  BY <1>1, <1>7 DEF t
<1> QED
  BY <1>9, <1>10 DEF D

\* The steps of the bodies: a chunk is read by the id it was found with.
LEMMA BodySteps ==
  ASSUME IInv, RankBodies \/ ReadBody \/ EndBodies
  PROVE  IInv'
<1>1. Reads /\ search' = search /\ pkg' = pkg /\ SearchSound(search) /\ hits \in Seq(ScopedHit)
  BY DEF IInv, RankBodies, ReadBody, EndBodies
<1>2. CASE RankBodies
  <2>1. stage' = "bodies" /\ hits' = hits /\ todo' \in Seq(DOMAIN hits)
    BY <1>2, BodyOrder DEF RankBodies
  <2>2. TodoSound(stage', todo', search', hits') /\ Sealed(stage', pkg') /\ stage' \in Stages
    BY <2>1 DEF TodoSound, Sealed, SearchStages, Stages
  <2> QED
    BY <1>1, <2>1, <2>2, OwnStep DEF IInv
<1>3. CASE ReadBody
  <2> DEFINE i == Head(todo)
             body == GetChunk(hits[i].lines)
             D == DOMAIN hits
  <2>1. stage = "bodies" /\ stage' = stage /\ todo' = Tail(todo) /\ todo # <<>>
        /\ todo \in Seq(DOMAIN hits)
    BY <1>3 DEF ReadBody, IInv, TodoSound
  <2>2. i \in DOMAIN hits /\ Tail(todo) \in Seq(DOMAIN hits)
    <3> HIDE DEF D
    <3>1. todo \in Seq(D)
      BY <2>1 DEF D
    <3>2. i \in D /\ Tail(todo) \in Seq(D)
      BY <2>1, <3>1
    <3> QED
      BY <3>2 DEF D
  <2>3. hits[i] \in ScopedHit
    BY <1>1, <2>2
  <2>4. body = {} \/ body = {hits[i].lines}
    BY DEF GetChunk
  <2>5. hits' = IF body = {} THEN hits
                ELSE [hits EXCEPT ![i].text = CHOOSE c \in body : TRUE, ![i].full = TRUE]
    BY <1>3 DEF ReadBody
  <2> HIDE DEF body, i
  <2>6. hits' \in Seq(ScopedHit) /\ DOMAIN hits' = DOMAIN hits
    <3>1. CASE body = {}
      BY <1>1, <2>5, <3>1
    <3>2. CASE body # {}
      <4> DEFINE c1 == CHOOSE c \in body : TRUE
                 h == [hits[i] EXCEPT !.text = c1, !.full = TRUE]
      <4>1. c1 = hits[i].lines
        BY <2>4, <3>2
      <4> HIDE DEF c1
      <4>2. h \in ScopedHit
        BY <2>3, <4>1 DEF ScopedHit, Hit
      <4>3. hits' = [hits EXCEPT ![i] = h]
        BY <1>1, <2>2, <2>5, <3>2 DEF c1
      <4> HIDE DEF h
      <4> QED
        BY <1>1, <2>2, <4>2, <4>3
    <3> QED
      BY <3>1, <3>2
  <2>7. TodoSound(stage', todo', search', hits') /\ Sealed(stage', pkg') /\ stage' \in Stages
    BY <2>1, <2>2, <2>6 DEF TodoSound, Sealed, SearchStages, Stages
  <2> QED
    BY <1>1, <2>6, <2>7, OwnStep DEF IInv
<1>4. CASE EndBodies
  <2>1. stage' \in {"harvest", "extract"} /\ hits' = hits
    BY <1>4 DEF EndBodies
  <2>2. TodoSound(stage', todo', search', hits') /\ Sealed(stage', pkg') /\ stage' \in Stages
    BY <2>1 DEF TodoSound, Sealed, SearchStages, Stages
  <2> QED
    BY <1>1, <2>1, <2>2, OwnStep DEF IInv
<1> QED
  BY <1>2, <1>3, <1>4

\* Collecting adds symbols of those that were found.
LEMMA Collected ==
  ASSUME NEW X, NEW out \in Seq(X), NEW found \in Seq(X)
  PROVE  Collect(out, found) \in Seq(X)
<1> DEFINE I == {i \in 1..Len(found) :
                   /\ ~Contains(out, found[i])
                   /\ \A j \in 1..(i - 1) : found[j] # found[i]
                   /\ found[i].kind = "call" => out = <<>> /\ i = 1}
           t == At(found, I)
<1>1. Collect(out, found) = First(8, out \o t)
  <2>1. DOMAIN found = 1..Len(found)
    OBVIOUS
  <2> QED
    BY <2>1 DEF Collect
<1>2. I \in SUBSET (1..Len(found))
  OBVIOUS
<1> HIDE DEF I
<1>3. t \in Seq(X)
  BY <1>2, Selection
<1> HIDE DEF t
<1>4. out \o t \in Seq(X) /\ 8 \in Nat
  BY <1>3
<1>5. First(8, out \o t) \in Seq(X)
  BY <1>4, FirstElements
<1> QED
  BY <1>1, <1>5

\* The harvest collects tokens of what was found.
LEMMA HarvestStep ==
  ASSUME IInv, Harvest
  PROVE  IInv'
<1> DEFINE S == SymbolsIn(HitDocs)
           rows == SymbolRows(24, S)
           out == Collect(<<>>, rows)
<1>1. /\ Reads /\ stage' = "cues" /\ hits' = hits /\ pkg' = pkg
      /\ search' = [search EXCEPT !.symbols = out]
  BY DEF Harvest
<1>2. TablesTypeOK /\ SearchSound(search)
  BY DEF IInv
<1>3. IsFiniteSet(S) /\ S \subseteq ScopedSymbol
  <2>1. IsFiniteSet(S) /\ S \subseteq {t \in Symbol : t.doc \in HitDocs /\ t.rev = corpus[t.doc]}
    BY <1>2, HitScope, DocumentSymbols
  <2> HIDE DEF S
  <2> QED
    BY <1>2, <2>1, HitScope, StoredSymbol DEF ScopedSymbol
<1>4. S \subseteq SymbolsIn(Docs)
  BY HitScope DEF SymbolsIn
<1> HIDE DEF S
<1>5. rows \in Seq(S)
  <2>1. 24 \in Nat
    OBVIOUS
  <2> QED
    BY <1>2, <1>3, <1>4, <2>1, SymbolOrder
<1> HIDE DEF rows
<1>6. rows \in Seq(ScopedSymbol) /\ <<>> \in Seq(ScopedSymbol)
  BY <1>3, <1>5
<1>7. out \in Seq(ScopedSymbol)
  BY <1>6, Collected
<1> HIDE DEF out
<1>8. SearchSound(search')
  BY <1>1, <1>2, <1>7 DEF SearchSound
<1>9. TodoSound(stage', todo', search', hits') /\ Sealed(stage', pkg') /\ stage' \in Stages
  BY <1>1 DEF TodoSound, Sealed, SearchStages, Stages
<1> QED
  BY <1>1, <1>8, <1>9, OwnStep DEF IInv

\* A cue adds symbols of the searched roots.
LEMMA CueStep ==
  ASSUME IInv, ReadCue
  PROVE  IInv'
<1> DEFINE found == FindSymbols(Head(todo), Searched, IF stage = "cues" THEN 3 ELSE 5)
           out == Collect(search.symbols, found)
<1>1. /\ Reads /\ stage' = stage /\ stage \in {"cues", "again"} /\ hits' = hits /\ pkg' = pkg
      /\ search' = search \/ search' = [search EXCEPT !.symbols = out]
  BY DEF ReadCue
<1>2. SearchSound(search)
  BY DEF IInv
<1>3. found \in Seq(ScopedSymbol)
  <2>1. (IF stage = "cues" THEN 3 ELSE 5) \in Nat
    OBVIOUS
  <2> QED
    BY <2>1, ScopedSymbols
<1>4. search.symbols \in Seq(ScopedSymbol)
  BY <1>2 DEF SearchSound
<1> HIDE DEF found
<1>5. out \in Seq(ScopedSymbol)
  BY <1>3, <1>4, Collected
<1> HIDE DEF out
<1>6. SearchSound(search')
  BY <1>1, <1>2, <1>5 DEF SearchSound
<1>7. TodoSound(stage', todo', search', hits') /\ Sealed(stage', pkg') /\ stage' \in Stages
  BY <1>1 DEF TodoSound, Sealed, SearchStages, Stages
<1> QED
  BY <1>1, <1>6, <1>7, OwnStep DEF IInv

\* The end of the harvest.
LEMMA CuesStep ==
  ASSUME IInv, EndCues
  PROVE  IInv'
<1> DEFINE found == search.symbols
           n == Len(found)
           Y == SoundPackage
           add(p, s) == IF Contains(p.symbols, s) THEN p ELSE AddSymbol(p, s)
           step(f, i) == IF i = 0 THEN pkg ELSE add(f[i - 1], found[i])
           after == CHOOSE after : after = [i \in 0..n |-> step(after, i)]
           F == [i \in 1..n |-> [p \in Y |-> add(p, found[i])]]
<1>1. /\ Reads /\ hits' = hits
      /\ \/ stage' = "again" /\ search' = search /\ pkg' = pkg
         \/ stage' = "extract" /\ search' = NoSearch /\ pkg' = after[n]
  BY DEF EndCues
<1>2. SearchSound(search)
  BY DEF IInv
<1>3. found \in Seq(ScopedSymbol)
  BY <1>2 DEF SearchSound
<1> HIDE DEF found
<1>4. n \in Nat /\ \A i \in 1..n : found[i] \in ScopedSymbol
  BY <1>3
<1>5. \A p \in Y : \A s \in ScopedSymbol : add(p, s) \in Y
  BY SymbolAdded
<1>6. pkg \in Y
  BY DEF IInv
<1> HIDE DEF n, Y, add
<1>7. F \in [1..n -> [Y -> Y]]
  BY <1>4, <1>5
<1>8. PICK f \in [0..n -> Y] : Follows(f, n, pkg, F)
  <2> HIDE DEF F
  <2> QED
    BY <1>4, <1>6, <1>7, Recursion, Zenon
<1>9. f = [i \in 0..n |-> step(f, i)]
  <2>1. f[0] = pkg /\ \A i \in 1..n : f[i] = F[i][f[i - 1]]
    <3> HIDE DEF F
    <3> QED
      BY <1>8 DEF Follows
  <2>2. ASSUME NEW i \in 1..n PROVE f[i] = add(f[i - 1], found[i])
    <3>1. f[i - 1] \in Y
      BY <1>4
    <3>2. F[i][f[i - 1]] = add(f[i - 1], found[i])
      BY <3>1
    <3> HIDE DEF F
    <3> QED
      BY <2>1, <3>2
  <2>3. ASSUME NEW i \in 0..n PROVE f[i] = step(f, i)
    <3>1. i = 0 \/ i \in 1..n
      BY <1>4
    <3> QED
      BY <2>1, <2>2, <3>1
  <2> HIDE DEF step
  <2> QED
    BY <2>3
<1>10. after = [i \in 0..n |-> step(after, i)]
  <2> HIDE DEF step
  <2> QED
    BY <1>9, Zenon
<1> HIDE DEF after
<1>11. after[0] \in Y /\ \A i \in 1..n : after[i - 1] \in Y => after[i] \in Y
  <2>1. \A i \in 0..n : after[i] = step(after, i)
    <3> HIDE DEF step
    <3> QED
      BY <1>10
  <2>2. after[0] = pkg
    BY <1>4, <2>1
  <2>3. \A i \in 1..n : i \in 0..n /\ i # 0
    BY <1>4
  <2>4. \A i \in 1..n : after[i] = add(after[i - 1], found[i])
    BY <2>1, <2>3
  <2> QED
    BY <1>4, <1>5, <1>6, <2>2, <2>4
<1>12. \A i \in 0..n : after[i] \in Y
  BY <1>4, <1>11, AlongChain, Zenon
<1>13. pkg' \in SoundPackage
  BY <1>1, <1>4, <1>6, <1>12 DEF Y
<1>14. SearchSound(search')
  BY <1>1, <1>2, FirstSearch
<1>15. TodoSound(stage', todo', search', hits') /\ Sealed(stage', pkg') /\ stage' \in Stages
  BY <1>1 DEF TodoSound, Sealed, SearchStages, Stages
<1> QED
  BY <1>1, <1>13, <1>14, <1>15, OwnStep DEF IInv
-----------------------------------------------------------------------------
(* The selection of citations.                                             *)

\* The first element of a sequence, if there is one.
LEMMA FirstOne ==
  ASSUME NEW S, NEW R, IsFiniteSet(S), StrictOrder(S, R), S # {}
  PROVE  Ordered(S, R)[1] \in S
<1> DEFINE s == Ordered(S, R)
<1>1. s \in Seq(S) /\ Len(s) = Cardinality(S)
  BY Elements
<1>2. Cardinality(S) \in Nat /\ Cardinality(S) # 0
  BY FS_EmptySet, FS_CardinalityType
<1> HIDE DEF s
<1>3. 1 \in 1..Len(s)
  BY <1>1, <1>2
<1>4. s[1] \in S
  BY <1>1, <1>3
<1> QED
  BY <1>4 DEF s

\* What Where, OfBucket and the like select from a sequence.
LEMMA Selected ==
  ASSUME NEW X, NEW s \in Seq(X), NEW I \in SUBSET (1..Len(s))
  PROVE  LET t == At(s, I)
         IN  /\ t \in Seq(X)
             /\ \A k \in 1..Len(t) : \E i \in I : t[k] = s[i]
             /\ \A i \in I : \E k \in 1..Len(t) : t[k] = s[i]
<1> DEFINE t == At(s, I)
<1>1. /\ t \in Seq(X)
      /\ \E p \in [1..Len(t) -> I] : /\ Enumerates(p, Len(t), I)
                                     /\ \A k \in 1..Len(t) : t[k] = s[p[k]]
  BY Selection
<1> HIDE DEF t
<1>2. PICK p \in [1..Len(t) -> I] : Enumerates(p, Len(t), I) /\ \A k \in 1..Len(t) : t[k] = s[p[k]]
  BY <1>1
<1>3. \A k \in 1..Len(t) : \E i \in I : t[k] = s[i]
  BY <1>2
<1>4. \A i \in I : \E k \in 1..Len(t) : t[k] = s[i]
  BY <1>2 DEF Enumerates
<1> QED
  BY <1>1, <1>3, <1>4 DEF t

\* Of the citations of one source those of a section come first.
LEMMA StrongOrder ==
  ASSUME NEW S, NEW s, \A i \in S : i \in Int /\ s[i].strong \in BOOLEAN
  PROVE  StrictOrder(S, {p \in S \X S : \/ s[p[1]].strong /\ ~s[p[2]].strong
                                        \/ s[p[1]].strong = s[p[2]].strong /\ p[1] < p[2]})
<1> DEFINE better(i, j) == \/ s[i].strong /\ ~s[j].strong
                           \/ s[i].strong = s[j].strong /\ i < j
           R == {p \in S \X S : better(p[1], p[2])}
<1> DEFINE a == [i \in S |-> IF s[i].strong THEN 0 ELSE 1]
           b == [i \in S |-> i]
           Q == {p \in S \X S : \/ a[p[1]] < a[p[2]]
                                \/ a[p[1]] = a[p[2]] /\ b[p[1]] < b[p[2]]}
<1>2. a \in [S -> Int] /\ b \in [S -> Int]
  OBVIOUS
<1>3. \A i, j \in S : /\ a[i] < a[j] <=> (s[i].strong /\ ~s[j].strong)
                      /\ a[i] = a[j] <=> (s[i].strong = s[j].strong)
  <2>1. SUFFICES ASSUME NEW i \in S, NEW j \in S
                 PROVE  /\ a[i] < a[j] <=> (s[i].strong /\ ~s[j].strong)
                        /\ a[i] = a[j] <=> (s[i].strong = s[j].strong)
    BY Zenon
  <2>2. /\ s[i].strong = TRUE \/ s[i].strong = FALSE
        /\ s[j].strong = TRUE \/ s[j].strong = FALSE
    OBVIOUS
  <2>3. /\ s[i].strong => a[i] = 0
        /\ ~s[i].strong => a[i] = 1
        /\ s[j].strong => a[j] = 0
        /\ ~s[j].strong => a[j] = 1
    OBVIOUS
  <2> HIDE DEF a
  <2>4. CASE s[i].strong = TRUE /\ s[j].strong = TRUE
    <3>1. a[i] = a[j] /\ ~ (a[i] < a[j])
      BY <2>3, <2>4
    <3> QED
      BY <2>4, <3>1, Zenon
  <2>5. CASE s[i].strong = TRUE /\ s[j].strong = FALSE
    BY <2>3, <2>5
  <2>6. CASE s[i].strong = FALSE /\ s[j].strong = TRUE
    BY <2>3, <2>6
  <2>7. CASE s[i].strong = FALSE /\ s[j].strong = FALSE
    <3>1. a[i] = a[j] /\ ~ (a[i] < a[j])
      BY <2>3, <2>7
    <3> QED
      BY <2>7, <3>1, Zenon
  <2> QED
    BY <2>2, <2>4, <2>5, <2>6, <2>7
<1>4. \A i, j \in S : better(i, j) <=> a[i] < a[j] \/ (a[i] = a[j] /\ b[i] < b[j])
  <2>1. \A i \in S : b[i] = i
    OBVIOUS
  <2> HIDE DEF a, b
  <2> QED
    BY <1>3, <2>1
<1> HIDE DEF a, b, better
<1>5. R = Q
  BY <1>4
<1> HIDE DEF R
<1>6. \A i, j \in S : a[i] = a[j] /\ b[i] = b[j] => i = j
  BY DEF b
<1>8. a \in [S -> Int]
  BY <1>2
<1>9. b \in [S -> Int]
  BY <1>2
<1>10. \A e, f \in S : a[e] = a[f] /\ b[e] = b[f] => e = f
  BY <1>6
<1>7. StrictOrder(S, Q)
  BY <1>8, <1>9, <1>10, TwoKeys
<1> HIDE DEF Q
<1>11. StrictOrder(S, R)
  BY <1>5, <1>7
<1> QED
  BY <1>11 DEF R, better

\* There is one citation of each source, taken from those that were given.
LEMMA OneEach ==
  ASSUME NEW Y, NEW s \in Seq(Y), \A y \in Y : y.strong \in BOOLEAN
  PROVE  LET t == BestOf(s)
         IN  /\ t \in Seq(Y)
             /\ \A i \in 1..Len(s) : \E k \in 1..Len(t) : t[k].uri = s[i].uri
             /\ \A k \in 1..Len(t) : \E i \in 1..Len(s) : t[k] = s[i]
             /\ \A k, l \in 1..Len(t) : t[k].uri = t[l].uri => k = l
<1> DEFINE U == {y.uri : y \in Y}
           all == [i \in DOMAIN s |-> s[i].uri]
           uris == Distinct(all)
           m == Len(uris)
           better(i, j) == \/ s[i].strong /\ ~s[j].strong
                           \/ s[i].strong = s[j].strong /\ i < j
           I(u) == {i \in DOMAIN s : s[i].uri = u}
           pick(u) == Sorted(I(u), better)[1]
           t == BestOf(s)
<1>1. DOMAIN s = 1..Len(s) /\ Len(s) \in Nat /\ \A i \in 1..Len(s) : s[i] \in Y
  OBVIOUS
<1>2. t = [k \in DOMAIN uris |-> s[pick(uris[k])]]
  BY DEF BestOf
<1>3. all \in Seq(U) /\ Len(all) = Len(s) /\ \A i \in 1..Len(s) : all[i] = s[i].uri
  BY <1>1
<1> HIDE DEF all
<1>4. /\ uris \in Seq(U)
      /\ \A k \in 1..m : \E j \in 1..Len(all) : uris[k] = all[j]
      /\ \A j \in 1..Len(all) : \E k \in 1..m : k <= j /\ uris[k] = all[j]
      /\ \A k, l \in 1..m : uris[k] = uris[l] => k = l
  BY <1>3, DistinctElements
<1> HIDE DEF uris
<1>5. ASSUME NEW u, I(u) # {} PROVE pick(u) \in I(u)
  <2> DEFINE S == I(u)
             R == {p \in S \X S : better(p[1], p[2])}
  <2>1. S \in SUBSET (1..Len(s))
    BY <1>1
  <2>2. IsFiniteSet(S)
    <3>1. IsFiniteSet(1..Len(s))
      BY <1>1, FS_Interval
    <3> HIDE DEF S
    <3> QED
      BY <2>1, <3>1, FS_Subset
  <2>3. StrictOrder(S, R)
    <3>1. \A i \in S : i \in Int /\ s[i].strong \in BOOLEAN
      BY <1>1, <2>1
    <3> HIDE DEF S
    <3>2. StrictOrder(S, {p \in S \X S : \/ s[p[1]].strong /\ ~s[p[2]].strong
                                         \/ s[p[1]].strong = s[p[2]].strong /\ p[1] < p[2]})
      BY <3>1, StrongOrder
    <3> QED
      BY <3>2
  <2>4. pick(u) = Ordered(S, R)[1]
    BY DEF Sorted
  <2> HIDE DEF S, R
  <2>5. Ordered(S, R)[1] \in S
    BY <1>5, <2>2, <2>3, FirstOne DEF S
  <2> QED
    BY <2>4, <2>5 DEF S
<1>6. ASSUME NEW k \in 1..m PROVE pick(uris[k]) \in 1..Len(s) /\ s[pick(uris[k])].uri = uris[k]
  <2>1. PICK j \in 1..Len(all) : uris[k] = all[j]
    BY <1>4
  <2>2. j \in I(uris[k])
    BY <1>1, <1>3, <2>1
  <2>3. pick(uris[k]) \in I(uris[k])
    <3> HIDE DEF I, pick
    <3> QED
      BY <1>5, <2>2
  <2> HIDE DEF pick
  <2> QED
    BY <1>1, <2>3
<1> HIDE DEF pick, t
<1>7. t \in Seq(Y) /\ Len(t) = m /\ \A k \in 1..m : t[k] = s[pick(uris[k])]
  <2>1. DOMAIN uris = 1..m /\ m \in Nat
    BY <1>4
  <2>2. \A k \in 1..m : s[pick(uris[k])] \in Y
    BY <1>1, <1>6
  <2> QED
    BY <1>2, <2>1, <2>2
<1>8. \A k \in 1..Len(t) : \E i \in 1..Len(s) : t[k] = s[i]
  BY <1>6, <1>7
<1>9. \A k \in 1..m : t[k].uri = uris[k]
  BY <1>6, <1>7
<1>10. \A k, l \in 1..Len(t) : t[k].uri = t[l].uri => k = l
  BY <1>4, <1>7, <1>9
<1>11. \A i \in 1..Len(s) : \E k \in 1..Len(t) : t[k].uri = s[i].uri
  BY <1>3, <1>4, <1>7, <1>9
<1> QED
  BY <1>7, <1>8, <1>10, <1>11 DEF t
\* The citations of a bucket, in their order.
LEMMA InBucket ==
  ASSUME NEW Y, NEW s \in Seq(Y), NEW b
  PROVE  LET t == OfBucket(s, b)
         IN  /\ t \in Seq(Y)
             /\ \A k \in 1..Len(t) : Bucket(t[k]) = b
             /\ \A i \in 1..Len(s) : Bucket(s[i]) = b => \E k \in 1..Len(t) : t[k] = s[i]
<1> DEFINE t == OfBucket(s, b)
           I == {i \in DOMAIN s : Bucket(s[i]) = b}
<1>1. t = At(s, I)
  BY DEF OfBucket, Where
<1>2. DOMAIN s = 1..Len(s)
  OBVIOUS
<1>3. I \in SUBSET (1..Len(s))
  BY <1>2
<1> HIDE DEF I
<1>4. DEFINE u == At(s, I)
<1>5. /\ u \in Seq(Y)
      /\ \A k \in 1..Len(u) : \E i \in I : u[k] = s[i]
      /\ \A i \in I : \E k \in 1..Len(u) : u[k] = s[i]
  BY <1>3, Selected
<1>6. t = u
  BY <1>1
<1> HIDE DEF t, u
<1>7. \A k \in 1..Len(t) : Bucket(t[k]) = b
  BY <1>5, <1>6 DEF I
<1>8. \A i \in 1..Len(s) : Bucket(s[i]) = b => \E k \in 1..Len(t) : t[k] = s[i]
  BY <1>2, <1>5, <1>6 DEF I
<1> QED
  BY <1>5, <1>6, <1>7, <1>8 DEF t

\* The head of a bucket.
LEMMA HeadOfBucket ==
  ASSUME NEW Y, NEW s \in Seq(Y), NEW b
  PROVE  LET t == First(1, OfBucket(s, b))
         IN  /\ t \in Seq(Y) /\ Len(t) \in {0, 1}
             /\ \A k \in 1..Len(t) : Bucket(t[k]) = b
             /\ \A i \in 1..Len(s) : Bucket(s[i]) = b => Len(t) = 1 /\ Bucket(t[1]) = b
<1> DEFINE u == OfBucket(s, b)
           t == First(1, u)
           n == Len(u)
<1>1. /\ u \in Seq(Y)
      /\ \A k \in 1..n : Bucket(u[k]) = b
      /\ \A i \in 1..Len(s) : Bucket(s[i]) = b => \E k \in 1..n : u[k] = s[i]
  BY InBucket
<1> HIDE DEF u
<1>2. n \in Nat
  BY <1>1
<1>3. /\ t \in Seq(Y) /\ Len(t) = (IF n < 1 THEN n ELSE 1)
      /\ \A i \in 1..(IF n < 1 THEN n ELSE 1) : t[i] = u[i]
  BY <1>1, FirstElements
<1> HIDE DEF t, n
<1>4. Len(t) \in {0, 1}
  BY <1>2, <1>3
<1>5. \A k \in 1..Len(t) : Bucket(t[k]) = b
  BY <1>1, <1>2, <1>3
<1>6. ASSUME NEW i \in 1..Len(s), Bucket(s[i]) = b PROVE Len(t) = 1 /\ Bucket(t[1]) = b
  <2>1. PICK k \in 1..n : u[k] = s[i]
    BY <1>1, <1>6
  <2>2. n >= 1 /\ 1 \in 1..n
    BY <1>2, <2>1
  <2>3. Len(t) = 1
    BY <1>2, <1>3, <2>2
  <2> QED
    BY <1>5, <2>3
<1> QED
  BY <1>3, <1>4, <1>5, <1>6 DEF t, u

\* Of four short sequences in a row the elements of the first three come
\* within the first three places.
LEMMA InARow ==
  ASSUME NEW Y, NEW p \in Seq(Y), NEW q \in Seq(Y), NEW r \in Seq(Y), NEW w \in Seq(Y),
         Len(p) \in {0, 1}, Len(q) \in {0, 1}, Len(r) \in {0, 1}
  PROVE  LET t == p \o q \o r \o w
         IN  /\ t \in Seq(Y)
             /\ Len(p) = 1 => \E k \in 1..3 : k <= Len(t) /\ t[k] = p[1]
             /\ Len(q) = 1 => \E k \in 1..3 : k <= Len(t) /\ t[k] = q[1]
             /\ Len(r) = 1 => \E k \in 1..3 : k <= Len(t) /\ t[k] = r[1]
<1> DEFINE x == p \o q
           y == x \o r
           t == y \o w
<1>1. Len(p) \in Nat /\ Len(q) \in Nat /\ Len(r) \in Nat /\ Len(w) \in Nat
  OBVIOUS
<1>2. /\ x \in Seq(Y) /\ Len(x) = Len(p) + Len(q)
      /\ \A i \in 1..Len(x) : x[i] = IF i <= Len(p) THEN p[i] ELSE q[i - Len(p)]
  OBVIOUS
<1> HIDE DEF x
<1>3. /\ y \in Seq(Y) /\ Len(y) = Len(x) + Len(r)
      /\ \A i \in 1..Len(y) : y[i] = IF i <= Len(x) THEN x[i] ELSE r[i - Len(x)]
  BY <1>2
<1> HIDE DEF y
<1>4. /\ t \in Seq(Y) /\ Len(t) = Len(y) + Len(w)
      /\ \A i \in 1..Len(t) : t[i] = IF i <= Len(y) THEN y[i] ELSE w[i - Len(y)]
  <2>1. y \in Seq(Y)
    BY <1>3
  <2> QED
    BY <2>1
<1> HIDE DEF t
<1>5. Len(x) \in 0..2 /\ Len(y) \in 0..3 /\ Len(y) <= Len(t) /\ Len(x) <= Len(y)
  <2>1. Len(x) = Len(p) + Len(q) /\ Len(y) = Len(x) + Len(r) /\ Len(t) = Len(y) + Len(w)
    BY <1>2, <1>3, <1>4
  <2> DEFINE i == Len(p)
             j == Len(q)
             k == Len(r)
             l == Len(w)
             m == Len(x)
             n == Len(y)
             o == Len(t)
  <2>2. i \in {0, 1} /\ j \in {0, 1} /\ k \in {0, 1} /\ l \in Nat
    BY <1>1
  <2>3. m = i + j /\ n = m + k /\ o = n + l
    BY <2>1
  <2> HIDE DEF i, j, k, l, m, n, o
  <2>4. m \in 0..2 /\ n \in 0..3 /\ n <= o /\ m <= n
    BY <2>2, <2>3
  <2> QED
    BY <2>4 DEF m, n, o
<1>6. /\ \A i \in 1..Len(x) : i <= Len(t) /\ i <= Len(y) /\ t[i] = x[i] /\ i \in 1..3
      /\ \A i \in 1..Len(y) : i <= Len(t) /\ t[i] = y[i] /\ i \in 1..3
  <2>1. \A i \in 1..Len(y) : i <= Len(t) /\ t[i] = y[i] /\ i \in 1..3
    <3>1. SUFFICES ASSUME NEW i \in 1..Len(y) PROVE i <= Len(t) /\ t[i] = y[i] /\ i \in 1..3
      OBVIOUS
    <3>2. i \in 1..Len(t) /\ i <= Len(y) /\ i \in 1..3
      <4> DEFINE n == Len(y)
                 o == Len(t)
      <4>1. o \in Nat /\ n \in 0..3 /\ n <= o /\ i \in 1..n
        BY <1>4, <1>5
      <4> HIDE DEF n, o
      <4>2. i \in 1..o /\ i <= n /\ i \in 1..3
        BY <4>1
      <4> QED
        BY <4>2 DEF n, o
    <3> QED
      BY <1>4, <3>2
  <2>2. \A i \in 1..Len(x) : i \in 1..Len(y) /\ y[i] = x[i]
    BY <1>3, <1>5
  <2> QED
    BY <1>5, <2>1, <2>2
<1>7. ASSUME Len(p) = 1 PROVE \E k \in 1..3 : k <= Len(t) /\ t[k] = p[1]
  <2>1. 1 \in 1..Len(x) /\ x[1] = p[1]
    BY <1>1, <1>2, <1>7
  <2> QED
    BY <1>6, <2>1
<1>8. ASSUME Len(q) = 1 PROVE \E k \in 1..3 : k <= Len(t) /\ t[k] = q[1]
  <2>1. Len(x) \in 1..Len(x) /\ x[Len(x)] = q[1]
    BY <1>1, <1>2, <1>8
  <2> QED
    BY <1>6, <2>1
<1>9. ASSUME Len(r) = 1 PROVE \E k \in 1..3 : k <= Len(t) /\ t[k] = r[1]
  <2>1. Len(y) \in 1..Len(y) /\ y[Len(y)] = r[1]
    BY <1>1, <1>3, <1>5, <1>9
  <2> QED
    BY <1>6, <2>1
<1> QED
  BY <1>4, <1>7, <1>8, <1>9 DEF t, x, y
\* The buckets whose evidence the trimming spares.
Spared == {"project", "official_example", "official_docs"}

\* The reserves show each of these buckets in the first three places.
LEMMA ReservesFirst ==
  ASSUME NEW Y, NEW s \in Seq(Y)
  PROVE  LET t == Reserve(s)
         IN  /\ t \in Seq(Y)
             /\ \A b \in Spared : (\E i \in 1..Len(s) : Bucket(s[i]) = b) =>
                  \E k \in 1..3 : k <= Len(t) /\ Bucket(t[k]) = b
<1> DEFINE part(b) == First(1, OfBucket(s, b))
           p == part("project")
           q == part("official_example")
           r == part("official_docs")
           w == part("recipe")
           u == p \o q \o r \o w
           t == Reserve(s)
<1>1. t = u
  BY DEF Reserve, Reserved, Buckets
<1>2. /\ p \in Seq(Y) /\ Len(p) \in {0, 1}
      /\ \A i \in 1..Len(s) : Bucket(s[i]) = "project" => Len(p) = 1 /\ Bucket(p[1]) = "project"
  BY HeadOfBucket
<1>3. /\ q \in Seq(Y) /\ Len(q) \in {0, 1}
      /\ \A i \in 1..Len(s) : Bucket(s[i]) = "official_example" =>
           Len(q) = 1 /\ Bucket(q[1]) = "official_example"
  BY HeadOfBucket
<1>4. /\ r \in Seq(Y) /\ Len(r) \in {0, 1}
      /\ \A i \in 1..Len(s) : Bucket(s[i]) = "official_docs" =>
           Len(r) = 1 /\ Bucket(r[1]) = "official_docs"
  BY HeadOfBucket
<1>5. w \in Seq(Y)
  BY HeadOfBucket
<1> HIDE DEF p, q, r, w
<1>6. /\ u \in Seq(Y)
      /\ Len(p) = 1 => \E k \in 1..3 : k <= Len(u) /\ u[k] = p[1]
      /\ Len(q) = 1 => \E k \in 1..3 : k <= Len(u) /\ u[k] = q[1]
      /\ Len(r) = 1 => \E k \in 1..3 : k <= Len(u) /\ u[k] = r[1]
  BY <1>2, <1>3, <1>4, <1>5, InARow
<1> HIDE DEF u, t
<1>7. ASSUME NEW b \in Spared, NEW i \in 1..Len(s), Bucket(s[i]) = b
      PROVE  \E k \in 1..3 : k <= Len(u) /\ Bucket(u[k]) = b
  <2>1. b = "project" \/ b = "official_example" \/ b = "official_docs"
    BY DEF Spared
  <2>2. CASE b = "project"
    BY <1>2, <1>6, <1>7, <2>2
  <2>3. CASE b = "official_example"
    BY <1>3, <1>6, <1>7, <2>3
  <2>4. CASE b = "official_docs"
    BY <1>4, <1>6, <1>7, <2>4
  <2> QED
    BY <2>1, <2>2, <2>3, <2>4
<1>8. /\ t \in Seq(Y)
      /\ \A b \in Spared : (\E i \in 1..Len(s) : Bucket(s[i]) = b) =>
           \E k \in 1..3 : k <= Len(t) /\ Bucket(t[k]) = b
  BY <1>1, <1>6, <1>7
<1> QED
  BY <1>8 DEF t

\* What two sequences in a row have is what they have.
Joined(t, p, q) ==
  /\ \A k \in 1..Len(t) : (\E i \in 1..Len(p) : t[k] = p[i]) \/ (\E i \in 1..Len(q) : t[k] = q[i])
  /\ \A i \in 1..Len(p) : \E k \in 1..Len(t) : t[k] = p[i]
  /\ \A i \in 1..Len(q) : \E k \in 1..Len(t) : t[k] = q[i]

\* What a concatenation has, one of its parts has.
LEMMA BothParts ==
  ASSUME NEW Y, NEW p \in Seq(Y), NEW q \in Seq(Y)
  PROVE  p \o q \in Seq(Y) /\ Joined(p \o q, p, q)
<1> DEFINE t == p \o q
           m == Len(p)
           n == Len(q)
<1>1. m \in Nat /\ n \in Nat
  OBVIOUS
<1>2. /\ t \in Seq(Y) /\ Len(t) = m + n
      /\ \A i \in 1..Len(t) : t[i] = IF i <= m THEN p[i] ELSE q[i - m]
  OBVIOUS
<1> HIDE DEF t
<1>3. ASSUME NEW k \in 1..Len(t)
      PROVE  (\E i \in 1..m : t[k] = p[i]) \/ \E i \in 1..n : t[k] = q[i]
  <2> HIDE DEF m, n
  <2>1. CASE k <= m
    <3>1. k \in 1..m /\ t[k] = p[k]
      BY <1>1, <1>2, <2>1
    <3> QED
      BY <3>1
  <2>2. CASE ~(k <= m)
    <3>1. k - m \in 1..n /\ t[k] = q[k - m]
      BY <1>1, <1>2, <2>2
    <3> QED
      BY <3>1
  <2> QED
    BY <2>1, <2>2
<1>4. ASSUME NEW i \in 1..m PROVE \E k \in 1..Len(t) : t[k] = p[i]
  <2> HIDE DEF m, n
  <2>1. i \in 1..Len(t) /\ t[i] = p[i]
    BY <1>1, <1>2
  <2> QED
    BY <2>1
<1>5. ASSUME NEW i \in 1..n PROVE \E k \in 1..Len(t) : t[k] = q[i]
  <2> HIDE DEF m, n
  <2>1. m + i \in 1..Len(t) /\ ~(m + i <= m) /\ (m + i) - m = i
    BY <1>1, <1>2
  <2>2. t[m + i] = q[i]
    BY <1>2, <2>1
  <2> QED
    BY <2>1, <2>2
<1> QED
  BY <1>2, <1>3, <1>4, <1>5 DEF t, Joined

\* What is sorted is what there was.
LEMMA SortedBuckets ==
  ASSUME NEW Y, NEW s \in Seq(Y)
  PROVE  LET t == InOrder(s)
         IN  /\ t \in Seq(Y)
             /\ \A i \in 1..Len(s) : \E k \in 1..Len(t) : t[k] = s[i]
             /\ \A k \in 1..Len(t) : \E i \in 1..Len(s) : t[k] = s[i]
<1> DEFINE rank(i) == AuthorityRank(s[i].authority)
           I == {i \in DOMAIN s : rank(i) = 1}
           J == {i \in DOMAIN s : rank(i) = 2}
           K == {i \in DOMAIN s : rank(i) > 2}
           a == At(s, I)
           b == At(s, J)
           c == At(s, K)
           x == a \o b
           u == x \o c
           t == InOrder(s)
<1>1. t = u
  BY DEF InOrder, Where
<1>2. DOMAIN s = 1..Len(s)
  OBVIOUS
<1>3. /\ I \in SUBSET (1..Len(s)) /\ J \in SUBSET (1..Len(s)) /\ K \in SUBSET (1..Len(s))
      /\ \A i \in 1..Len(s) : i \in I \/ i \in J \/ i \in K
  <2>1. \A i \in 1..Len(s) : rank(i) \in 1..8
    BY Authority
  <2> HIDE DEF rank
  <2> QED
    BY <1>2, <2>1
<1> HIDE DEF I, J, K
<1>4. /\ a \in Seq(Y)
      /\ \A k \in 1..Len(a) : \E i \in I : a[k] = s[i]
      /\ \A i \in I : \E k \in 1..Len(a) : a[k] = s[i]
  BY <1>3, Selected
<1>5. /\ b \in Seq(Y)
      /\ \A k \in 1..Len(b) : \E i \in J : b[k] = s[i]
      /\ \A i \in J : \E k \in 1..Len(b) : b[k] = s[i]
  BY <1>3, Selected
<1>6. /\ c \in Seq(Y)
      /\ \A k \in 1..Len(c) : \E i \in K : c[k] = s[i]
      /\ \A i \in K : \E k \in 1..Len(c) : c[k] = s[i]
  BY <1>3, Selected
<1> HIDE DEF a, b, c
<1>7. x \in Seq(Y) /\ Joined(x, a, b)
  <2>1. a \in Seq(Y) /\ b \in Seq(Y)
    BY <1>4, <1>5
  <2> QED
    BY <2>1, BothParts
<1> HIDE DEF x
<1>8. u \in Seq(Y) /\ Joined(u, x, c)
  <2>1. x \in Seq(Y) /\ c \in Seq(Y)
    BY <1>6, <1>7
  <2> QED
    BY <2>1, BothParts
<1> HIDE DEF u, t
<1>9. ASSUME NEW i \in 1..Len(s) PROVE \E k \in 1..Len(u) : u[k] = s[i]
  <2>1. CASE i \in I
    BY <1>4, <1>7, <1>8, <2>1 DEF Joined
  <2>2. CASE i \in J
    BY <1>5, <1>7, <1>8, <2>2 DEF Joined
  <2>3. CASE i \in K
    BY <1>6, <1>8, <2>3 DEF Joined
  <2> QED
    BY <1>3, <2>1, <2>2, <2>3
<1>10. ASSUME NEW k \in 1..Len(u) PROVE \E i \in 1..Len(s) : u[k] = s[i]
  <2>1. \A i \in 1..Len(a) : \E j \in 1..Len(s) : a[i] = s[j]
    BY <1>3, <1>4
  <2>2. \A i \in 1..Len(b) : \E j \in 1..Len(s) : b[i] = s[j]
    BY <1>3, <1>5
  <2>3. \A i \in 1..Len(c) : \E j \in 1..Len(s) : c[i] = s[j]
    BY <1>3, <1>6
  <2>4. \A i \in 1..Len(x) : \E j \in 1..Len(s) : x[i] = s[j]
    BY <1>7, <2>1, <2>2 DEF Joined
  <2> QED
    BY <1>8, <2>3, <2>4 DEF Joined
<1>11. /\ t \in Seq(Y)
       /\ \A i \in 1..Len(s) : \E k \in 1..Len(t) : t[k] = s[i]
       /\ \A k \in 1..Len(t) : \E i \in 1..Len(s) : t[k] = s[i]
  BY <1>1, <1>8, <1>9, <1>10
<1> QED
  BY <1>11 DEF t
\* An order by a number.
LEMMA OneKey ==
  ASSUME NEW S, NEW key, \A e \in S : key[e] \in Int, \A e, f \in S : key[e] = key[f] => e = f
  PROVE  StrictOrder(S, {p \in S \X S : key[p[1]] < key[p[2]]})
<1> DEFINE R == {p \in S \X S : key[p[1]] < key[p[2]]}
<1>1. \A e, f \in S : <<e, f>> \in R <=> key[e] < key[f]
  OBVIOUS
<1> HIDE DEF R
<1>2. ASSUME NEW e \in S PROVE <<e, e>> \notin R
  BY <1>1
<1>3. ASSUME NEW e \in S, NEW f \in S PROVE e = f \/ <<e, f>> \in R \/ <<f, e>> \in R
  BY <1>1
<1>4. ASSUME NEW e \in S, NEW f \in S, NEW g \in S, <<e, f>> \in R, <<f, g>> \in R
      PROVE  <<e, g>> \in R
  BY <1>1, <1>4
<1>5. StrictOrder(S, R)
  BY <1>2, <1>3, <1>4 DEF StrictOrder
<1> QED
  BY <1>5 DEF R

\* The pinned citations of a list that has one of each source.
LEMMA Pinned ==
  ASSUME NEW s \in Seq(ScopedCitation), NEW pins,
         \A k, l \in 1..Len(s) : s[k].uri = s[l].uri => s[k] = s[l]
  PROVE  Sorted({c \in ToSet(s) : c.uri \in pins}, LAMBDA c, d : Rank[c.uri] < Rank[d.uri])
           \in Seq(ScopedCitation)
<1> DEFINE Y == ScopedCitation
           S == {c \in ToSet(s) : c.uri \in pins}
           R == {p \in S \X S : Rank[p[1].uri] < Rank[p[2].uri]}
           key == [c \in S |-> Rank[c.uri]]
           Q == {p \in S \X S : key[p[1]] < key[p[2]]}
<1>1. /\ IsFiniteSet(ToSet(s)) /\ ToSet(s) \subseteq Y
      /\ \A c \in ToSet(s) : \E k \in 1..Len(s) : c = s[k]
  <2>5. s \in Seq(Y)
    OBVIOUS
  <2> HIDE DEF Y
  <2>1. ToSet(s) = {s[k] : k \in 1..Len(s)}
    BY DEF ToSet
  <2>2. Len(s) \in Nat /\ \A k \in 1..Len(s) : s[k] \in Y
    BY <2>5
  <2>3. IsFiniteSet(1..Len(s))
    BY <2>2, FS_Interval
  <2>4. IsFiniteSet({s[k] : k \in 1..Len(s)})
    BY <2>3, Image
  <2> QED
    BY <2>1, <2>2, <2>4
<1>2. \A c \in Y : c.uri \in Docs \cup Recipes
  BY DEF ScopedCitation, Citation
<1> HIDE DEF Y
<1>3. IsFiniteSet(S) /\ S \subseteq ToSet(s)
  <2>1. S \subseteq ToSet(s)
    OBVIOUS
  <2> HIDE DEF S
  <2> QED
    BY <1>1, <2>1, FS_Subset
<1>4. \A c, d \in S : c.uri = d.uri => c = d
  BY <1>1, <1>3
<1> HIDE DEF S
<1>5. \A c \in S : Rank[c.uri] \in Int
  BY <1>1, <1>2, <1>3, RetrievalAssumption DEF OrderAssumption
<1>6. \A c \in S : key[c] \in Int /\ key[c] = Rank[c.uri]
  BY <1>5
<1> HIDE DEF key
<1>7. \A c, d \in S : key[c] = key[d] => c = d
  BY <1>1, <1>2, <1>3, <1>4, <1>6, RetrievalAssumption DEF OrderAssumption
<1>9. R = Q
  BY <1>6
<1>10. StrictOrder(S, Q)
  BY <1>6, <1>7, OneKey
<1>11. StrictOrder(S, R)
  <2> HIDE DEF R, Q
  <2> QED
    BY <1>9, <1>10
<1> HIDE DEF Q, R
<1> DEFINE o == Ordered(S, R)
<1>12. o \in Seq(S)
  BY <1>3, <1>11, Elements
<1> HIDE DEF o
<1>13. o \in Seq(Y)
  BY <1>1, <1>3, <1>12
<1> QED
  BY <1>13 DEF o, Sorted, S, R, Y

\* Every list of buckets is taken from what there is.
LEMMA FillSequence ==
  ASSUME NEW Y, NEW s \in Seq(Y)
  PROVE  Buckets(LAMBDA b : OfBucket(s, b)) \in Seq(Y)
<1> DEFINE p == OfBucket(s, "project")
           q == OfBucket(s, "official_example")
           r == OfBucket(s, "official_docs")
           w == OfBucket(s, "recipe")
<1>1. p \in Seq(Y)
  BY InBucket
<1>2. q \in Seq(Y)
  BY InBucket
<1>3. r \in Seq(Y)
  BY InBucket
<1>4. w \in Seq(Y)
  BY InBucket
<1> HIDE DEF p, q, r, w
<1>5. p \o q \o r \o w \in Seq(Y)
  BY <1>1, <1>2, <1>3, <1>4
<1> QED
  BY <1>5 DEF Buckets, p, q, r, w

\* The package cites what was found, and a source of each spared bucket that the
\* best citations are of in the first three places.
LEMMA SelectedCitations ==
  ASSUME NEW s \in Seq(ScopedCitation), NEW pins
  PROVE  LET t == SelectCitations(s, pins)
         IN  /\ t \in Seq(ScopedCitation)
             /\ MaxResults >= 3 =>
                  \A c \in ToSet(BestOf(s)) : Bucket(c) \in Spared =>
                    \E k \in 1..3 : k <= Len(t) /\ Bucket(t[k]) = Bucket(c)
<1> DEFINE Y == ScopedCitation
           o == BestOf(s)
           best == InOrder(o)
           res == Reserve(best)
           pinned == Sorted({c \in ToSet(best) : c.uri \in pins},
                            LAMBDA c, d : Rank[c.uri] < Rank[d.uri])
           fill == Buckets(LAMBDA b : OfBucket(best, b))
           x == res \o pinned
           all == x \o fill
           strong == Distinct(all)
           chosen == IF strong = <<>> THEN best ELSE strong
           t == SelectCitations(s, pins)
<1>1. t = First(MaxResults, chosen)
  BY DEF SelectCitations
<1>2. /\ s \in Seq(Y) /\ \A y \in Y : y.strong \in BOOLEAN
  BY DEF ScopedCitation, Citation
<1>3. /\ o \in Seq(Y)
      /\ \A i \in 1..Len(s) : \E k \in 1..Len(o) : o[k].uri = s[i].uri
      /\ \A k, l \in 1..Len(o) : o[k].uri = o[l].uri => k = l
  <2> HIDE DEF Y
  <2> QED
    BY <1>2, OneEach
<1> HIDE DEF o
<1>4. /\ best \in Seq(Y)
      /\ \A i \in 1..Len(o) : \E k \in 1..Len(best) : best[k] = o[i]
      /\ \A k \in 1..Len(best) : \E i \in 1..Len(o) : best[k] = o[i]
  <2> HIDE DEF Y
  <2> QED
    BY <1>3, SortedBuckets
<1> HIDE DEF best
<1>5. \A k, l \in 1..Len(best) : best[k].uri = best[l].uri => best[k] = best[l]
  <2>1. \A i, j \in 1..Len(o) : o[i].uri = o[j].uri => o[i] = o[j]
    BY <1>3
  <2>2. \A k \in 1..Len(best) : \E i \in 1..Len(o) : best[k] = o[i]
    BY <1>4
  <2> QED
    BY <2>1, <2>2
<1>6. pinned \in Seq(Y)
  <2>1. best \in Seq(ScopedCitation)
    BY <1>4
  <2> QED
    BY <1>5, <2>1, Pinned
<1> HIDE DEF Y, pinned
<1>7. fill \in Seq(Y)
  BY <1>4, FillSequence
<1> HIDE DEF fill
<1>8. /\ res \in Seq(Y)
      /\ \A b \in Spared : (\E i \in 1..Len(best) : Bucket(best[i]) = b) =>
           \E k \in 1..3 : k <= Len(res) /\ Bucket(res[k]) = b
  BY <1>4, ReservesFirst
<1> HIDE DEF res
<1>9. x \in Seq(Y) /\ Len(x) = Len(res) + Len(pinned) /\ \A k \in 1..Len(res) : x[k] = res[k]
  BY <1>6, <1>8
<1> HIDE DEF x
<1>10. /\ all \in Seq(Y) /\ Len(all) = Len(x) + Len(fill)
       /\ \A k \in 1..Len(x) : all[k] = x[k]
  <2>1. x \in Seq(Y) /\ fill \in Seq(Y)
    BY <1>7, <1>9
  <2> QED
    BY <2>1
<1> HIDE DEF all
<1>11. /\ strong \in Seq(Y)
       /\ \A j \in 1..Len(all) : \E k \in 1..Len(strong) : k <= j /\ strong[k] = all[j]
  BY <1>10, DistinctElements
<1> HIDE DEF strong
<1>12. chosen \in Seq(Y) /\ MaxResults \in Nat
  BY <1>4, <1>11, PackageAssumption
<1>13. \A c \in ToSet(o) : Bucket(c) \in Spared =>
         \E k \in 1..3 : k <= Len(chosen) /\ Bucket(chosen[k]) = Bucket(c)
  <2>1. SUFFICES ASSUME NEW b \in Spared, NEW c \in ToSet(o), Bucket(c) = b
                 PROVE  \E k \in 1..3 : k <= Len(chosen) /\ Bucket(chosen[k]) = b
    OBVIOUS
  <2>3. PICK i \in 1..Len(o) : c = o[i]
    BY <1>3 DEF ToSet
  <2>4. \E m \in 1..Len(best) : Bucket(best[m]) = b
    BY <1>4, <2>1, <2>3
  <2>5. PICK j \in 1..3 : j <= Len(res) /\ Bucket(res[j]) = b
    BY <1>8, <2>4
  <2>6. j \in 1..Len(all) /\ all[j] = res[j]
    <3>1. Len(res) \in Nat /\ Len(pinned) \in Nat /\ Len(fill) \in Nat
      BY <1>6, <1>7, <1>8
    <3>2. j \in 1..Len(res) /\ j \in 1..Len(x)
      BY <1>9, <2>5, <3>1
    <3>3. j \in 1..Len(all)
      BY <1>9, <1>10, <3>1, <3>2
    <3> QED
      BY <1>9, <1>10, <3>2, <3>3
  <2>7. PICK n \in 1..Len(strong) : n <= j /\ strong[n] = all[j]
    BY <1>11, <2>6
  <2>8. n \in 1..3 /\ n <= Len(strong) /\ Bucket(strong[n]) = b
    <3>1. Len(strong) \in Nat
      BY <1>11
    <3> QED
      BY <2>5, <2>6, <2>7, <3>1
  <2>9. strong # <<>>
    BY <2>7
  <2> QED
    BY <2>8, <2>9
<1> HIDE DEF chosen, t
<1> DEFINE u == First(MaxResults, chosen)
           n == IF Len(chosen) < MaxResults THEN Len(chosen) ELSE MaxResults
<1>14. u \in Seq(Y) /\ Len(u) = n /\ \A i \in 1..n : u[i] = chosen[i]
  BY <1>12, FirstElements
<1>15. t = u
  BY <1>1
<1> HIDE DEF u
<1>16. ASSUME MaxResults >= 3
       PROVE  \A k \in 1..3 : k <= Len(chosen) => k <= Len(u) /\ u[k] = chosen[k]
  <2>1. Len(chosen) \in Nat
    BY <1>12
  <2> QED
    BY <1>12, <1>14, <1>16, <2>1
<1>17. /\ u \in Seq(Y)
       /\ MaxResults >= 3 =>
            \A c \in ToSet(o) : Bucket(c) \in Spared =>
              \E k \in 1..3 : k <= Len(u) /\ Bucket(u[k]) = Bucket(c)
  BY <1>13, <1>14, <1>16
<1> QED
  BY <1>15, <1>17 DEF t, Y, o
\* An order by a number and then by the place.
LEMMA RankThenPlace ==
  ASSUME NEW S, NEW a, \A i \in S : i \in Int /\ a[i] \in Int
  PROVE  StrictOrder(S, {p \in S \X S : \/ a[p[1]] < a[p[2]]
                                        \/ a[p[1]] = a[p[2]] /\ p[1] < p[2]})
<1> DEFINE R == {p \in S \X S : a[p[1]] < a[p[2]] \/ (a[p[1]] = a[p[2]] /\ p[1] < p[2])}
<1>1. \A e, f \in S : <<e, f>> \in R <=> a[e] < a[f] \/ (a[e] = a[f] /\ e < f)
  OBVIOUS
<1> HIDE DEF R
<1>2. ASSUME NEW e \in S PROVE <<e, e>> \notin R
  BY <1>1
<1>3. ASSUME NEW e \in S, NEW f \in S PROVE e = f \/ <<e, f>> \in R \/ <<f, e>> \in R
  BY <1>1
<1>4. ASSUME NEW e \in S, NEW f \in S, NEW g \in S, <<e, f>> \in R, <<f, g>> \in R
      PROVE  <<e, g>> \in R
  BY <1>1, <1>4
<1>5. StrictOrder(S, R)
  BY <1>2, <1>3, <1>4 DEF StrictOrder
<1> QED
  BY <1>5 DEF R

\* The symbols that are named are some of those that were found.
LEMMA SelectedSymbols ==
  ASSUME NEW s \in Seq(ScopedSymbol)
  PROVE  SelectSymbols(s) \in Seq(ScopedSymbol)
<1> DEFINE Y == ScopedSymbol
           U == {y.name : y \in Y}
           rank(y) == AuthorityRank(Row(y).authority)
           given == [i \in DOMAIN s |-> s[i].name]
           names == Distinct(given)
           m == Len(names)
           better(i, j) == \/ rank(s[i]) < rank(s[j])
                           \/ rank(s[i]) = rank(s[j]) /\ i < j
           I(n) == {i \in DOMAIN s : s[i].name = n}
           pick(n) == Sorted(I(n), better)[1]
           all == [k \in DOMAIN names |-> s[pick(names[k])]]
           J == {k \in DOMAIN all : rank(all[k]) <= 5}
           K == {k \in DOMAIN all : rank(all[k]) > 5}
           p == At(all, J)
           q == At(all, K)
           t == SelectSymbols(s)
<1>1. DOMAIN s = 1..Len(s) /\ Len(s) \in Nat /\ \A i \in 1..Len(s) : s[i] \in Y
  OBVIOUS
<1>2. t = First(MaxResults, p \o q)
  BY DEF SelectSymbols, Where
<1> HIDE DEF t
<1>3. given \in Seq(U) /\ Len(given) = Len(s) /\ \A i \in 1..Len(s) : given[i] = s[i].name
  BY <1>1
<1> HIDE DEF given
<1>4. names \in Seq(U) /\ \A k \in 1..m : \E j \in 1..Len(given) : names[k] = given[j]
  BY <1>3, DistinctElements
<1> HIDE DEF names
<1>5. ASSUME NEW n, I(n) # {} PROVE pick(n) \in I(n)
  <2> DEFINE S == I(n)
             R == {x \in S \X S : better(x[1], x[2])}
             a == [i \in S |-> rank(s[i])]
             Q == {x \in S \X S : a[x[1]] < a[x[2]] \/ (a[x[1]] = a[x[2]] /\ x[1] < x[2])}
  <2>1. S \in SUBSET (1..Len(s))
    BY <1>1
  <2>2. IsFiniteSet(S)
    <3>1. IsFiniteSet(1..Len(s))
      BY <1>1, FS_Interval
    <3> HIDE DEF S
    <3> QED
      BY <2>1, <3>1, FS_Subset
  <2>3. pick(n) = Ordered(S, R)[1]
    BY DEF Sorted
  <2>4. \A i \in S : i \in Int /\ a[i] \in Int /\ a[i] = rank(s[i])
    <3>1. \A i \in S : i \in Int
      BY <1>1, <2>1
    <3> HIDE DEF S
    <3> QED
      BY <3>1, Authority
  <2> HIDE DEF S, a, pick
  <2>5. R = Q
    BY <2>4
  <2>6. StrictOrder(S, Q)
    BY <2>4, RankThenPlace
  <2> HIDE DEF R, Q
  <2>7. Ordered(S, R)[1] \in S
    BY <1>5, <2>2, <2>5, <2>6, FirstOne DEF S
  <2> QED
    BY <2>3, <2>7 DEF S
<1>6. ASSUME NEW k \in 1..m PROVE pick(names[k]) \in 1..Len(s)
  <2>1. PICK j \in 1..Len(given) : names[k] = given[j]
    BY <1>4
  <2>2. j \in I(names[k])
    BY <1>1, <1>3, <2>1
  <2>3. pick(names[k]) \in I(names[k])
    <3> HIDE DEF I, pick
    <3> QED
      BY <1>5, <2>2
  <2> HIDE DEF pick
  <2> QED
    BY <1>1, <2>3
<1> HIDE DEF pick
<1>7. all \in Seq(Y)
  <2>1. DOMAIN names = 1..m /\ m \in Nat
    BY <1>4
  <2>2. \A k \in 1..m : s[pick(names[k])] \in Y
    BY <1>1, <1>6
  <2> HIDE DEF m, Y
  <2> QED
    BY <2>1, <2>2
<1> HIDE DEF all, Y
<1>8. J \in SUBSET (1..Len(all)) /\ K \in SUBSET (1..Len(all))
  BY <1>7
<1> HIDE DEF J, K
<1>9. p \in Seq(Y)
  BY <1>7, <1>8, Selected
<1>10. q \in Seq(Y)
  BY <1>7, <1>8, Selected
<1> HIDE DEF p, q
<1>11. p \o q \in Seq(Y) /\ MaxResults \in Nat
  BY <1>9, <1>10, PackageAssumption
<1> DEFINE x == p \o q
           u == First(MaxResults, x)
<1>12. x \in Seq(Y)
  BY <1>11
<1>13. t = u
  BY <1>2
<1> HIDE DEF x
<1>14. u \in Seq(Y)
  BY <1>11, <1>12, FirstElements
<1> HIDE DEF u
<1> QED
  BY <1>13, <1>14 DEF t, Y

\* A hit of a searched root keeps the package sound.
LEMMA Extracted ==
  ASSUME NEW p \in SoundPackage, NEW h \in ScopedHit
  PROVE  Extract(p, h) \in SoundPackage
<1> DEFINE d == h.lines.doc
           row == RowOf(h)
           au == row.authority
           says(x) == x \in Signals(h)
           example == /\ ExampleRoom(p)
                      /\ AuthorityRank(au) <= 4 \/ says("example")
           sequence == ~p.sequence /\ says("sequence")
           pinned == example \/ sequence \/ says("pitfall") \/ says("must")
           c == CiteHit(h)
           e == [uri |-> d, root |-> row.root, lines |-> h.lines,
                 text |-> h.text, size |-> Size.excerpt]
           both == p.apis \o Text(h.text).apis
           apis == Distinct(both)
           cites == Append(p.citations, c)
           vers == p.versions \cup ({row.version} \ {NoVersion})
           arch == p.archived \/ row.archived
           exs == IF example THEN Append(p.examples, e) ELSE p.examples
           pits == p.pitfalls + (IF says("pitfall") THEN 1 ELSE 0)
           cons == p.constraints + (IF says("must") THEN 1 ELSE 0)
           convs == p.conventions + (IF AuthorityRank(au) = 1 THEN 1 ELSE 0)
           seq == p.sequence \/ sequence
           pins == p.pins \cup (IF pinned THEN {d} ELSE {})
           as == IF Len(p.apis) >= ApiCap THEN p.apis ELSE First(ApiCap, apis)
           q == [p EXCEPT !.citations = cites, !.versions = vers, !.archived = arch,
                          !.examples = exs, !.pitfalls = pits, !.constraints = cons,
                          !.conventions = convs, !.sequence = seq, !.pins = pins, !.apis = as]
<1>1. /\ p \in Package /\ p.symbols \in Seq(ScopedSymbol) /\ p.apis \in Seq(Names)
      /\ p.examples \in Seq(ScopedExample) /\ Len(p.examples) <= MaxExamples
      /\ p.citations \in Seq(ScopedCitation)
  BY DEF SoundPackage, Package
<1>2. /\ p.versions \subseteq Versions /\ p.pitfalls \in Nat /\ p.constraints \in Nat
      /\ p.conventions \in Nat /\ p.pins \subseteq Docs
  BY <1>1 DEF Package
<1>3. /\ h \in Hit /\ h.lines \in Chunk /\ h.text = h.lines /\ d \in Docs
      /\ row \in Rows /\ InScope(d, row.root)
  <2>1. h \in Hit /\ h.lines \in ScopedChunk /\ h.row \in past[d] /\ h.text = h.lines
    BY DEF ScopedHit
  <2>2. h.row \in Revisions /\ h.lines \in Chunk /\ d \in ScopedDocs
    BY <2>1 DEF Hit, ScopedChunk
  <2>3. d \in Docs /\ InScope(d, row.root)
    BY <2>1, <2>2, RowInScope DEF RowOf
  <2>4. row \in Rows
    BY <2>2, <2>3 DEF RowOf, Rows
  <2> QED
    BY <2>1, <2>2, <2>3, <2>4
<1> HIDE DEF row
<1>4. c \in ScopedCitation
  <2>1. c \in Citation
    BY <1>3 DEF CiteHit, Citation, Roots, Authorities, Versions, row
  <2> QED
    BY <1>3, <2>1 DEF CiteHit, ScopedCitation, row
<1>5. cites \in Seq(ScopedCitation)
  <2> HIDE DEF c
  <2> QED
    BY <1>1, <1>4
<1>6. e \in ScopedExample
  <2>1. Size.excerpt \in Nat
    BY PackageAssumption
  <2>2. e \in Example
    BY <1>3, <2>1 DEF Example, Roots
  <2> QED
    BY <1>3, <2>2 DEF ScopedExample
<1>7. exs \in Seq(ScopedExample) /\ Len(exs) <= MaxExamples
  <2>1. MaxExamples \in Nat
    BY PackageAssumption
  <2> HIDE DEF e
  <2>2. CASE example
    <3>1. Len(p.examples) < MaxExamples
      BY <2>2 DEF ExampleRoom
    <3>2. exs = Append(p.examples, e)
      BY <2>2
    <3> HIDE DEF exs
    <3>3. Append(p.examples, e) \in Seq(ScopedExample)
      BY <1>1, <1>6
    <3>4. Len(Append(p.examples, e)) = Len(p.examples) + 1 /\ Len(p.examples) \in Nat
      BY <1>1, <1>6
    <3> QED
      BY <2>1, <3>1, <3>2, <3>3, <3>4
  <2>3. CASE ~example
    BY <1>1, <2>3
  <2> QED
    BY <2>2, <2>3
<1>8. ApiCap \in Nat
  BY PackageAssumption DEF ApiCap
<1>9. as \in Seq(Names)
  <2>1. Text(h.text).apis \in Seq(Names)
    BY <1>3, ChunkText
  <2>2. both \in Seq(Names)
    BY <1>1, <2>1
  <2> HIDE DEF both
  <2>3. apis \in Seq(Names)
    BY <2>2, DistinctElements
  <2> HIDE DEF apis
  <2>4. First(ApiCap, apis) \in Seq(Names)
    BY <1>8, <2>3, FirstElements
  <2> QED
    BY <1>1, <2>4
<1>10. Extract(p, h) = q
  BY DEF Extract, row
<1> HIDE DEF example, sequence, pinned, says, c, e, apis, both
<1>11. /\ vers \subseteq Versions /\ arch \in BOOLEAN /\ pits \in Nat /\ cons \in Nat
       /\ convs \in Nat /\ seq \in BOOLEAN /\ pins \subseteq Docs
  <2>1. vers \subseteq Versions
    BY <1>2, <1>3 DEF Versions
  <2>2. pins \subseteq Docs
    BY <1>2, <1>3
  <2>3. arch \in BOOLEAN /\ seq \in BOOLEAN
    OBVIOUS
  <2>4. pits \in Nat /\ cons \in Nat /\ convs \in Nat
    BY <1>2
  <2> QED
    BY <2>1, <2>2, <2>3, <2>4
<1>12. cites \in Seq(Citation) /\ exs \in Seq(Example)
  <2> HIDE DEF cites, exs
  <2> QED
    BY <1>5, <1>7 DEF ScopedCitation, ScopedExample
<1> HIDE DEF cites, vers, arch, exs, pits, cons, convs, seq, pins, as
<1>13. /\ q \in Package /\ q.citations = cites /\ q.examples = exs
       /\ q.symbols = p.symbols
  BY <1>1, <1>9, <1>11, <1>12 DEF Package
<1> HIDE DEF q
<1>14. q \in SoundPackage
  BY <1>1, <1>5, <1>7, <1>13 DEF SoundPackage
<1> QED
  BY <1>10, <1>14
\* Each source of a spared bucket that was offered is shown early.
Diverse(p) ==
  MaxResults >= 3 =>
    \A b \in p.offered \cap Spared :
      \E k \in 1..3 : k <= Len(p.citations) /\ Bucket(p.citations[k]) = b

\* Remarks change nothing that was found.
LEMMA Remarked ==
  ASSUME NEW p \in SoundPackage
  PROVE  /\ Remark(p) \in SoundPackage
         /\ Remark(p).citations = p.citations /\ Remark(p).offered = p.offered
<1> DEFINE one(b) == IF b THEN 1 ELSE 0
           unsure == request.version # NoVersion /\ p.freshness \in {"mixed", "unknown"}
           missing == one(~p.sequence /\ p.apis # <<>>) + one(p.coverage = "low") + one(unsure)
                        + one(p.freshness = "stale")
           more == 1 + one(p.coverage = "low" /\ p.symbols = <<>> /\ p.apis = <<>>)
                     + one(p.examples = <<>>) + one(p.symbols = <<>> /\ p.apis # <<>>)
                     + one(~p.sequence /\ p.apis # <<>>) + one(unsure)
           q == [p EXCEPT !.missing = missing, !.followUps = more]
<1>1. Remark(p) = q
  BY DEF Remark
<1>2. missing \in Nat /\ more \in Nat
  <2> DEFINE a == one(~p.sequence /\ p.apis # <<>>)
             b == one(p.coverage = "low")
             c == one(unsure)
             d == one(p.freshness = "stale")
             e == one(p.coverage = "low" /\ p.symbols = <<>> /\ p.apis = <<>>)
             f == one(p.examples = <<>>)
             g == one(p.symbols = <<>> /\ p.apis # <<>>)
  <2>1. /\ a \in Nat /\ b \in Nat /\ c \in Nat /\ d \in Nat /\ e \in Nat /\ f \in Nat
        /\ g \in Nat
    OBVIOUS
  <2>2. missing = a + b + c + d /\ more = 1 + e + f + g + a + c
    OBVIOUS
  <2> HIDE DEF a, b, c, d, e, f, g
  <2>3. a + b + c + d \in Nat /\ 1 + e + f + g + a + c \in Nat
    BY <2>1
  <2> HIDE DEF missing, more
  <2> QED
    BY <2>2, <2>3
<1> HIDE DEF missing, more
<1>3. p \in Package
  BY DEF SoundPackage
<1>4. /\ q \in Package /\ q.symbols = p.symbols /\ q.examples = p.examples
      /\ q.citations = p.citations /\ q.offered = p.offered
  BY <1>2, <1>3 DEF Package
<1> HIDE DEF q
<1>5. q \in SoundPackage
  BY <1>4 DEF SoundPackage
<1> QED
  BY <1>1, <1>4, <1>5

\* A bucket has one of five names.
LEMMA BucketName ==
  \A c : Bucket(c) \in BucketNames
BY DEF Bucket, BucketNames

\* The hits are extracted one after the other.
LEMMA AllExtracted ==
  ASSUME IInv
  PROVE  LET after[i \in 0..Len(hits)] == IF i = 0 THEN pkg ELSE Extract(after[i - 1], hits[i])
         IN  after[Len(hits)] \in SoundPackage
<1> DEFINE n == Len(hits)
           Y == SoundPackage
           step(f, i) == IF i = 0 THEN pkg ELSE Extract(f[i - 1], hits[i])
           after == CHOOSE after : after = [i \in 0..n |-> step(after, i)]
           F == [i \in 1..n |-> [p \in Y |-> Extract(p, hits[i])]]
<1>1. hits \in Seq(ScopedHit) /\ pkg \in Y
  BY DEF IInv
<1>2. n \in Nat /\ \A i \in 1..n : hits[i] \in ScopedHit
  BY <1>1
<1>3. \A p \in Y : \A h \in ScopedHit : Extract(p, h) \in Y
  BY Extracted
<1> HIDE DEF n, Y
<1>4. F \in [1..n -> [Y -> Y]]
  BY <1>2, <1>3
<1>5. PICK f \in [0..n -> Y] : Follows(f, n, pkg, F)
  <2> HIDE DEF F
  <2> QED
    BY <1>1, <1>2, <1>4, Recursion, Zenon
<1>6. f = [i \in 0..n |-> step(f, i)]
  <2>1. f[0] = pkg /\ \A i \in 1..n : f[i] = F[i][f[i - 1]]
    <3> HIDE DEF F
    <3> QED
      BY <1>5 DEF Follows
  <2>2. ASSUME NEW i \in 1..n PROVE f[i] = Extract(f[i - 1], hits[i])
    <3>1. f[i - 1] \in Y
      BY <1>2
    <3>2. F[i][f[i - 1]] = Extract(f[i - 1], hits[i])
      BY <3>1
    <3> HIDE DEF F
    <3> QED
      BY <2>1, <3>2
  <2>3. ASSUME NEW i \in 0..n PROVE f[i] = step(f, i)
    <3>1. i = 0 \/ i \in 1..n
      BY <1>2
    <3> QED
      BY <2>1, <2>2, <3>1
  <2> HIDE DEF step
  <2> QED
    BY <2>3
<1>7. after = [i \in 0..n |-> step(after, i)]
  <2> HIDE DEF step
  <2> QED
    BY <1>6, Zenon
<1> HIDE DEF after
<1>8. after[0] \in Y /\ \A i \in 1..n : after[i - 1] \in Y => after[i] \in Y
  <2>1. \A i \in 0..n : after[i] = step(after, i)
    <3> HIDE DEF step
    <3> QED
      BY <1>7
  <2>2. after[0] = pkg
    BY <1>2, <2>1
  <2>3. \A i \in 1..n : i \in 0..n /\ i # 0
    BY <1>2
  <2>4. \A i \in 1..n : after[i] = Extract(after[i - 1], hits[i])
    BY <2>1, <2>3
  <2> QED
    BY <1>1, <1>2, <1>3, <2>2, <2>4
<1>9. \A i \in 0..n : after[i] \in Y
  BY <1>2, <1>8, AlongChain, Zenon
<1>10. after[n] \in Y
  BY <1>2, <1>9
<1> QED
  BY <1>10 DEF after, n, Y

\* What was assembled is sound, and diverse.
LEMMA AssembledPackage ==
  ASSUME IInv, Assemble
  PROVE  pkg' \in SoundPackage /\ Diverse(pkg')
<1> DEFINE n == Len(hits)
           after == CHOOSE after :
                      after = [i \in 0..n |-> IF i = 0 THEN pkg ELSE Extract(after[i - 1], hits[i])]
           p == after[n]
           cites == SelectCitations(p.citations, p.pins)
           syms == SelectSymbols(p.symbols)
           apis == First(ApiCap, p.apis)
           offered == {Bucket(c) : c \in ToSet(BestOf(p.citations))}
           q == [p EXCEPT !.citations = cites, !.symbols = syms, !.apis = apis, !.offered = offered]
           cov == Coverage(q)
           fresh == Freshness(q)
           r == [q EXCEPT !.coverage = cov, !.freshness = fresh]
           web == r.coverage = "low" \/ r.freshness \in {"stale", "mixed", "unknown"}
           w == [r EXCEPT !.webSearch = web]
<1>1. pkg' = Remark(w)
  BY DEF Assemble
<1>2. p \in SoundPackage
  BY AllExtracted
<1> HIDE DEF p
<1>3. /\ p \in Package /\ p.symbols \in Seq(ScopedSymbol) /\ p.apis \in Seq(Names)
      /\ p.examples \in Seq(ScopedExample) /\ Len(p.examples) <= MaxExamples
      /\ p.citations \in Seq(ScopedCitation)
  BY <1>2 DEF SoundPackage, Package
<1>4. syms \in Seq(ScopedSymbol)
  BY <1>3, SelectedSymbols
<1>5. apis \in Seq(Names)
  <2>1. ApiCap \in Nat
    BY PackageAssumption DEF ApiCap
  <2> QED
    BY <1>3, <2>1, FirstElements
<1>6. /\ cites \in Seq(ScopedCitation)
      /\ MaxResults >= 3 =>
           \A c \in ToSet(BestOf(p.citations)) : Bucket(c) \in Spared =>
             \E k \in 1..3 : k <= Len(cites) /\ Bucket(cites[k]) = Bucket(c)
  BY <1>3, SelectedCitations
<1>7. offered \subseteq BucketNames
  BY BucketName
<1>8. ASSUME MaxResults >= 3, NEW b \in offered \cap Spared
      PROVE  \E k \in 1..3 : k <= Len(cites) /\ Bucket(cites[k]) = b
  <2>1. \E c \in ToSet(BestOf(p.citations)) : Bucket(c) = b
    OBVIOUS
  <2> HIDE DEF cites
  <2> QED
    BY <1>6, <1>8, <2>1
<1>9. cites \in Seq(Citation) /\ syms \in Seq(Symbol)
  <2> HIDE DEF cites, syms
  <2> QED
    BY <1>4, <1>6 DEF ScopedCitation, ScopedSymbol
<1> HIDE DEF cites, syms, apis, offered
<1>10. /\ q \in Package /\ q.citations = cites /\ q.symbols = syms /\ q.offered = offered
       /\ q.examples = p.examples
  BY <1>3, <1>5, <1>7, <1>9 DEF Package
<1> HIDE DEF q
<1>11. cov \in {"low", "medium", "high"}
  BY DEF Coverage
<1>12. fresh \in {"unknown", "stale", "mixed", "version-specific", "current"}
  BY DEF Freshness
<1> HIDE DEF cov, fresh
<1>13. /\ r \in Package /\ r.citations = cites /\ r.symbols = syms /\ r.offered = offered
       /\ r.examples = p.examples
  BY <1>10, <1>11, <1>12 DEF Package
<1> HIDE DEF r
<1>14. web \in BOOLEAN
  OBVIOUS
<1> HIDE DEF web
<1>15. /\ w \in Package /\ w.citations = cites /\ w.symbols = syms /\ w.offered = offered
       /\ w.examples = p.examples
  BY <1>13, <1>14 DEF Package
<1> HIDE DEF w
<1>16. w \in SoundPackage
  BY <1>3, <1>4, <1>6, <1>15 DEF SoundPackage
<1>17. /\ Remark(w) \in SoundPackage
       /\ Remark(w).citations = cites /\ Remark(w).offered = offered
  BY <1>15, <1>16, Remarked
<1> QED
  BY <1>1, <1>8, <1>17 DEF Diverse

\* The package is assembled.
LEMMA AssembleStep ==
  ASSUME IInv, Assemble
  PROVE  IInv'
<1>1. /\ Reads /\ stage' = "trim" /\ todo' = todo /\ search' = search /\ hits' = hits
  BY DEF Assemble
<1>2. TodoSound(stage', todo', search', hits') /\ Sealed(stage', pkg') /\ stage' \in Stages
  BY <1>1 DEF TodoSound, Sealed, SearchStages, Stages
<1> QED
  BY <1>1, <1>2, AssembledPackage, OwnStep DEF IInv
\* What may be cut, and from where on.
Numbers == {"followUps", "conventions", "pitfalls", "constraints", "prereqs", "missing"}
\* The fields that are texts.
Texts == {"excerpt", "constraint", "summary", "note"}

\* The trim cuts lists, numbers and texts only.
LEMMA CutOrder ==
  \A k \in 1..Len(TrimOrder) :
    /\ TrimOrder[k][1] \in Lists \cup Numbers \cup Texts /\ TrimOrder[k][2] \in Nat
    /\ TrimOrder[k][1] = "citations" => TrimOrder[k][2] = 3
<1>1. Len(TrimOrder) = 18
  BY DEF TrimOrder
<1>2. SUFFICES ASSUME NEW k \in 1..18
               PROVE  /\ TrimOrder[k][1] \in Lists \cup Numbers \cup Texts /\ TrimOrder[k][2] \in Nat
                      /\ TrimOrder[k][1] = "citations" => TrimOrder[k][2] = 3
  BY <1>1
<1>3. \/ k = 1 \/ k = 2 \/ k = 3 \/ k = 4 \/ k = 5 \/ k = 6 \/ k = 7 \/ k = 8 \/ k = 9
      \/ k = 10 \/ k = 11 \/ k = 12 \/ k = 13 \/ k = 14 \/ k = 15 \/ k = 16 \/ k = 17 \/ k = 18
  OBVIOUS
<1> QED
  BY <1>3 DEF TrimOrder, Lists, Numbers, Texts

\* A sequence without its last element.
LEMMA FrontElements ==
  ASSUME NEW X, NEW s \in Seq(X), Len(s) > 0
  PROVE  /\ Front(s) \in Seq(X) /\ Len(Front(s)) = Len(s) - 1
         /\ \A i \in 1..(Len(s) - 1) : Front(s)[i] = s[i]
<1> DEFINE m == Len(s) - 1
<1>1. m \in Nat /\ Len(s) \in Nat /\ m <= Len(s)
  OBVIOUS
<1>2. \A i \in 1..m : s[i] \in X
  BY <1>1
<1> HIDE DEF m
<1>3. /\ SubSeq(s, 1, m) \in Seq(X) /\ Len(SubSeq(s, 1, m)) = m
      /\ \A i \in 1..m : SubSeq(s, 1, m)[i] = s[i]
  BY <1>1, <1>2
<1> QED
  BY <1>3 DEF Front, m

\* The next cut takes from what there is more of than the limit.
LEMMA CutIndex ==
  ASSUME NEW p, NextCut(p) # 0
  PROVE  /\ NextCut(p) \in 1..Len(TrimOrder)
         /\ Amount(p, TrimOrder[NextCut(p)][1]) > TrimOrder[NextCut(p)][2]
<1> DEFINE I == {i \in 1..Len(TrimOrder) : Amount(p, TrimOrder[i][1]) > TrimOrder[i][2]}
<1>1. NextCut(p) = IF I # {} THEN Min(I) ELSE 0
  BY DEF NextCut, SelectInSeq
<1>2. I # {} /\ NextCut(p) = Min(I)
  BY <1>1
<1>3. I \in SUBSET Nat
  OBVIOUS
<1>4. PICK m \in I : \A k \in I : m <= k
  <2> HIDE DEF I
  <2> QED
    BY <1>2, <1>3, Least
<1>5. Min(I) \in I
  <2> HIDE DEF I
  <2> QED
    BY <1>4 DEF Min
<1> QED
  BY <1>2, <1>5

\* A cut of a number.
LEMMA NumberCut ==
  ASSUME NEW p \in SoundPackage, NEW field \in Numbers, p[field] > 0
  PROVE  LET q == [p EXCEPT ![field] = @ - 1]
         IN  /\ q \in SoundPackage
             /\ q.citations = p.citations /\ q.offered = p.offered
<1> DEFINE q == [p EXCEPT ![field] = @ - 1]
<1>1. p \in Package
  BY DEF SoundPackage
<1>2. /\ q \in Package /\ q.symbols = p.symbols /\ q.examples = p.examples
      /\ q.citations = p.citations /\ q.offered = p.offered
  <2>1. CASE field = "followUps"
    <3>1. p.followUps - 1 \in Nat
      BY <1>1, <2>1 DEF Package
    <3> QED
      BY <1>1, <2>1, <3>1 DEF Package
  <2>2. CASE field = "conventions"
    <3>1. p.conventions - 1 \in Nat
      BY <1>1, <2>2 DEF Package
    <3> QED
      BY <1>1, <2>2, <3>1 DEF Package
  <2>3. CASE field = "pitfalls"
    <3>1. p.pitfalls - 1 \in Nat
      BY <1>1, <2>3 DEF Package
    <3> QED
      BY <1>1, <2>3, <3>1 DEF Package
  <2>4. CASE field = "constraints"
    <3>1. p.constraints - 1 \in Nat
      BY <1>1, <2>4 DEF Package
    <3> QED
      BY <1>1, <2>4, <3>1 DEF Package
  <2>5. CASE field = "prereqs"
    <3>1. p.prereqs - 1 \in Nat
      BY <1>1, <2>5 DEF Package
    <3> QED
      BY <1>1, <2>5, <3>1 DEF Package
  <2>6. CASE field = "missing"
    <3>1. p.missing - 1 \in Nat
      BY <1>1, <2>6 DEF Package
    <3> QED
      BY <1>1, <2>6, <3>1 DEF Package
  <2> QED
    BY <2>1, <2>2, <2>3, <2>4, <2>5, <2>6 DEF Numbers
<1> HIDE DEF q
<1>3. q \in SoundPackage
  BY <1>2 DEF SoundPackage
<1> QED
  BY <1>2, <1>3 DEF q

\* A cut of a list.
LEMMA ListCut ==
  ASSUME NEW p \in SoundPackage, NEW field \in Lists, Len(p[field]) > 0
  PROVE  LET q == [p EXCEPT ![field] = Front(@)]
         IN  /\ q \in SoundPackage /\ q.offered = p.offered
             /\ field # "citations" => q.citations = p.citations
             /\ field = "citations" => q.citations = Front(p.citations)
<1> DEFINE t == Front(p[field])
           q == [p EXCEPT ![field] = t]
<1>1. /\ p \in Package /\ p.symbols \in Seq(ScopedSymbol) /\ p.apis \in Seq(Names)
      /\ p.examples \in Seq(ScopedExample) /\ Len(p.examples) <= MaxExamples
      /\ p.citations \in Seq(ScopedCitation)
  BY DEF SoundPackage, Package
<1>2. [p EXCEPT ![field] = Front(@)] = q
  OBVIOUS
<1>3. CASE field = "apis"
  <2>1. t \in Seq(Names)
    BY <1>1, <1>3, FrontElements
  <2> HIDE DEF t
  <2>2. /\ q \in Package /\ q.symbols = p.symbols /\ q.examples = p.examples
        /\ q.citations = p.citations /\ q.offered = p.offered
    BY <1>1, <1>3, <2>1 DEF Package
  <2> HIDE DEF q
  <2>3. q \in SoundPackage
    BY <2>2 DEF SoundPackage
  <2>4. /\ q \in SoundPackage /\ q.offered = p.offered
        /\ field # "citations" => q.citations = p.citations
        /\ field = "citations" => q.citations = Front(p.citations)
    BY <1>3, <2>2, <2>3
  <2> QED
    BY <1>2, <2>4
<1>4. CASE field = "symbols"
  <2>1. t \in Seq(ScopedSymbol)
    BY <1>1, <1>4, FrontElements
  <2> HIDE DEF t
  <2>5. t \in Seq(Symbol)
    BY <2>1 DEF ScopedSymbol
  <2>2. /\ q \in Package /\ q.symbols = t /\ q.examples = p.examples
        /\ q.citations = p.citations /\ q.offered = p.offered
    BY <1>1, <1>4, <2>5 DEF Package
  <2> HIDE DEF q
  <2>3. q \in SoundPackage
    BY <1>1, <2>1, <2>2 DEF SoundPackage
  <2>4. /\ q \in SoundPackage /\ q.offered = p.offered
        /\ field # "citations" => q.citations = p.citations
        /\ field = "citations" => q.citations = Front(p.citations)
    BY <1>4, <2>2, <2>3
  <2> QED
    BY <1>2, <2>4
<1>5. CASE field = "examples"
  <2>1. t \in Seq(ScopedExample) /\ Len(t) = Len(p.examples) - 1 /\ Len(p.examples) \in Nat
    BY <1>1, <1>5, FrontElements
  <2> HIDE DEF t
  <2>5. t \in Seq(Example) /\ Len(t) <= MaxExamples
    <3>1. MaxExamples \in Nat
      BY PackageAssumption
    <3>2. t \in Seq(Example)
      BY <2>1 DEF ScopedExample
    <3> QED
      BY <1>1, <2>1, <3>1, <3>2
  <2>2. /\ q \in Package /\ q.symbols = p.symbols /\ q.examples = t
        /\ q.citations = p.citations /\ q.offered = p.offered
    BY <1>1, <1>5, <2>5 DEF Package
  <2> HIDE DEF q
  <2>3. q \in SoundPackage
    BY <1>1, <2>1, <2>2, <2>5 DEF SoundPackage
  <2>4. /\ q \in SoundPackage /\ q.offered = p.offered
        /\ field # "citations" => q.citations = p.citations
        /\ field = "citations" => q.citations = Front(p.citations)
    BY <1>5, <2>2, <2>3
  <2> QED
    BY <1>2, <2>4
<1>6. CASE field = "citations"
  <2>1. t \in Seq(ScopedCitation) /\ t = Front(p.citations)
    BY <1>1, <1>6, FrontElements
  <2> HIDE DEF t
  <2>5. t \in Seq(Citation)
    BY <2>1 DEF ScopedCitation
  <2>2. /\ q \in Package /\ q.symbols = p.symbols /\ q.examples = p.examples
        /\ q.citations = t /\ q.offered = p.offered
    BY <1>1, <1>6, <2>5 DEF Package
  <2> HIDE DEF q
  <2>3. q \in SoundPackage
    BY <1>1, <2>1, <2>2 DEF SoundPackage
  <2>4. /\ q \in SoundPackage /\ q.offered = p.offered
        /\ field # "citations" => q.citations = p.citations
        /\ field = "citations" => q.citations = Front(p.citations)
    BY <1>6, <2>1, <2>2, <2>3
  <2> QED
    BY <1>2, <2>4
<1> QED
  BY <1>3, <1>4, <1>5, <1>6 DEF Lists

\* The size of the only excerpt is halved, and so on.
LEMMA TextCut ==
  ASSUME NEW p \in SoundPackage, NEW field \in Texts,
         field = "excerpt" => Len(p.examples) = 1
  PROVE  /\ Cut(p, field) \in SoundPackage
         /\ Cut(p, field).citations = p.citations /\ Cut(p, field).offered = p.offered
<1> DEFINE q == Cut(p, field)
<1>1. /\ p \in Package /\ p.symbols \in Seq(ScopedSymbol)
      /\ p.examples \in Seq(ScopedExample) /\ Len(p.examples) <= MaxExamples
      /\ p.citations \in Seq(ScopedCitation)
  BY DEF SoundPackage
<1>2. CASE field = "excerpt"
  <2> DEFINE e == p.examples[1]
             half == e.size \div 2 + 3
             f == [e EXCEPT !.size = half]
             t == [p.examples EXCEPT ![1] = f]
             r == [p EXCEPT !.examples = t]
  <2>1. q = r
    BY <1>2 DEF Cut, Lists
  <2>2. e \in ScopedExample /\ 1 \in DOMAIN p.examples
    <3> DEFINE x == p.examples
    <3>1. x \in Seq(ScopedExample) /\ Len(x) = 1
      BY <1>1, <1>2
    <3> HIDE DEF x
    <3>2. 1 \in DOMAIN x /\ x[1] \in ScopedExample
      BY <3>1
    <3> QED
      BY <3>2 DEF x
  <2>3. half \in Nat
    <3>1. e.size \in Nat
      BY <2>2 DEF ScopedExample, Example
    <3> QED
      BY <3>1
  <2> HIDE DEF half
  <2>4. f \in ScopedExample
    <3> HIDE DEF e
    <3>1. f \in Example /\ f.uri = e.uri /\ f.root = e.root /\ f.lines = e.lines /\ f.text = e.text
      BY <2>2, <2>3 DEF ScopedExample, Example
    <3> HIDE DEF f
    <3> QED
      BY <2>2, <3>1 DEF ScopedExample
  <2> HIDE DEF f
  <2>5. t \in Seq(ScopedExample) /\ Len(t) = Len(p.examples)
    BY <1>1, <2>2, <2>4
  <2> HIDE DEF t
  <2>6. t \in Seq(Example)
    BY <2>5 DEF ScopedExample
  <2>7. /\ r \in Package /\ r.symbols = p.symbols /\ r.examples = t
        /\ r.citations = p.citations /\ r.offered = p.offered
    BY <1>1, <2>6 DEF Package
  <2> HIDE DEF r
  <2>8. r \in SoundPackage
    BY <1>1, <2>5, <2>7 DEF SoundPackage
  <2> QED
    BY <2>1, <2>7, <2>8
<1>3. CASE field = "constraint"
  <2> DEFINE half == p.constraint \div 2 + 3
             r == [p EXCEPT !.constraint = half]
  <2>1. q = r
    BY <1>3 DEF Cut, Lists
  <2>2. half \in Nat
    <3>1. p.constraint \in Nat
      BY <1>1 DEF Package
    <3> QED
      BY <3>1
  <2> HIDE DEF half
  <2>7. /\ r \in Package /\ r.symbols = p.symbols /\ r.examples = p.examples
        /\ r.citations = p.citations /\ r.offered = p.offered
    BY <1>1, <2>2 DEF Package
  <2> HIDE DEF r
  <2>8. r \in SoundPackage
    BY <1>1, <2>7 DEF SoundPackage
  <2> QED
    BY <2>1, <2>7, <2>8
<1>4. CASE field = "summary"
  <2> DEFINE r == [p EXCEPT !.summary = 63]
  <2>1. q = r
    BY <1>4 DEF Cut, Lists
  <2>7. /\ r \in Package /\ r.symbols = p.symbols /\ r.examples = p.examples
        /\ r.citations = p.citations /\ r.offered = p.offered
    BY <1>1 DEF Package
  <2> HIDE DEF r
  <2>8. r \in SoundPackage
    BY <1>1, <2>7 DEF SoundPackage
  <2> QED
    BY <2>1, <2>7, <2>8
<1>5. CASE field = "note"
  <2> DEFINE r == [p EXCEPT !.note = FALSE]
  <2>1. q = r
    BY <1>5 DEF Cut, Lists
  <2>7. /\ r \in Package /\ r.symbols = p.symbols /\ r.examples = p.examples
        /\ r.citations = p.citations /\ r.offered = p.offered
    BY <1>1 DEF Package
  <2> HIDE DEF r
  <2>8. r \in SoundPackage
    BY <1>1, <2>7 DEF SoundPackage
  <2> QED
    BY <2>1, <2>7, <2>8
<1> QED
  BY <1>2, <1>3, <1>4, <1>5 DEF Texts
\* A cut takes nothing from the first three citations, and leaves the rest
\* of the package sound.
LEMMA CutPackage ==
  ASSUME NEW p \in SoundPackage, NextCut(p) # 0
  PROVE  LET q == Cut(p, TrimOrder[NextCut(p)][1])
         IN  q \in SoundPackage /\ (Diverse(p) => Diverse(q))
<1> DEFINE k == NextCut(p)
           field == TrimOrder[k][1]
           limit == TrimOrder[k][2]
           q == Cut(p, field)
<1>1. k \in 1..Len(TrimOrder) /\ Amount(p, field) > limit
  BY CutIndex
<1>2. /\ field \in Lists \cup Numbers \cup Texts /\ limit \in Nat
      /\ field = "citations" => limit = 3
  BY <1>1, CutOrder
<1> HIDE DEF k, field, limit
<1>3. CASE field \in Numbers
  <2>1. field \notin Lists /\ field \notin Texts
    BY <1>3 DEF Numbers, Lists, Texts
  <2>2. Amount(p, field) = p[field] /\ q = [p EXCEPT ![field] = @ - 1]
    BY <1>3, <2>1 DEF Amount, Cut, Texts
  <2>3. p[field] > 0
    <3>1. p[field] \in Nat
      <4>1. p \in Package
        BY DEF SoundPackage
      <4> QED
        BY <1>3, <4>1 DEF Package, Numbers
    <3> QED
      BY <1>1, <1>2, <2>2, <3>1
  <2> DEFINE r == [p EXCEPT ![field] = @ - 1]
  <2>4. r \in SoundPackage /\ r.citations = p.citations /\ r.offered = p.offered
    BY <1>3, <2>3, NumberCut
  <2> HIDE DEF r
  <2>5. q = r
    BY <2>2 DEF r
  <2> HIDE DEF q
  <2>6. q \in SoundPackage /\ (Diverse(p) => Diverse(q))
    BY <2>4, <2>5 DEF Diverse
  <2> QED
    BY <2>6 DEF q, k, field
<1>4. CASE field \in Lists
  <2>1. Amount(p, field) = Len(p[field]) /\ q = [p EXCEPT ![field] = Front(@)]
    BY <1>4 DEF Amount, Cut, Lists
  <2>2. Len(p[field]) \in Nat
    <3>1. /\ p.symbols \in Seq(Symbol) /\ p.apis \in Seq(Names)
          /\ p.examples \in Seq(Example) /\ p.citations \in Seq(Citation)
      BY DEF SoundPackage, Package
    <3> QED
      BY <1>4, <3>1 DEF Lists
  <2>3. Len(p[field]) > 0 /\ Len(p[field]) > limit
    <3> DEFINE n == Len(p[field])
    <3>1. n \in Nat /\ n > limit
      BY <1>1, <2>1, <2>2
    <3> HIDE DEF n
    <3>2. n > 0
      BY <1>2, <3>1
    <3> QED
      BY <3>1, <3>2 DEF n
  <2> DEFINE r == [p EXCEPT ![field] = Front(@)]
  <2>4. /\ r \in SoundPackage /\ r.offered = p.offered
        /\ field # "citations" => r.citations = p.citations
        /\ field = "citations" => r.citations = Front(p.citations)
    BY <1>4, <2>3, ListCut
  <2> HIDE DEF r
  <2>5. q = r
    BY <2>1 DEF r
  <2> HIDE DEF q
  <2>6. ASSUME field # "citations" PROVE q \in SoundPackage /\ (Diverse(p) => Diverse(q))
    BY <2>4, <2>5, <2>6 DEF Diverse
  <2>7. ASSUME field = "citations" PROVE q \in SoundPackage /\ (Diverse(p) => Diverse(q))
    <3>1. p.citations \in Seq(ScopedCitation) /\ Len(p.citations) > 3
      BY <1>2, <2>3, <2>7 DEF SoundPackage
    <3>2. Len(p.citations) \in Nat
      BY <3>1
    <3>3. /\ Len(q.citations) = Len(p.citations) - 1
          /\ \A i \in 1..(Len(p.citations) - 1) : q.citations[i] = p.citations[i]
      BY <2>4, <2>5, <2>7, <3>1, <3>2, FrontElements
    <3>4. \A i \in 1..3 : i <= Len(q.citations) /\ q.citations[i] = p.citations[i]
      BY <3>1, <3>2, <3>3
    <3> QED
      BY <2>4, <2>5, <3>4 DEF Diverse
  <2>8. q \in SoundPackage /\ (Diverse(p) => Diverse(q))
    BY <2>4, <2>5, <2>6, <2>7
  <2> QED
    BY <2>8 DEF q, k, field
<1>5. CASE field \in Texts
  <2>1. field = "excerpt" => Len(p.examples) = 1
    <3>1. field = "excerpt" => Amount(p, field) = IF Len(p.examples) = 1 THEN p.examples[1].size ELSE 0
      BY DEF Amount, Lists
    <3> QED
      BY <1>1, <1>2, <3>1
  <2> HIDE DEF q
  <2>2. q \in SoundPackage /\ q.citations = p.citations /\ q.offered = p.offered
    BY <1>5, <2>1, TextCut DEF q
  <2>3. q \in SoundPackage /\ (Diverse(p) => Diverse(q))
    BY <2>2 DEF Diverse
  <2> QED
    BY <2>3 DEF q, k, field
<1> QED
  BY <1>2, <1>3, <1>4, <1>5

\* The lists are shortened before the first round.
LEMMA BeginTrimStep ==
  ASSUME IInv, BeginTrim
  PROVE  IInv' /\ (Diverse(pkg) => Diverse(pkg'))
<1> DEFINE apis == First(8, pkg.apis)
           syms == First(6, pkg.symbols)
           q == [pkg EXCEPT !.apis = apis, !.symbols = syms]
<1>1. /\ Reads /\ todo' = todo /\ search' = search /\ hits' = hits
      /\ \/ stage' = "seal" /\ pkg' = pkg
         \/ stage' = "rounds" /\ pkg' = q
  BY DEF BeginTrim
<1>2. /\ pkg \in Package /\ pkg.symbols \in Seq(ScopedSymbol) /\ pkg.apis \in Seq(Names)
      /\ pkg.examples \in Seq(ScopedExample) /\ Len(pkg.examples) <= MaxExamples
      /\ pkg.citations \in Seq(ScopedCitation) /\ pkg \in SoundPackage
  BY DEF IInv, SoundPackage, Package
<1>3. apis \in Seq(Names)
  BY <1>2, FirstElements
<1>4. syms \in Seq(ScopedSymbol)
  BY <1>2, FirstElements
<1> HIDE DEF apis, syms
<1>5. syms \in Seq(Symbol)
  BY <1>4 DEF ScopedSymbol
<1>6. /\ q \in Package /\ q.symbols = syms /\ q.examples = pkg.examples
      /\ q.citations = pkg.citations /\ q.offered = pkg.offered
  BY <1>2, <1>3, <1>5 DEF Package
<1> HIDE DEF q
<1>7. q \in SoundPackage
  BY <1>2, <1>4, <1>6 DEF SoundPackage
<1>8. pkg' \in SoundPackage /\ (Diverse(pkg) => Diverse(pkg'))
  BY <1>1, <1>2, <1>6, <1>7 DEF Diverse
<1>9. TodoSound(stage', todo', search', hits') /\ Sealed(stage', pkg') /\ stage' \in Stages
  BY <1>1 DEF TodoSound, Sealed, SearchStages, Stages
<1>10. SearchSound(search') /\ hits' \in Seq(ScopedHit)
  BY <1>1 DEF IInv
<1>11. IInv'
  BY <1>1, <1>8, <1>9, <1>10, OwnStep
<1> QED
  BY <1>8, <1>11

\* The trim ends.
LEMMA EndTrimStep ==
  ASSUME IInv, EndTrim
  PROVE  IInv'
<1>1. /\ Reads /\ todo' = todo /\ search' = search /\ hits' = hits /\ stage' = "seal" /\ pkg' = pkg
  BY DEF EndTrim
<1>2. TodoSound(stage', todo', search', hits') /\ Sealed(stage', pkg') /\ stage' \in Stages
  BY <1>1 DEF TodoSound, Sealed, SearchStages, Stages
<1>3. SearchSound(search') /\ hits' \in Seq(ScopedHit) /\ pkg' \in SoundPackage
  BY <1>1 DEF IInv
<1> QED
  BY <1>1, <1>2, <1>3, OwnStep

\* A round of the trim.
LEMMA TrimRoundStep ==
  ASSUME IInv, TrimRound
  PROVE  IInv' /\ (Diverse(pkg) => Diverse(pkg'))
<1>1. /\ request' = request /\ stage' = stage /\ todo' = todo /\ search' = search
      /\ hits' = hits /\ rounds' = rounds + 1 /\ disturbed' = disturbed /\ stage = "rounds"
      /\ corpus' = corpus /\ past' = past /\ recipes' = recipes /\ edits' = edits
      /\ rounds < MaxRounds /\ NextCut(pkg) # 0 /\ pkg' = Cut(pkg, TrimOrder[NextCut(pkg)][1])
  BY DEF TrimRound, tables
<1>2. pkg' \in SoundPackage /\ (Diverse(pkg) => Diverse(pkg'))
  <2>1. pkg \in SoundPackage
    BY DEF IInv
  <2> QED
    BY <1>1, <2>1, CutPackage
<1>3. TablesTypeOK'
  BY <1>1 DEF IInv, TablesTypeOK
<1>4. hits' \in Seq(ScopedHit') /\ pkg' \in SoundPackage'
  BY <1>1, <1>2, Growth, WiderSequence DEF IInv
<1>5. SearchSound(search)'
  <2>1. SearchSound(search) /\ \A s : SearchSound(s) => SearchSound(s)'
    BY <1>1, Growth DEF IInv
  <2> QED
    BY <1>1, <2>1 DEF SearchSound
<1>6. TodoSound(stage, todo, search, hits)'
  <2>1. /\ TodoSound(stage, todo, search, hits)
        /\ \A at, list, s, h : TodoSound(at, list, s, h) => TodoSound(at, list, s, h)'
    BY <1>1, Growth DEF IInv
  <2> QED
    BY <1>1, <2>1 DEF TodoSound
<1>7. Sealed(stage, pkg)'
  BY <1>1 DEF Sealed
<1>8. rounds' \in 0..MaxRounds
  BY <1>1, PackageAssumption DEF IInv
<1>9. IInv'
  BY <1>1, <1>3, <1>4, <1>5, <1>6, <1>7, <1>8 DEF IInv
<1> QED
  BY <1>2, <1>9

\* The roots of a package are finitely many.
LEMMA RootsOfPackage ==
  ASSUME NEW p \in Package
  PROVE  RootsOf(p) \subseteq Roots /\ IsFiniteSet(RootsOf(p))
<1> DEFINE C == {p.citations[i].root : i \in DOMAIN p.citations}
           E == {p.examples[i].root : i \in DOMAIN p.examples}
           S == {RootOf(p.symbols[i]) : i \in DOMAIN p.symbols}
<1>1. p.symbols \in Seq(Symbol) /\ p.examples \in Seq(Example) /\ p.citations \in Seq(Citation)
  BY DEF Package
<1>2. C \subseteq Roots /\ IsFiniteSet(C)
  <2> DEFINE f == [y \in Citation |-> y.root]
  <2>1. \A i \in DOMAIN p.citations : p.citations[i] \in Citation
    BY <1>1
  <2>2. C = {f[p.citations[i]] : i \in DOMAIN p.citations}
    BY <2>1
  <2> HIDE DEF f
  <2>3. IsFiniteSet({f[p.citations[i]] : i \in DOMAIN p.citations})
    BY <1>1, FiniteRange
  <2>4. C \subseteq Roots
    BY <2>1 DEF Citation
  <2> QED
    BY <2>2, <2>3, <2>4
<1>3. E \subseteq Roots /\ IsFiniteSet(E)
  <2> DEFINE f == [y \in Example |-> y.root]
  <2>1. \A i \in DOMAIN p.examples : p.examples[i] \in Example
    BY <1>1
  <2>2. E = {f[p.examples[i]] : i \in DOMAIN p.examples}
    BY <2>1
  <2> HIDE DEF f
  <2>3. IsFiniteSet({f[p.examples[i]] : i \in DOMAIN p.examples})
    BY <1>1, FiniteRange
  <2>4. E \subseteq Roots
    BY <2>1 DEF Example
  <2> QED
    BY <2>2, <2>3, <2>4
<1>4. S \subseteq Roots /\ IsFiniteSet(S)
  <2> DEFINE f == [y \in Symbol |-> RootOf(y)]
  <2>1. \A i \in DOMAIN p.symbols : p.symbols[i] \in Symbol
    BY <1>1
  <2>2. S = {f[p.symbols[i]] : i \in DOMAIN p.symbols}
    BY <2>1
  <2> HIDE DEF f
  <2>3. IsFiniteSet({f[p.symbols[i]] : i \in DOMAIN p.symbols})
    BY <1>1, FiniteRange
  <2>4. \A y \in Symbol : RootOf(y) \in Roots
    BY DEF Symbol, RootOf, Row, Rows, Roots
  <2>5. S \subseteq Roots
    BY <2>1, <2>4
  <2> QED
    BY <2>2, <2>3, <2>5
<1>5. RootsOf(p) = C \cup E \cup S
  BY DEF RootsOf
<1> HIDE DEF C, E, S
<1>6. IsFiniteSet(C \cup E \cup S)
  BY <1>2, <1>3, <1>4, FS_Union
<1> QED
  BY <1>2, <1>3, <1>4, <1>5, <1>6

\* The package is sealed.
LEMMA SealStep ==
  ASSUME IInv, Seal
  PROVE  IInv' /\ (Diverse(pkg) => Diverse(pkg'))
<1> DEFINE con == RootsOf(pkg)
           related == {r \in con : request.roles[r] = "related_project"}
           over == Cardinality(related) - request.maxRelated
           most == Max({0, over})
           q == [pkg EXCEPT !.contributing = con, !.relatedOver = most]
<1>1. /\ Reads /\ stage' = "done" /\ todo' = todo /\ search' = search /\ hits' = hits /\ pkg' = q
  BY DEF Seal
<1>2. pkg \in SoundPackage /\ pkg \in Package
  BY DEF IInv, SoundPackage
<1>3. con \subseteq Roots /\ IsFiniteSet(con)
  BY <1>2, RootsOfPackage
<1>4. most \in Nat
  <2>1. related \subseteq con
    OBVIOUS
  <2>2. IsFiniteSet(related)
    <3> HIDE DEF related, con
    <3> QED
      BY <1>3, <2>1, FS_Subset
  <2>3. Cardinality(related) \in Nat
    <3> HIDE DEF related
    <3> QED
      BY <2>2, FS_CardinalityType
  <2>4. over \in Int
    <3>1. request.maxRelated \in Int
      BY PackageAssumption DEF IInv
    <3> HIDE DEF related
    <3> QED
      BY <2>3, <3>1
  <2> HIDE DEF over
  <2>5. 0 \in Int /\ most \in Int /\ most >= 0
    BY <2>4, Larger
  <2> QED
    BY <2>5
<1> HIDE DEF most
<1>5. /\ q \in Package /\ q.symbols = pkg.symbols /\ q.examples = pkg.examples
      /\ q.citations = pkg.citations /\ q.offered = pkg.offered
      /\ q.contributing = con
  <2> HIDE DEF con
  <2> QED
    BY <1>2, <1>3, <1>4 DEF Package
<1> HIDE DEF q
<1>6. q \in SoundPackage
  BY <1>2, <1>5 DEF SoundPackage
<1>7. RootsOf(q) = con
  BY <1>5 DEF RootsOf
<1>8. TodoSound(stage', todo', search', hits') /\ Sealed(stage', pkg') /\ stage' \in Stages
  BY <1>1, <1>5, <1>7 DEF TodoSound, Sealed, SearchStages, Stages
<1>9. SearchSound(search') /\ hits' \in Seq(ScopedHit)
  BY <1>1 DEF IInv
<1>10. IInv'
  BY <1>1, <1>6, <1>8, <1>9, OwnStep
<1> QED
  BY <1>1, <1>5, <1>10 DEF Diverse

\* The invariant holds at the start.
LEMMA InitialState ==
  ASSUME Init
  PROVE  IInv
<1>1. request \in Requests /\ stage = "recipe" /\ todo = <<>> /\ search = NoSearch /\ hits = <<>>
      /\ pkg = NoPackage /\ rounds = 0 /\ disturbed = FALSE
  BY DEF Init
<1>2. TablesTypeOK
  <2>1. 1 \in Revisions /\ MaxEdits \in Nat
    BY RetrievalAssumption DEF CorpusAssumption
  <2>2. corpus = [d \in Docs |-> 1] /\ past = [d \in Docs |-> {1}]
        /\ recipes = [u \in Recipes |-> "generated"] /\ edits = 0
    BY DEF Init
  <2>3. /\ corpus \in [Docs -> Revisions \cup {0}] /\ past \in [Docs -> SUBSET Revisions]
        /\ \A d \in Docs : corpus[d] \in past[d] \cup {0}
    BY <2>1, <2>2
  <2> QED
    BY <2>1, <2>2, <2>3 DEF TablesTypeOK, Status
<1>3. pkg \in SoundPackage
  <2>1. Size.constraint \in Nat /\ Size.summary \in Nat /\ MaxExamples \in Nat
    BY PackageAssumption
  <2>2. NoPackage \in Package
    BY <2>1 DEF NoPackage, Package, Status
  <2>3. /\ NoPackage.symbols = <<>> /\ NoPackage.examples = <<>> /\ NoPackage.citations = <<>>
    BY DEF NoPackage
  <2>4. /\ NoPackage.symbols \in Seq(ScopedSymbol) /\ NoPackage.examples \in Seq(ScopedExample)
        /\ NoPackage.citations \in Seq(ScopedCitation)
    BY <2>3
  <2>5. Len(NoPackage.examples) <= MaxExamples
    BY <2>1, <2>3
  <2> HIDE DEF NoPackage
  <2> QED
    BY <1>1, <2>2, <2>4, <2>5 DEF SoundPackage
<1>4. SearchSound(search)
  <2>1. NoSearch.found = {} /\ NoSearch.ids = {}
    BY DEF NoSearch
  <2>2. IsFiniteSet({})
    BY FS_EmptySet
  <2> QED
    BY <1>1, <2>1, <2>2 DEF SearchSound, NoSearch
<1>5. TodoSound(stage, todo, search, hits) /\ Sealed(stage, pkg) /\ stage \in Stages
  BY <1>1 DEF TodoSound, Sealed, SearchStages, Stages
<1>6. hits \in Seq(ScopedHit) /\ rounds \in 0..MaxRounds
  BY <1>1, PackageAssumption
<1> QED
  BY <1>1, <1>2, <1>3, <1>4, <1>5, <1>6 DEF IInv

\* The invariant does not depend on anything but the variables.
LEMMA Stutter ==
  ASSUME IInv, UNCHANGED vars
  PROVE  IInv'
<1>1. /\ request' = request /\ stage' = stage /\ todo' = todo /\ search' = search
      /\ hits' = hits /\ pkg' = pkg /\ rounds' = rounds /\ disturbed' = disturbed
      /\ corpus' = corpus /\ past' = past /\ recipes' = recipes /\ edits' = edits
  BY DEF vars, tables
<1>2. Reads
  BY <1>1 DEF Reads, tables
<1>3. /\ stage' \in Stages /\ hits' \in Seq(ScopedHit) /\ pkg' \in SoundPackage
      /\ SearchSound(search') /\ TodoSound(stage', todo', search', hits') /\ Sealed(stage', pkg')
  BY <1>1 DEF IInv
<1> QED
  BY <1>2, <1>3, OwnStep

\* Every step keeps the invariant.
LEMMA InductiveStep ==
  ASSUME IInv, [Next]_vars
  PROVE  IInv'
<1>1. CASE Edited
  BY <1>1, EditStep
<1>2. CASE ReadRecipe \/ ReadSymbols \/ BeginSearches
  BY <1>2, RecipeStep, SymbolsStep, BeginStep
<1>3. CASE SearchAll \/ SearchAny \/ SearchTitles \/ ReadFrequencies \/ ReadPostings \/ EndSearch
  BY <1>3, SearchAllStep, SearchAnyStep, SearchTitlesStep, FrequenciesStep, PostingsStep,
     EndSearchStep
<1>4. CASE BeginCited \/ ReadCited \/ NothingCited
  BY <1>4, CitedSteps
<1>5. CASE BeginSignals \/ ReadSignals
  BY <1>5, SignalsSteps
<1>10. CASE ReadRow \/ NoRow
  BY <1>10, RowStep, NoRowStep
<1>6. CASE RankBodies \/ ReadBody \/ EndBodies
  BY <1>6, BodySteps
<1>7. CASE Harvest \/ ReadCue \/ EndCues
  BY <1>7, HarvestStep, CueStep, CuesStep
<1>8. CASE Assemble \/ BeginTrim \/ TrimRound \/ EndTrim \/ Seal
  BY <1>8, AssembleStep, BeginTrimStep, TrimRoundStep, EndTrimStep, SealStep
<1>9. CASE UNCHANGED vars
  BY <1>9, Stutter
<1> QED
  BY <1>1, <1>2, <1>3, <1>4, <1>5, <1>6, <1>7, <1>8, <1>9, <1>10 DEF Next
-----------------------------------------------------------------------------
(* The theorems.                                                           *)

\* The invariant holds of the specification.
LEMMA Invariant ==
  Spec => []IInv
<1>1. Init => IInv
  BY InitialState
<1>2. IInv /\ [Next]_vars => IInv'
  BY InductiveStep
<1> QED
  BY <1>1, <1>2, PTL DEF Spec

\* Every reader and editor leaves the request and the tables well-formed, and
\* there are never more examples than asked for.
THEOREM PackageTypeCorrect ==
  Spec => []PackageTypeOK
<1>1. ASSUME IInv PROVE PackageTypeOK
  <2>1. hits \in Seq(Hit)
    BY <1>1 DEF IInv, ScopedHit
  <2> QED
    BY <1>1, <2>1 DEF IInv, PackageTypeOK, SoundPackage
<1> QED
  BY <1>1, Invariant, PTL

\* Whatever a package cites, shows or names is of a document that a searched root
\* held while the request ran, and under a root that the document was in by then:
\* the reads by URI and by id, which ask for no root, bring in nothing but the new
\* root of a document that moved (attachRootContribution).
THEOREM EvidenceStaysInScope ==
  Spec => []EvidenceInScope
<1>1. ASSUME IInv PROVE EvidenceInScope
  <2>1. /\ pkg.citations \in Seq(ScopedCitation) /\ pkg.examples \in Seq(ScopedExample)
        /\ pkg.symbols \in Seq(ScopedSymbol)
    BY <1>1 DEF IInv, SoundPackage
  <2>2. /\ \A i \in DOMAIN pkg.citations : pkg.citations[i] \in ScopedCitation
        /\ \A i \in DOMAIN pkg.examples : pkg.examples[i] \in ScopedExample
        /\ \A i \in DOMAIN pkg.symbols : pkg.symbols[i] \in ScopedSymbol
    BY <2>1
  <2>3. \A y \in ScopedSymbol : InScope(y.doc, RootOf(y))
    BY RowInScope DEF ScopedSymbol, RootOf, Row
  <2>4. stage = "done" => pkg.contributing = RootsOf(pkg)
    BY <1>1 DEF IInv, Sealed
  <2> QED
    BY <2>2, <2>3, <2>4 DEF EvidenceInScope, ScopedCitation, ScopedExample
<1> QED
  BY <1>1, Invariant, PTL

\* The lines cited beside an example are those of the text it shows, though
\* they are read at different times (materializeHitBodies).
THEOREM LinesAreThoseOfTheText ==
  Spec => []LinesMatchText
<1>1. ASSUME IInv PROVE LinesMatchText
  <2>1. pkg.examples \in Seq(ScopedExample)
    BY <1>1 DEF IInv, SoundPackage
  <2>2. \A i \in DOMAIN pkg.examples : pkg.examples[i] \in ScopedExample
    BY <2>1
  <2> QED
    BY <2>2 DEF LinesMatchText, ScopedExample
<1> QED
  BY <1>1, Invariant, PTL

\* From the assembly on, the sources of the spared buckets are kept.
DiverseWhileTrimmed == stage \in {"trim", "rounds", "seal", "done"} => Diverse(pkg)

\* At the start nothing is trimmed.
LEMMA DiverseInit ==
  Init => DiverseWhileTrimmed
BY DEF Init, DiverseWhileTrimmed

\* Every step keeps the diversity of what the trim works on.
LEMMA DiverseStep ==
  ASSUME IInv, DiverseWhileTrimmed, [Next]_vars
  PROVE  DiverseWhileTrimmed'
<1> DEFINE late == {"trim", "rounds", "seal", "done"}
<1>1. CASE Assemble
  BY <1>1, AssembledPackage DEF DiverseWhileTrimmed
<1>2. CASE BeginTrim \/ TrimRound \/ Seal
  <2>1. Diverse(pkg)
    BY <1>2 DEF DiverseWhileTrimmed, BeginTrim, TrimRound, Seal
  <2> QED
    BY <1>2, <2>1, BeginTrimStep, TrimRoundStep, SealStep DEF DiverseWhileTrimmed
<1>3. ASSUME pkg' = pkg, stage' \in late => stage \in late
      PROVE  DiverseWhileTrimmed'
  BY <1>3 DEF DiverseWhileTrimmed, Diverse
<1>4. CASE Edited \/ EndTrim \/ UNCHANGED vars
  BY <1>3, <1>4 DEF Edited, EndTrim, vars
<1>5. CASE ReadRecipe \/ ReadSymbols \/ BeginSearches
  <2>1. stage' \notin late
    BY <1>5 DEF ReadRecipe, ReadSymbols, BeginSearches
  <2> QED
    BY <2>1 DEF DiverseWhileTrimmed
<1>6. CASE SearchAll \/ SearchAny \/ SearchTitles \/ ReadFrequencies \/ ReadPostings \/ EndSearch
  <2>1. stage' \notin late
    BY <1>6 DEF SearchAll, SearchAny, SearchTitles, ReadFrequencies, ReadPostings, EndSearch
  <2> QED
    BY <2>1 DEF DiverseWhileTrimmed
<1>7. CASE \/ BeginCited \/ NothingCited \/ BeginSignals
           \/ ReadRow \/ NoRow \/ ReadCited \/ ReadSignals
  <2>1. stage' \notin late
    BY <1>7 DEF BeginCited, ReadCited, NothingCited, BeginSignals, ReadSignals, ReadRow, NoRow,
                NextDocument
  <2> QED
    BY <2>1 DEF DiverseWhileTrimmed
<1>8. CASE RankBodies \/ ReadBody \/ EndBodies
  <2>1. stage' \notin late
    BY <1>8 DEF RankBodies, ReadBody, EndBodies
  <2> QED
    BY <2>1 DEF DiverseWhileTrimmed
<1>9. CASE Harvest \/ ReadCue \/ EndCues
  <2>1. stage' \notin late
    BY <1>9 DEF Harvest, ReadCue, EndCues
  <2> QED
    BY <2>1 DEF DiverseWhileTrimmed
<1> QED
  BY <1>1, <1>2, <1>4, <1>5, <1>6, <1>7, <1>8, <1>9 DEF Next

\* The bound of the budget never costs the package its last project source,
\* official example or official document (selectDiverseCitations reserves one
\* of each and trimToBudget keeps three citations).
THEOREM DiversityIsKept ==
  Spec => []DiversitySurvivesTrim
<1>1. IInv /\ DiverseWhileTrimmed /\ [Next]_vars => DiverseWhileTrimmed'
  BY DiverseStep
<1>2. ASSUME IInv, DiverseWhileTrimmed PROVE DiversitySurvivesTrim
  <2>1. SUFFICES ASSUME stage = "done", MaxResults >= 3, NEW b \in pkg.offered \cap Spared
                 PROVE  b \in {Bucket(pkg.citations[i]) : i \in DOMAIN pkg.citations}
    BY DEF DiversitySurvivesTrim, Spared
  <2>2. PICK k \in 1..3 : k <= Len(pkg.citations) /\ Bucket(pkg.citations[k]) = b
    BY <1>2, <2>1 DEF DiverseWhileTrimmed, Diverse
  <2>3. pkg.citations \in Seq(ScopedCitation)
    BY <1>2 DEF IInv, SoundPackage
  <2>4. k \in DOMAIN pkg.citations
    BY <2>2, <2>3
  <2> QED
    BY <2>2, <2>4
<1> QED
  BY <1>1, <1>2, DiverseInit, Invariant, PTL DEF Spec
-----------------------------------------------------------------------------
(* Every root of a group is heard.                                         *)

\* Something under the roots has a term of the task.
Speaks(roots) == \E c \in ChunksIn(roots) : request.terms \cap Text(c).terms # {}
\* A root has a hit, or a search of its own is due.
Heard(r) == \E i \in DOMAIN hits : RootOf(hits[i].lines) = r
Due(r) == stage \in SearchStages /\ \E k \in 1..Len(todo) : todo[k] = {r}

\* A root that has something to say was heard or has its own search to come,
\* and a search of a root that has something to say finds something.
HeardOrDue ==
  stage \in SearchStages \cup {"cited", "signals", "rank"} =>
    \A r \in Searched : Speaks({r}) => Heard(r) \/ Due(r)

\* The search that is under way has not missed what its root has to say.
Answered ==
  stage \in {"title", "idf", "postings", "hydrate"} /\ Speaks(search.roots) => search.found # {}

\* The strengthening of NoStarvedRoot.
NobodyStarves == Grouped /\ ~disturbed => HeardOrDue /\ Answered

\* Without an edit, corpus and request are the same.
LEMMA Undisturbed ==
  ASSUME Reads
  PROVE  /\ Searched' = Searched /\ Grouped' = Grouped /\ disturbed' = disturbed
         /\ \A roots : Speaks(roots)' <=> Speaks(roots)
<1>1. request' = request /\ corpus' = corpus /\ disturbed' = disturbed
  BY DEF Reads, tables
<1>2. Searched' = Searched /\ Grouped' = Grouped
  BY <1>1 DEF Searched, Grouped
<1>3. \A d : ChunksOf(d)' = ChunksOf(d)
  BY <1>1 DEF ChunksOf
<1>4. \A roots : ChunksIn(roots)' = ChunksIn(roots)
  BY <1>3 DEF ChunksIn
<1>5. \A c : Text(c)' = Text(c)
  BY DEF Text
<1>6. \A roots : Speaks(roots)' <=> Speaks(roots)
  BY <1>1, <1>4, <1>5 DEF Speaks
<1> QED
  BY <1>1, <1>2, <1>6

\* A step that keeps the places of the hits and what is to come.
LEMMA StillHeard ==
  ASSUME NobodyStarves, Reads, stage \in SearchStages \cup {"cited", "signals", "rank"},
         \A r : Heard(r) => Heard(r)', \A r : Due(r) => Heard(r)' \/ Due(r)',
         Answered'
  PROVE  NobodyStarves'
<1>1. SUFFICES ASSUME Grouped', ~disturbed'
               PROVE  HeardOrDue'
  BY DEF NobodyStarves
<1>2. HeardOrDue
  BY <1>1, Undisturbed DEF NobodyStarves
<1>3. \A r \in Searched : Speaks({r}) => Heard(r) \/ Due(r)
  BY <1>2 DEF HeardOrDue
<1>4. \A r \in Searched' : Speaks({r})' => Heard(r)' \/ Due(r)'
  BY <1>3, Undisturbed
<1> QED
  BY <1>4 DEF HeardOrDue

\* Every root of a group gets a search of its own.
LEMMA StarveBegin ==
  ASSUME IInv, BeginSearches
  PROVE  NobodyStarves'
<1>1. Reads /\ stage' = "search" /\ todo' = Searches
  BY DEF BeginSearches
<1>2. SUFFICES ASSUME Grouped PROVE HeardOrDue' /\ Answered'
  BY <1>1, Undisturbed DEF NobodyStarves
<1>3. Answered'
  BY <1>1 DEF Answered
<1> DEFINE s == request.roots
           own == [i \in DOMAIN s |-> {s[i]}]
           last == <<Searched>>
<1>4. Searches = own \o last
  BY <1>2 DEF Searches, RecallEachRoot
<1>5. s \in Seq(Searched)
  BY PackageAssumption DEF IInv, Sequence, Searched
<1>6. own \in Seq(SUBSET Searched) /\ Len(own) = Len(s) /\ \A i \in 1..Len(s) : own[i] = {s[i]}
  <2> HIDE DEF s
  <2> QED
    BY <1>5
<1>7. last \in Seq(SUBSET Searched)
  OBVIOUS
<1>8. \A r \in Searched : \E i \in 1..Len(s) : s[i] = r
  <2>1. Searched = {s[i] : i \in DOMAIN s}
    BY DEF Searched, ToSet
  <2> HIDE DEF s
  <2> QED
    BY <1>5, <2>1
<1> HIDE DEF s, own, last
<1>9. \A i \in 1..Len(own) : i \in 1..Len(own \o last) /\ (own \o last)[i] = own[i]
  <2> DEFINE Z == SUBSET Searched
  <2>1. own \in Seq(Z) /\ last \in Seq(Z)
    BY <1>6, <1>7
  <2> HIDE DEF Z
  <2> QED
    BY <2>1
<1>10. ASSUME NEW r \in Searched PROVE Due(r)'
  <2>1. PICK i \in 1..Len(s) : s[i] = r
    BY <1>8
  <2>2. i \in 1..Len(own) /\ own[i] = {r}
    BY <1>6, <2>1
  <2>3. i \in 1..Len(todo') /\ todo'[i] = {r}
    BY <1>1, <1>4, <1>9, <2>2
  <2> QED
    BY <1>1, <2>3 DEF Due, SearchStages
<1>11. Searched' = Searched
  BY <1>1, Undisturbed
<1>12. HeardOrDue'
  BY <1>10, <1>11 DEF HeardOrDue
<1> QED
  BY <1>3, <1>12

\* The statements of a search find what there is.
LEMMA StarveSearch ==
  ASSUME IInv, NobodyStarves,
         SearchAll \/ SearchAny \/ SearchTitles \/ ReadFrequencies \/ ReadPostings
  PROVE  NobodyStarves'
<1>1. /\ Reads /\ todo' = todo /\ hits' = hits /\ stage \in SearchStages /\ stage' \in SearchStages
      /\ search'.roots = search.roots
  <2>1. search \in [roots : SUBSET Searched, terms : SUBSET request.terms, ids : SUBSET Chunk,
                    found : SUBSET Chunk, symbols : Seq(ScopedSymbol),
                    row : Revisions \cup {0}]
    BY DEF IInv, SearchSound
  <2>2. /\ Reads /\ todo' = todo /\ hits' = hits /\ stage \in SearchStages /\ stage' \in SearchStages
    BY DEF SearchAll, SearchAny, SearchTitles, ReadFrequencies, ReadPostings, SearchStages
  <2>3. CASE SearchAll \/ SearchAny \/ SearchTitles
    BY <2>1, <2>2, <2>3 DEF SearchAll, SearchAny, SearchTitles, Found
  <2>4. CASE ReadFrequencies \/ ReadPostings
    BY <2>1, <2>2, <2>4 DEF ReadFrequencies, ReadPostings
  <2> QED
    BY <2>2, <2>3, <2>4
<1>2. (\A r : Heard(r) => Heard(r)') /\ (\A r : Due(r) => Due(r)')
  BY <1>1 DEF Heard, Due, RootOf
<1>3. ASSUME Grouped, ~disturbed PROVE Answered'
  <2>1. SUFFICES ASSUME Speaks(search.roots), stage' \in {"title", "idf", "postings", "hydrate"}
                 PROVE  search'.found # {}
    BY <1>1, Undisturbed DEF Answered
  <2>2. SearchSound(search)
    BY DEF IInv
  <2>3. CASE SearchAll
    <3> DEFINE all == FullText(request, search.roots, Candidates)
    <3>1. /\ search' = [search EXCEPT !.found = @ \cup all]
          /\ stage' = IF all = {} THEN "or" ELSE "title"
      BY <2>3 DEF SearchAll, Found
    <3> HIDE DEF all
    <3>2. all # {}
      BY <2>1, <3>1
    <3>3. search'.found = search.found \cup all
      BY <2>2, <3>1 DEF SearchSound
    <3> QED
      BY <3>2, <3>3
  <2>4. CASE SearchAny
    <3> DEFINE any == AnyText(request, search.roots, Candidates)
    <3>1. search' = [search EXCEPT !.found = @ \cup any]
      BY <2>4 DEF SearchAny, Found
    <3>2. any # {}
      <4>1. TablesTypeOK /\ Candidates \in Nat /\ Candidates > 0
        BY Limits DEF IInv
      <4> QED
        BY <2>1, <4>1, TextSearch DEF Speaks
    <3> HIDE DEF any
    <3>3. search'.found = search.found \cup any
      BY <2>2, <3>1 DEF SearchSound
    <3> QED
      BY <3>2, <3>3
  <2>5. CASE SearchTitles \/ ReadFrequencies \/ ReadPostings
    <3>1. stage \in {"title", "idf", "postings", "hydrate"}
      BY <2>5 DEF SearchTitles, ReadFrequencies, ReadPostings
    <3>2. search.found # {}
      BY <1>3, <2>1, <3>1 DEF NobodyStarves, Answered
    <3>3. search.found \subseteq search'.found
      <4>1. CASE SearchTitles
        <5> DEFINE titled == ByTitle(request, search.roots)
        <5>1. search' = [search EXCEPT !.found = @ \cup titled]
          BY <4>1 DEF SearchTitles, Found
        <5> HIDE DEF titled
        <5> QED
          BY <2>2, <5>1 DEF SearchSound
      <4>2. CASE ReadFrequencies
        <5> DEFINE t == LookupTerms(request, search.roots)
        <5>1. search' = [search EXCEPT !.terms = t]
          BY <4>2 DEF ReadFrequencies
        <5> HIDE DEF t
        <5> QED
          BY <2>2, <5>1 DEF SearchSound
      <4>3. CASE ReadPostings
        <5> DEFINE t == ByVector(request, search.roots, search.terms, Limit)
        <5>1. search' = [search EXCEPT !.ids = t]
          BY <4>3 DEF ReadPostings
        <5> HIDE DEF t
        <5> QED
          BY <2>2, <5>1 DEF SearchSound
      <4> QED
        BY <2>5, <4>1, <4>2, <4>3
    <3> QED
      BY <3>2, <3>3
  <2> QED
    BY <2>3, <2>4, <2>5
<1>4. CASE Grouped /\ ~disturbed
  BY <1>1, <1>2, <1>3, <1>4, StillHeard
<1>5. CASE ~(Grouped /\ ~disturbed)
  BY <1>1, <1>5, Undisturbed DEF NobodyStarves
<1> QED
  BY <1>4, <1>5

\* A search ends: its root is heard, and the others are as before.
LEMMA StarveEnd ==
  ASSUME IInv, NobodyStarves, EndSearch
  PROVE  NobodyStarves'
<1>1. /\ Reads /\ stage = "hydrate"
      /\ Len(todo) = 1 => todo' = <<>> /\ stage' = "cited"
      /\ Len(todo) # 1 => todo' = Tail(todo) /\ stage' = "search"
  BY DEF EndSearch
<1>2. PICK order \in Seq(ScopedChunk) :
        /\ hits' = [i \in DOMAIN order |-> Shown(order[i])]
        /\ \A i \in DOMAIN hits : \E k \in 1..Len(order) : order[k] = hits[i].lines
        /\ search.found # {} => \E k \in 1..Len(order) : order[k] \in Under(search.roots)
  BY Merged
<1>3. \A k \in 1..Len(order) : k \in DOMAIN hits' /\ hits'[k].lines = order[k]
  <2>1. DOMAIN order = 1..Len(order)
    BY <1>2
  <2> QED
    BY <1>2, <2>1 DEF Shown
<1>4. \A r : Heard(r) => Heard(r)'
  <2>1. SUFFICES ASSUME NEW r, NEW i \in DOMAIN hits, RootOf(hits[i].lines) = r PROVE Heard(r)'
    BY DEF Heard
  <2>2. PICK k \in 1..Len(order) : order[k] = hits[i].lines
    BY <1>2
  <2>3. k \in DOMAIN hits' /\ hits'[k].lines = hits[i].lines
    BY <1>3, <2>2
  <2> QED
    BY <2>1, <2>3 DEF Heard, RootOf
<1>5. /\ todo \in Seq(SUBSET Searched) /\ todo # <<>> /\ search.roots = todo[1]
  BY <1>1 DEF IInv, TodoSound, SearchStages
<1>6. ASSUME Grouped, ~disturbed, NEW r, Speaks({r}), todo[1] = {r} PROVE Heard(r)'
  <2>1. search.found # {}
    BY <1>1, <1>5, <1>6 DEF NobodyStarves, Answered
  <2>2. PICK k \in 1..Len(order) : order[k] \in Under({r})
    BY <1>2, <1>5, <1>6, <2>1
  <2>3. RootOf(order[k]) = r
    BY <2>2 DEF Under, RootOf
  <2> QED
    BY <1>3, <2>3 DEF Heard, RootOf
<1>7. ASSUME NEW k \in 1..Len(todo), k # 1
      PROVE  stage' = "search" /\ k - 1 \in 1..Len(todo') /\ todo'[k - 1] = todo[k]
  <2> DEFINE Z == SUBSET Searched
             t == Tail(todo)
             n == Len(todo)
  <2>1. todo \in Seq(Z) /\ todo # <<>>
    BY <1>5
  <2> HIDE DEF Z
  <2>2. n \in Nat /\ n # 0
    BY <2>1, EmptySeq
  <2>3. n # 1
    <3> HIDE DEF n
    <3>1. k \in 1..n
      BY DEF n
    <3> QED
      BY <1>7, <2>2, <3>1
  <2>4. Len(t) = n - 1 /\ \A i \in 1..(n - 1) : t[i] = todo[i + 1]
    BY <2>1, <2>2
  <2>5. todo' = t /\ stage' = "search"
    BY <1>1, <2>3
  <2>6. k - 1 \in 1..(n - 1) /\ (k - 1) + 1 = k
    <3>1. k \in 1..n
      OBVIOUS
    <3> HIDE DEF n
    <3> QED
      BY <1>7, <2>2, <3>1
  <2> HIDE DEF t, n
  <2> QED
    BY <2>4, <2>5, <2>6
<1>8. SUFFICES ASSUME Grouped, ~disturbed, NEW r \in Searched, Speaks({r})
               PROVE  Heard(r)' \/ Due(r)'
  <2>1. Answered'
    BY <1>1 DEF Answered
  <2> QED
    BY <1>1, <2>1, Undisturbed DEF NobodyStarves, HeardOrDue
<1>9. Heard(r) \/ Due(r)
  BY <1>1, <1>8 DEF NobodyStarves, HeardOrDue, SearchStages
<1>10. CASE Due(r)
  <2>1. PICK k \in 1..Len(todo) : todo[k] = {r}
    BY <1>10 DEF Due
  <2>2. CASE k = 1
    BY <1>6, <1>8, <2>1, <2>2
  <2>3. CASE k # 1
    BY <1>7, <2>1, <2>3 DEF Due, SearchStages
  <2> QED
    BY <2>2, <2>3
<1> QED
  BY <1>4, <1>9, <1>10

\* Chunks that are added leave what was heard.
LEMMA StarveChunks ==
  ASSUME IInv, NobodyStarves,
         BeginCited \/ ReadRow \/ NoRow \/ ReadCited \/ NothingCited
           \/ BeginSignals \/ ReadSignals
  PROVE  NobodyStarves'
<1>1. Reads /\ stage \in {"cited", "signals"} /\ stage' \in {"cited", "signals", "rank"}
  BY DEF BeginCited, ReadRow, NoRow, ReadCited, NothingCited, BeginSignals, ReadSignals,
         NextDocument
<1>2. DOMAIN hits \subseteq DOMAIN hits' /\ \A i \in DOMAIN hits : hits'[i] = hits[i]
  <2>1. CASE BeginCited \/ ReadRow \/ NoRow \/ NothingCited \/ BeginSignals
    BY <2>1 DEF BeginCited, ReadRow, NoRow, NothingCited, BeginSignals
  <2>2. CASE ReadCited
    <3>1. todo # <<>> /\ search.row # 0 /\ NextDocument /\ pkg' = pkg
      BY <2>2 DEF ReadCited
    <3>2. PICK best \in Seq({c \in ScopedChunk : c.doc = todo[1]}) :
                 hits' = hits \o [i \in DOMAIN best |-> Whole(best[i], search.row)]
      BY <2>2, CitedBest
    <3> QED
      BY <1>1, <3>1, <3>2, ChunksStep
  <2>3. CASE ReadSignals
    <3>1. todo # <<>> /\ search.row # 0 /\ NextDocument /\ pkg' = pkg
      BY <2>3 DEF ReadSignals
    <3>2. PICK best \in Seq({c \in ScopedChunk : c.doc = todo[1]}) :
                 hits' = hits \o [i \in DOMAIN best |-> Whole(best[i], search.row)]
      BY <2>3, SignalsBest
    <3> QED
      BY <1>1, <3>1, <3>2, ChunksStep
  <2> QED
    BY <2>1, <2>2, <2>3
<1>3. \A r : Heard(r) => Heard(r)'
  BY <1>2 DEF Heard, RootOf
<1>4. (\A r : ~Due(r)) /\ Answered'
  BY <1>1 DEF Due, Answered, SearchStages
<1> QED
  BY <1>1, <1>3, <1>4, StillHeard

\* Every step keeps that nobody starves.
LEMMA StarveStep ==
  ASSUME IInv, NobodyStarves, [Next]_vars
  PROVE  NobodyStarves'
<1> DEFINE own == SearchStages \cup {"cited", "signals", "rank"}
<1>1. CASE Edited
  BY <1>1 DEF Edited, NobodyStarves
<1>2. CASE BeginSearches
  BY <1>2, StarveBegin
<1>3. CASE SearchAll \/ SearchAny \/ SearchTitles \/ ReadFrequencies \/ ReadPostings
  BY <1>3, StarveSearch
<1>4. CASE EndSearch
  BY <1>4, StarveEnd
<1>5. CASE BeginCited \/ ReadRow \/ NoRow \/ ReadCited \/ NothingCited
             \/ BeginSignals \/ ReadSignals
  BY <1>5, StarveChunks
<1>6. ASSUME stage' \notin own PROVE NobodyStarves'
  BY <1>6 DEF NobodyStarves, HeardOrDue, Answered, SearchStages
<1>7. CASE ReadRecipe \/ ReadSymbols
  BY <1>6, <1>7 DEF ReadRecipe, ReadSymbols, SearchStages
<1>8. CASE RankBodies \/ ReadBody \/ EndBodies
  BY <1>6, <1>8 DEF RankBodies, ReadBody, EndBodies, SearchStages
<1>9. CASE Harvest \/ ReadCue \/ EndCues
  BY <1>6, <1>9 DEF Harvest, ReadCue, EndCues, SearchStages
<1>10. CASE Assemble \/ BeginTrim \/ TrimRound \/ EndTrim \/ Seal
  BY <1>6, <1>10 DEF Assemble, BeginTrim, TrimRound, EndTrim, Seal, SearchStages
<1>11. CASE UNCHANGED vars
  <2>1. /\ Reads /\ stage' = stage /\ todo' = todo /\ search' = search /\ hits' = hits
    BY <1>11 DEF vars, Reads, tables
  <2>2. (\A r : Heard(r)' <=> Heard(r)) /\ (\A r : Due(r)' <=> Due(r))
    BY <2>1 DEF Heard, Due, RootOf
  <2> QED
    BY <2>1, <2>2, Undisturbed DEF NobodyStarves, HeardOrDue, Answered
<1> QED
  BY <1>1, <1>2, <1>3, <1>4, <1>5, <1>7, <1>8, <1>9, <1>10, <1>11 DEF Next

\* However well the other roots match, a root of a group that has anything to
\* say is among the hits when nothing was edited meanwhile
\* (searchPackageHits searches each root by itself and merges what it finds).
THEOREM NoRootStarves ==
  Spec => []NoStarvedRoot
<1>1. Init => NobodyStarves
  BY DEF Init, NobodyStarves, HeardOrDue, Answered, SearchStages
<1>2. IInv /\ NobodyStarves /\ [Next]_vars => NobodyStarves'
  BY StarveStep
<1>3. ASSUME NobodyStarves PROVE NoStarvedRoot
  <2>1. SUFFICES ASSUME stage \in {"cited", "signals", "rank"}, Grouped, ~disturbed,
                        NEW r \in Searched, Speaks({r})
                 PROVE  Heard(r)
    BY DEF NoStarvedRoot, Speaks, Heard
  <2>2. ~Due(r)
    BY <2>1 DEF Due, SearchStages
  <2> QED
    BY <1>3, <2>1, <2>2 DEF NobodyStarves, HeardOrDue
<1> QED
  BY <1>1, <1>2, <1>3, Invariant, PTL DEF Spec
=============================================================================
