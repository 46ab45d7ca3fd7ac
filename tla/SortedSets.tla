------------------------------ MODULE SortedSets ------------------------------
(***************************************************************************)
(* Facts about data that the theorems of several components rest on: a     *)
(* set of numbers has a least one, and a finite set can be enumerated in   *)
(* the order of a strict total order (what Python's sorted and the ORDER   *)
(* BY of a statement do).                                                  *)
(***************************************************************************)
EXTENDS SequencesExt, FiniteSetTheorems, WellFoundedInduction, TLAPS

\* A set of numbers that is not empty has a least one.
LEMMA LeastNumber ==
  ASSUME NEW S \in SUBSET Nat, S # {}
  PROVE  \E n \in S : \A m \in S : n <= m
  <1>1. \A m, n \in Nat : m < n => <<m, n>> \in OpToRel(<, Nat)
    BY DEF OpToRel
  <1>2. PICK n \in S : \A m \in S : ~(<<m, n>> \in OpToRel(<, Nat))
    BY NatLessThanWellFounded, WFMin
  <1>3. \A m \in S : ~(m < n)
    BY <1>1, <1>2
  <1> QED
    BY <1>3

\* R orders S strictly and totally.
Orders(R, S) ==
  /\ \A x \in S : <<x, x>> \notin R
  /\ \A x, y, z \in S : <<x, y>> \in R /\ <<y, z>> \in R => <<x, z>> \in R
  /\ \A x, y \in S : x = y \/ <<x, y>> \in R \/ <<y, x>> \in R

\* An element goes to the place after those that precede it.
LEMMA SortedEnumeration ==
  ASSUME NEW S, IsFiniteSet(S), NEW R, Orders(R, S)
  PROVE  \E s \in SetToSeqs(S) :
           \A i, j \in 1..Cardinality(S) : i < j => <<s[i], s[j]>> \in R
  <1> DEFINE N == Cardinality(S)
             Below(x) == {y \in S : <<y, x>> \in R}
             rank == [x \in S |-> Cardinality(Below(x)) + 1]
  <1>1. N \in Nat
    BY FS_CardinalityType
  <1> HIDE DEF N
  <1>2. ASSUME NEW x \in S
        PROVE  IsFiniteSet(Below(x)) /\ Cardinality(Below(x)) \in 0..(N - 1)
    <2>1. IsFiniteSet(S \ {x}) /\ Cardinality(S \ {x}) = N - 1
      BY FS_RemoveElement DEF N
    <2>2. Below(x) \in SUBSET (S \ {x})
      BY DEF Orders
    <2>3. IsFiniteSet(Below(x)) /\ Cardinality(Below(x)) <= N - 1
      BY <2>1, <2>2, FS_Subset
    <2>4. Cardinality(Below(x)) \in Nat
      BY <2>3, FS_CardinalityType
    <2> QED
      BY <1>1, <2>3, <2>4
  <1>3. ASSUME NEW x \in S, NEW y \in S, <<x, y>> \in R
        PROVE  Cardinality(Below(x)) < Cardinality(Below(y))
    <2>1. x \notin Below(x)
      BY DEF Orders
    <2>2. Below(x) \cup {x} \in SUBSET Below(y)
      BY <1>3 DEF Orders
    <2>3. Cardinality(Below(x) \cup {x}) = Cardinality(Below(x)) + 1
      BY <1>2, <2>1, FS_AddElement
    <2>4. Cardinality(Below(x) \cup {x}) <= Cardinality(Below(y))
      BY <1>2, <2>2, FS_Subset
    <2>5. Cardinality(Below(x)) \in Int /\ Cardinality(Below(y)) \in Int
      BY <1>1, <1>2
    <2> QED
      BY <2>3, <2>4, <2>5
  <1> HIDE DEF Below
  <1>4. \A x \in S : rank[x] \in 1..N
    BY <1>1, <1>2
  <1>5. \A x, y \in S : <<x, y>> \in R => rank[x] < rank[y]
    BY <1>1, <1>2, <1>3
  <1>6. rank \in [S -> 1..N]
    BY <1>4
  <1> HIDE DEF rank
  <1>7. \A x, y \in S : rank[x] = rank[y] => x = y
    <2> SUFFICES ASSUME NEW x \in S, NEW y \in S, rank[x] = rank[y], x # y PROVE FALSE
      OBVIOUS
    <2>1. rank[x] \in Int /\ rank[y] \in Int
      BY <1>1, <1>4
    <2>2. rank[x] < rank[y] \/ rank[y] < rank[x]
      BY <1>5 DEF Orders
    <2> QED
      BY <2>1, <2>2
  <1>8. rank \in Surjection(S, 1..N)
    <2>1. rank \in Injection(S, 1..N)
      BY <1>6, <1>7 DEF Injection, IsInjective
    <2>2. IsFiniteSet(1..N) /\ Cardinality(1..N) = N
      BY <1>1, FS_Interval
    <2> QED
      BY <2>1, <2>2, FS_Injection DEF N
  <1> DEFINE s == [i \in 1..N |-> CHOOSE x \in S : rank[x] = i]
  <1>9. \A i \in 1..N : s[i] \in S /\ rank[s[i]] = i
    BY <1>8 DEF Surjection
  <1>10. s \in [1..N -> S]
    BY <1>9
  <1> HIDE DEF s
  <1>11. s \in SetToSeqs(S)
    <2>1. \A i, j \in 1..N : i # j => s[i] # s[j]
      BY <1>9
    <2> QED
      BY <1>10, <2>1 DEF SetToSeqs, N
  <1>12. \A i, j \in 1..N : i < j => <<s[i], s[j]>> \in R
    <2> SUFFICES ASSUME NEW i \in 1..N, NEW j \in 1..N, i < j PROVE <<s[i], s[j]>> \in R
      OBVIOUS
    <2>1. s[i] \in S /\ s[j] \in S /\ rank[s[i]] = i /\ rank[s[j]] = j
      BY <1>9
    <2>2. <<s[j], s[i]>> \notin R /\ s[i] # s[j]
      BY <1>1, <1>5, <2>1
    <2> QED
      BY <2>1, <2>2 DEF Orders
  <1> QED
    BY <1>11, <1>12 DEF N

\* An enumeration of a finite set is a sequence that meets each element once.
LEMMA Enumerates ==
  ASSUME NEW S, IsFiniteSet(S), NEW s \in SetToSeqs(S)
  PROVE  /\ s \in Seq(S) /\ Len(s) = Cardinality(S) /\ DOMAIN s = 1..Len(s)
         /\ \A i, j \in DOMAIN s : s[i] = s[j] => i = j
         /\ \A x \in S : \E i \in DOMAIN s : s[i] = x
  <1> DEFINE N == Cardinality(S)
  <1>1. N \in Nat
    BY FS_CardinalityType
  <1>2. s \in [1..N -> S] /\ \A i, j \in 1..N : i # j => s[i] # s[j]
    BY DEF SetToSeqs
  <1>3. s \in Surjection(1..N, S)
    <2>1. s \in Injection(1..N, S)
      BY <1>2 DEF Injection, IsInjective
    <2>2. IsFiniteSet(1..N) /\ Cardinality(1..N) = N
      BY <1>1, FS_Interval
    <2> QED
      BY <2>1, <2>2, FS_Injection
  <1> HIDE DEF N
  <1>4. s \in Seq(S) /\ Len(s) = N
    BY <1>1, <1>2
  <1> QED
    BY <1>2, <1>3, <1>4 DEF Surjection, N

\* What each neighbour says of the next, everyone says of all that follow.
LEMMA NeighboursSuffice ==
  ASSUME NEW S, NEW R, NEW n \in Nat, NEW s \in [1..n -> S],
         \A x, y, z \in S : <<x, y>> \in R /\ <<y, z>> \in R => <<x, z>> \in R,
         \A i \in 1..(n - 1) : <<s[i], s[i + 1]>> \in R
  PROVE  \A i, j \in 1..n : i < j => <<s[i], s[j]>> \in R
  <1> SUFFICES ASSUME NEW i \in 1..n, NEW m \in 1..n, i < m, <<s[i], s[m]>> \notin R
               PROVE  FALSE
    OBVIOUS
  <1> DEFINE J == {j \in 1..n : i < j /\ <<s[i], s[j]>> \notin R}
  <1>1. J \in SUBSET Nat /\ J # {}
    <2>1. m \in J
      OBVIOUS
    <2>2. J \subseteq 1..n /\ 1..n \subseteq Nat
      OBVIOUS
    <2> QED
      BY <2>1, <2>2
  <1>2. PICK j \in J : \A k \in J : j <= k
    BY <1>1, LeastNumber
  <1>3. j \in 1..n /\ i < j /\ <<s[i], s[j]>> \notin R
    BY <1>2
  <1>4. j - 1 \in 1..(n - 1) /\ j - 1 \in 1..n /\ (j - 1) + 1 = j
    BY <1>3
  <1>5. <<s[j - 1], s[j]>> \in R
    BY <1>4
  <1>6. j - 1 # i
    BY <1>3, <1>5
  <1>7. <<s[i], s[j - 1]>> \in R
    <2>1. j - 1 \notin J
      BY <1>2, <1>3
    <2> QED
      BY <1>3, <1>4, <1>6, <2>1
  <1>8. s[i] \in S /\ s[j - 1] \in S /\ s[j] \in S
    BY <1>3, <1>4
  <1> QED
    BY <1>3, <1>5, <1>7, <1>8

\* Sorting leaves no choice.
LEMMA OneEnumeration ==
  ASSUME NEW S, IsFiniteSet(S), NEW R, Orders(R, S), NEW s \in SetToSeqs(S), NEW t \in SetToSeqs(S),
         \A i, j \in DOMAIN s : i < j => <<s[i], s[j]>> \in R,
         \A i, j \in DOMAIN t : i < j => <<t[i], t[j]>> \in R
  PROVE  s = t
  <1> DEFINE N == Cardinality(S)
             J == {i \in 1..N : s[i] # t[i]}
  <1>1. N \in Nat
    BY FS_CardinalityType
  <1>2. s \in [1..N -> S] /\ t \in [1..N -> S]
    BY DEF SetToSeqs
  <1>3. /\ \A x \in S : \E i \in 1..N : s[i] = x
        /\ \A x \in S : \E i \in 1..N : t[i] = x
        /\ DOMAIN s = 1..N /\ DOMAIN t = 1..N
    BY <1>2, Enumerates
  <1> HIDE DEF N
  <1> SUFFICES ASSUME s # t PROVE FALSE
    OBVIOUS
  <1>14. J # {}
    <2>1. s = [i \in 1..N |-> s[i]] /\ t = [i \in 1..N |-> t[i]]
      BY <1>2
    <2>2. PICK i \in 1..N : s[i] # t[i]
      BY <2>1
    <2> QED
      BY <2>2
  <1>4. J \in SUBSET Nat
    BY <1>1
  <1>5. PICK i \in J : \A k \in J : i <= k
    BY <1>4, <1>14, LeastNumber
  <1>6. i \in 1..N /\ s[i] # t[i] /\ \A k \in 1..N : k < i => s[k] = t[k]
    BY <1>1, <1>5
  <1>7. s[i] \in S /\ t[i] \in S
    BY <1>2, <1>6
  <1>8. PICK j \in 1..N : t[j] = s[i]
    BY <1>3, <1>7
  <1>9. PICK k \in 1..N : s[k] = t[i]
    BY <1>3, <1>7
  <1>10. ~(j < i) /\ j # i
    <2>1. ASSUME j < i PROVE FALSE
      <3>1. s[j] = s[i]
        BY <1>6, <1>8, <2>1
      <3>2. <<s[j], s[i]>> \in R
        BY <1>3, <1>6, <2>1
      <3> QED
        BY <1>7, <3>1, <3>2 DEF Orders
    <2> QED
      BY <1>6, <1>8, <2>1
  <1>11. ~(k < i) /\ k # i
    <2>1. ASSUME k < i PROVE FALSE
      <3>1. t[k] = t[i]
        BY <1>6, <1>9, <2>1
      <3>2. <<t[k], t[i]>> \in R
        BY <1>3, <1>6, <2>1
      <3> QED
        BY <1>7, <3>1, <3>2 DEF Orders
    <2> QED
      BY <1>6, <1>9, <2>1
  <1>12. i < j /\ i < k
    BY <1>1, <1>6, <1>10, <1>11
  <1>13. <<t[i], s[i]>> \in R /\ <<s[i], t[i]>> \in R
    BY <1>3, <1>6, <1>8, <1>9, <1>12
  <1> QED
    BY <1>7, <1>13 DEF Orders

=============================================================================
