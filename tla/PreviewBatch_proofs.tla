-------------------------- MODULE PreviewBatch_proofs --------------------------
(***************************************************************************)
(* The write preview, for every catalog, selection, request and form: what *)
(* passes fits the timetable, the rows say the batch, the worker posts     *)
(* them, and an accepted batch has one canonical form.                     *)
(***************************************************************************)
EXTENDS PreviewBatch, SortedSets

-----------------------------------------------------------------------------
(* The verdicts.                                                            *)

\* The courses an operation is compared with: the adds before it that passed.
Staged(b, v, i) == {b[j].course : j \in {k \in Adds(b) : k < i /\ v[k] = "ok"}}

LEMMA RequestTyped ==
  ASSUME NEW b \in Seq(Requests)
  PROVE  /\ Len(b) \in Nat /\ Positions(b) = 1..Len(b)
         /\ \A i \in Positions(b) :
              /\ i \in Nat /\ b[i] \in Requests
              /\ b[i].course \in Courses /\ b[i].course \in Nat \ {0}
              /\ b[i].action \in {"+", "-"}
         /\ Adds(b) \subseteq Positions(b) /\ Drops(b) \subseteq Positions(b)
         /\ \A i \in Positions(b) : (i \in Adds(b) <=> b[i].action = "+")
                                    /\ (i \in Drops(b) <=> b[i].action = "-")
  <1>1. Len(b) \in Nat /\ Positions(b) = 1..Len(b)
    BY DEF Positions
  <1>2. \A i \in Positions(b) : i \in Nat /\ b[i] \in Requests
    BY <1>1
  <1>3. \A i \in Positions(b) : b[i].course \in Courses /\ b[i].action \in {"+", "-"}
    BY <1>2, PreviewAssumption
  <1>4. Courses \subseteq Nat \ {0}
    BY PreviewAssumption
  <1>5. \A i \in Positions(b) : b[i].course \in Nat \ {0}
    BY <1>3, <1>4
  <1>6. \A i : (i \in Adds(b) <=> i \in Positions(b) /\ b[i].action = "+")
    BY DEF Adds
  <1>7. \A i : (i \in Drops(b) <=> i \in Positions(b) /\ b[i].action = "-")
    BY <1>3, <1>6 DEF Drops
  <1>8. Adds(b) \subseteq Positions(b) /\ Drops(b) \subseteq Positions(b)
    BY <1>6, <1>7
  <1> QED
    BY <1>1, <1>2, <1>3, <1>5, <1>6, <1>7, <1>8

\* The loop over the operations gives each its verdict from those before it: a
\* table of the first n verdicts extends to one of the first n + 1.
LEMMA VerdictsAgree ==
  ASSUME NEW b \in Seq(Requests)
  PROVE  \A i \in Positions(b) :
           EvaluateOps(b)[i] = Judge(b[i], b, Staged(b, EvaluateOps(b), i))
  <1> DEFINE Upto(n, g) == g = [i \in 1..n |-> Judge(b[i], b, Staged(b, g, i))]
             Missing == {n \in 0..Len(b) : ~\E g : Upto(n, g)}
  <1>1. /\ Len(b) \in Nat /\ Positions(b) = 1..Len(b) /\ Adds(b) \subseteq 1..Len(b)
    BY RequestTyped
  <1>2. Missing = {}
    <2> SUFFICES ASSUME Missing # {} PROVE FALSE
      OBVIOUS
    <2>1. Missing \in SUBSET Nat
      BY <1>1
    <2> HIDE DEF Upto
    <2>2. PICK n \in Missing : \A m \in Missing : n <= m
      BY <2>1, LeastNumber
    <2>3. CASE n = 0
      <3>1. Upto(0, [i \in 1..0 |-> 0])
        BY DEF Upto
      <3> QED
        BY <2>2, <2>3, <3>1
    <2>4. CASE n # 0
      <3>1. n \in 1..Len(b) /\ n - 1 \in 0..Len(b) /\ n - 1 \notin Missing
        BY <1>1, <2>2, <2>4
      <3>2. PICK g : Upto(n - 1, g)
        BY <3>1
      <3> DEFINE f == [i \in 1..n |-> Judge(b[i], b, Staged(b, g, i))]
      <3>3. \A k \in 1..(n - 1) : f[k] = g[k]
        <4> SUFFICES ASSUME NEW k \in 1..(n - 1) PROVE f[k] = g[k]
          OBVIOUS
        <4>1. f[k] = Judge(b[k], b, Staged(b, g, k))
          BY <1>1, <3>1
        <4>2. g = [i \in 1..(n - 1) |-> Judge(b[i], b, Staged(b, g, i))]
          BY <3>2 DEF Upto
        <4>3. [i \in 1..(n - 1) |-> Judge(b[i], b, Staged(b, g, i))][k]
                = Judge(b[k], b, Staged(b, g, k))
          OBVIOUS
        <4> HIDE DEF f
        <4> QED
          BY <4>1, <4>2, <4>3
      <3>4. \A i \in 1..n : Staged(b, f, i) = Staged(b, g, i)
        <4> SUFFICES ASSUME NEW i \in 1..n PROVE Staged(b, f, i) = Staged(b, g, i)
          OBVIOUS
        <4> HIDE DEF f
        <4>1. \A k \in Adds(b) : k < i => k \in 1..(n - 1)
          BY <1>1, <3>1
        <4>2. {k \in Adds(b) : k < i /\ f[k] = "ok"} = {k \in Adds(b) : k < i /\ g[k] = "ok"}
          BY <3>3, <4>1
        <4> QED
          BY <4>2 DEF Staged
      <3>5. Upto(n, f)
        <4>1. f = [i \in 1..n |-> Judge(b[i], b, Staged(b, g, i))]
          OBVIOUS
        <4> HIDE DEF f
        <4>2. [i \in 1..n |-> Judge(b[i], b, Staged(b, g, i))]
                = [i \in 1..n |-> Judge(b[i], b, Staged(b, f, i))]
          BY <3>4
        <4> QED
          BY <4>1, <4>2 DEF Upto
      <3> QED
        BY <2>2, <3>5
    <2> QED
      BY <2>3, <2>4
  <1>3. PICK g : g = [i \in Positions(b) |-> Judge(b[i], b, Staged(b, g, i))]
    BY <1>1, <1>2
  <1>4. \A h : h = [i \in Positions(b) |->
                      Judge(b[i], b, {b[j].course : j \in {k \in Adds(b) : k < i /\ h[k] = "ok"}})]
               <=> h = [i \in Positions(b) |-> Judge(b[i], b, Staged(b, h, i))]
    BY DEF Staged
  <1> DEFINE v == CHOOSE h : h = [i \in Positions(b) |->
                      Judge(b[i], b, {b[j].course : j \in {k \in Adds(b) : k < i /\ h[k] = "ok"}})]
  <1>5. v = [i \in Positions(b) |-> Judge(b[i], b, Staged(b, v, i))]
    BY <1>3, <1>4
  <1>6. EvaluateOps(b) = [i \in Positions(b) |-> v[i]]
    BY DEF EvaluateOps
  <1> HIDE DEF v
  <1>7. EvaluateOps(b) = v
    BY <1>5, <1>6
  <1> QED
    BY <1>5, <1>7

\* What it takes for an operation to pass.
LEMMA JudgedOk ==
  ASSUME NEW o, NEW b, NEW S, o.action \in {"+", "-"}
  PROVE  Judge(o, b, S) = "ok" <=>
           /\ ResolveCourse(o) # None
           /\ ResolveCourse(o) \notin MixedCodes(b)
           /\ o.action = "-" => o.course \in selected
           /\ o.action = "+" => \A c \in SelectionTargets \cup S : ~IsConflict(o.course, c)
  BY DEF Judge

\* Only a course that has a number is resolved, and to that number.
LEMMA Resolved ==
  ASSUME NEW o, ResolveCourse(o) # None
  PROVE  ResolveCourse(o) = o.course
  BY DEF ResolveCourse

LEMMA ConflictSymmetric ==
  ASSUME NEW c, NEW d
  PROVE  IsConflict(c, d) <=> IsConflict(d, c)
  BY DEF IsConflict

\* When all operations are resolved, a code is mixed just when its course is
\* added and dropped.
LEMMA NothingMixed ==
  ASSUME NEW b \in Seq(Requests), \A i \in Positions(b) : ResolveCourse(b[i]) # None
  PROVE  (\A i \in Positions(b) : ResolveCourse(b[i]) \notin MixedCodes(b))
           <=> (\A i \in Adds(b), j \in Drops(b) : b[i].course # b[j].course)
  <1>1. \A i \in Positions(b) : ResolveCourse(b[i]) = b[i].course
    BY Resolved
  <1>2. Adds(b) \subseteq Positions(b) /\ Drops(b) \subseteq Positions(b)
    BY RequestTyped
  <1>3. Positions(b) = Adds(b) \cup Drops(b)
    BY <1>2 DEF Drops
  <1>4. \A x : x \in MixedCodes(b) <=> /\ \E i \in Adds(b) : x = b[i].course
                                       /\ \E j \in Drops(b) : x = b[j].course
    BY <1>1, <1>2 DEF MixedCodes
  <1> QED
    BY <1>1, <1>2, <1>3, <1>4

\* The checks one after the other pass just when the whole batch fits: a batch
\* that passes has staged all its adds, and one that fits leaves nothing to block.
LEMMA PassesJustWhenItFits ==
  ASSUME NEW b \in Seq(Requests)
  PROVE  (\A i \in Positions(b) : EvaluateOps(b)[i] = "ok") <=> FitsTimetable(b)
  <1> DEFINE v == EvaluateOps(b)
             S(i) == Staged(b, v, i)
  <1>1. /\ \A i \in Positions(b) : i \in Nat /\ b[i].action \in {"+", "-"}
        /\ Adds(b) \subseteq Positions(b) /\ Drops(b) \subseteq Positions(b)
        /\ \A i \in Positions(b) : (i \in Adds(b) <=> b[i].action = "+")
                                   /\ (i \in Drops(b) <=> b[i].action = "-")
    BY RequestTyped
  <1>2. \A i \in Positions(b) : v[i] = Judge(b[i], b, S(i))
    BY VerdictsAgree
  <1>3. \A i : S(i) = {b[j].course : j \in {k \in Adds(b) : k < i /\ v[k] = "ok"}}
    BY DEF Staged
  <1> HIDE DEF v, S
  <1>4. \A i \in Positions(b) :
          v[i] = "ok" <=> /\ ResolveCourse(b[i]) # None
                          /\ ResolveCourse(b[i]) \notin MixedCodes(b)
                          /\ i \in Drops(b) => b[i].course \in selected
                          /\ i \in Adds(b) => \A c \in SelectionTargets \cup S(i) :
                                                ~IsConflict(b[i].course, c)
    BY <1>1, <1>2, JudgedOk
  <1>5. ASSUME \A i \in Positions(b) : v[i] = "ok" PROVE FitsTimetable(b)
    <2>1. \A i \in Positions(b) : ResolveCourse(b[i]) # None
      BY <1>4, <1>5
    <2>2. \A i \in Adds(b), j \in Drops(b) : b[i].course # b[j].course
      BY <1>4, <1>5, <2>1, NothingMixed
    <2>3. \A i \in Drops(b) : b[i].course \in selected
      BY <1>1, <1>4, <1>5
    <2>4. ASSUME NEW i \in Adds(b), NEW j \in Adds(b), j < i
          PROVE  ~IsConflict(b[i].course, b[j].course)
      <3>1. b[j].course \in S(i)
        BY <1>1, <1>3, <1>5, <2>4
      <3> QED
        BY <1>1, <1>4, <1>5, <3>1
    <2>5. ASSUME NEW i \in Adds(b), NEW j \in Adds(b), i # j
          PROVE  ~IsConflict(b[i].course, b[j].course)
      <3>1. j < i \/ i < j
        BY <1>1, <2>5
      <3> QED
        BY <2>4, <3>1, ConflictSymmetric
    <2>6. \A i \in Adds(b) : \A c \in SelectionTargets : ~IsConflict(b[i].course, c)
      BY <1>1, <1>4, <1>5
    <2> QED
      BY <2>1, <2>2, <2>3, <2>5, <2>6 DEF FitsTimetable
  <1>6. ASSUME FitsTimetable(b) PROVE \A i \in Positions(b) : v[i] = "ok"
    <2>1. \A i \in Positions(b) : ResolveCourse(b[i]) # None
      BY <1>6 DEF FitsTimetable
    <2>2. \A i \in Positions(b) : ResolveCourse(b[i]) \notin MixedCodes(b)
      BY <1>6, <2>1, NothingMixed DEF FitsTimetable
    <2>3. \A i \in Drops(b) : b[i].course \in selected
      BY <1>6 DEF FitsTimetable
    <2>4. ASSUME NEW i \in Adds(b), NEW c \in SelectionTargets \cup S(i)
          PROVE  ~IsConflict(b[i].course, c)
      <3>1. CASE c \in SelectionTargets
        BY <1>6, <3>1 DEF FitsTimetable
      <3>2. CASE c \in S(i)
        <4>1. PICK j \in Adds(b) : j < i /\ c = b[j].course
          BY <1>3, <3>2
        <4>2. i # j
          BY <1>1, <4>1
        <4> QED
          BY <1>6, <4>1, <4>2 DEF FitsTimetable
      <3> QED
        BY <2>4, <3>1, <3>2
    <2> QED
      BY <1>4, <2>1, <2>2, <2>3, <2>4
  <1> QED
    BY <1>5, <1>6 DEF v

-----------------------------------------------------------------------------
(* The canonical form.                                                      *)

\* What is kept of an operation.
Form(o) == [action |-> o.action, course |-> o.course, priority |-> o.priority]

\* The places at which a key occurs first.
Firsts(b) == {j \in Positions(b) : \A k \in 1..(j - 1) : Key(b[k]) # Key(b[j])}

LEMMA FirstsAreUnique ==
  ASSUME NEW b \in Seq(Requests)
  PROVE  /\ Firsts(b) \subseteq Positions(b)
         /\ \A i, j \in Firsts(b) : Key(b[i]) = Key(b[j]) => i = j
         /\ \A i \in Positions(b) : \E j \in Firsts(b) : Key(b[j]) = Key(b[i])
         /\ Survivors(b) = {Form(b[i]) : i \in Firsts(b)}
  <1>1. Len(b) \in Nat /\ Positions(b) = 1..Len(b)
    BY RequestTyped
  <1>2. Firsts(b) \subseteq Positions(b)
    BY DEF Firsts
  <1>3. ASSUME NEW i \in Firsts(b), NEW j \in Firsts(b), Key(b[i]) = Key(b[j]) PROVE i = j
    <2>1. i \in Nat /\ j \in Nat /\ i >= 1 /\ j >= 1
      BY <1>1, <1>2
    <2>2. ~(i < j) /\ ~(j < i)
      BY <1>3, <2>1 DEF Firsts
    <2> QED
      BY <2>1, <2>2
  <1>4. ASSUME NEW i \in Positions(b) PROVE \E j \in Firsts(b) : Key(b[j]) = Key(b[i])
    <2> DEFINE Same == {k \in Positions(b) : Key(b[k]) = Key(b[i])}
    <2>1. Same \in SUBSET Nat /\ Same # {}
      BY <1>1
    <2>2. PICK j \in Same : \A k \in Same : j <= k
      BY <2>1, LeastNumber
    <2>3. \A k \in 1..(j - 1) : Key(b[k]) # Key(b[j])
      BY <1>1, <2>2
    <2> QED
      BY <2>2, <2>3 DEF Firsts
  <1>5. Survivors(b) = {Form(b[i]) : i \in Firsts(b)}
    BY DEF Survivors, Form, Firsts
  <1> QED
    BY <1>2, <1>3, <1>4, <1>5

\* The survivors are finitely many, and the sort has a result.
LEMMA CanonicalSorted ==
  ASSUME NEW b \in Seq(Requests)
  PROVE  /\ IsFiniteSet(Survivors(b))
         /\ CanonicalOps(b) \in SetToSeqs(Survivors(b))
         /\ \A i, j \in DOMAIN CanonicalOps(b) :
              i < j => Before(CanonicalOps(b)[i], CanonicalOps(b)[j])
  <1> DEFINE S == Survivors(b)
             R == {p \in S \X S : Before(p[1], p[2])}
  <1>1. S = {Form(b[i]) : i \in Firsts(b)}
    BY FirstsAreUnique
  <1>2. IsFiniteSet(S)
    <2>1. IsFiniteSet(Positions(b))
      BY RequestTyped, FS_Interval
    <2>2. IsFiniteSet(Firsts(b))
      BY <2>1, FirstsAreUnique, FS_Subset
    <2> DEFINE f == [i \in Firsts(b) |-> Form(b[i])]
    <2>3. f \in Surjection(Firsts(b), S)
      BY <1>1 DEF Surjection
    <2> QED
      BY <2>2, <2>3, FS_Surjection
  <1>3. \A x \in S : x.action \in {"+", "-"} /\ x.course \in Nat
    BY <1>1, RequestTyped, FirstsAreUnique DEF Form
  <1>4. ASSUME NEW x \in S, NEW y \in S, x.action = y.action, x.course = y.course
        PROVE  x = y
    <2>1. PICK i \in Firsts(b), j \in Firsts(b) : x = Form(b[i]) /\ y = Form(b[j])
      BY <1>1
    <2>2. Key(b[i]) = Key(b[j])
      BY <1>4, <2>1 DEF Form, Key
    <2> QED
      BY <2>1, <2>2, FirstsAreUnique
  <1>5. \A x, y \in S : <<x, y>> \in R <=> Before(x, y)
    OBVIOUS
  <1> HIDE DEF R, S
  <1>6. Orders(R, S)
    <2>1. \A x \in S : ~Before(x, x)
      BY <1>3 DEF Before
    <2>2. \A x, y, z \in S : Before(x, y) /\ Before(y, z) => Before(x, z)
      BY <1>3 DEF Before
    <2>3. \A x, y \in S : x = y \/ Before(x, y) \/ Before(y, x)
      BY <1>3, <1>4 DEF Before
    <2> QED
      BY <1>5, <2>1, <2>2, <2>3 DEF Orders
  <1>7. PICK s \in SetToSeqs(S) : \A i, j \in 1..Cardinality(S) : i < j => <<s[i], s[j]>> \in R
    BY <1>2, <1>6, SortedEnumeration
  <1>8. DOMAIN s = 1..Cardinality(S) /\ \A i \in DOMAIN s : s[i] \in S
    BY <1>7 DEF SetToSeqs
  <1>9. \A i, j \in DOMAIN s : i < j => Before(s[i], s[j])
    BY <1>5, <1>7, <1>8
  <1>10. \E t \in SetToSeqs(S) : \A i, j \in DOMAIN t : i < j => Before(t[i], t[j])
    BY <1>7, <1>9
  <1>11. CanonicalOps(b)
           = CHOOSE t \in SetToSeqs(S) : \A i, j \in DOMAIN t : i < j => Before(t[i], t[j])
    BY DEF CanonicalOps, S
  <1> QED
    BY <1>2, <1>10, <1>11 DEF S

\* Adds that are all different and drops without a priority.
WellShaped(b) ==
  /\ \A i \in Adds(b) : b[i].priority \in 1..MaxPriority
  /\ \A i, j \in Adds(b) : b[i].priority = b[j].priority => i = j
  /\ \A i \in Drops(b) : b[i].priority = None

AddsOnce(b) == \A i, j \in Adds(b) : b[i].course = b[j].course => i = j

\* Where no course is added twice, what survives does not depend on the order.
LEMMA SurvivorsOfWellShaped ==
  ASSUME NEW b \in Seq(Requests), WellShaped(b), AddsOnce(b)
  PROVE  Survivors(b) = {Form(b[i]) : i \in Positions(b)}
  <1>1. /\ Firsts(b) \subseteq Positions(b)
        /\ \A i \in Positions(b) : \E j \in Firsts(b) : Key(b[j]) = Key(b[i])
        /\ Survivors(b) = {Form(b[i]) : i \in Firsts(b)}
    BY FirstsAreUnique
  <1>2. \A i \in Positions(b) : (i \in Adds(b) <=> b[i].action = "+")
                                /\ (i \in Drops(b) <=> b[i].action = "-")
                                /\ b[i].action \in {"+", "-"}
    BY RequestTyped
  <1>3. ASSUME NEW i \in Positions(b), NEW j \in Positions(b), Key(b[i]) = Key(b[j])
        PROVE  Form(b[i]) = Form(b[j])
    <2>1. b[i].action = b[j].action /\ b[i].course = b[j].course
      BY <1>3 DEF Key
    <2>2. b[i].priority = b[j].priority
      BY <1>2, <2>1 DEF WellShaped, AddsOnce
    <2> QED
      BY <2>1, <2>2 DEF Form
  <1> QED
    BY <1>1, <1>3

LEMMA RearrangedTyped ==
  ASSUME NEW b \in Seq(Requests), NEW c \in Rearranged(b)
  PROVE  /\ c \in Seq(Requests) /\ Positions(c) = Positions(b)
         /\ \E q \in [Positions(b) -> Positions(b)] :
              /\ \A i, j \in Positions(b) : q[i] = q[j] => i = j
              /\ \A i \in Positions(b) : \E j \in Positions(b) : q[j] = i
              /\ \A i \in Positions(b) : c[i] = b[q[i]]
  <1>1. Len(b) \in Nat /\ Positions(b) = 1..Len(b)
    BY RequestTyped
  <1>2. PICK q \in [Positions(b) -> Positions(b)] :
          /\ \A i, j \in Positions(b) : q[i] = q[j] => i = j
          /\ c = [i \in Positions(b) |-> b[q[i]]]
    BY DEF Rearranged
  <1>3. c \in [1..Len(b) -> Requests]
    BY <1>1, <1>2
  <1>4. c \in Seq(Requests) /\ Len(c) = Len(b)
    BY <1>1, <1>3
  <1>5. q \in Surjection(Positions(b), Positions(b))
    <2>1. q \in Injection(Positions(b), Positions(b))
      BY <1>2 DEF Injection, IsInjective
    <2>2. IsFiniteSet(Positions(b))
      BY <1>1, FS_Interval
    <2> QED
      BY <2>1, <2>2, FS_Injection
  <1> QED
    BY <1>1, <1>2, <1>4, <1>5 DEF Surjection, Positions

\* However an accepted batch is rearranged, its canonical form is the same.
LEMMA OneCanonicalForm ==
  ASSUME NEW b \in Seq(Requests), WellShaped(b), AddsOnce(b), NEW c \in Rearranged(b)
  PROVE  CanonicalOps(c) = CanonicalOps(b)
  <1>1. c \in Seq(Requests) /\ Positions(c) = Positions(b)
    BY RearrangedTyped
  <1>2. PICK q \in [Positions(b) -> Positions(b)] :
          /\ \A i, j \in Positions(b) : q[i] = q[j] => i = j
          /\ \A i \in Positions(b) : \E j \in Positions(b) : q[j] = i
          /\ \A i \in Positions(b) : c[i] = b[q[i]]
    BY RearrangedTyped
  <1>3. \A i \in Positions(b) : (i \in Adds(c) <=> q[i] \in Adds(b))
                                /\ (i \in Drops(c) <=> q[i] \in Drops(b))
    BY <1>1, <1>2 DEF Adds, Drops
  <1>4. WellShaped(c) /\ AddsOnce(c)
    <2>1. Adds(c) \subseteq Positions(b) /\ Drops(c) \subseteq Positions(b)
      BY <1>1, RequestTyped
    <2>2. \A i \in Adds(c) : q[i] \in Adds(b) /\ c[i] = b[q[i]]
      BY <1>2, <1>3, <2>1
    <2>3. \A i \in Drops(c) : q[i] \in Drops(b) /\ c[i] = b[q[i]]
      BY <1>2, <1>3, <2>1
    <2> QED
      BY <1>2, <2>1, <2>2, <2>3 DEF WellShaped, AddsOnce
  <1>5. Survivors(b) = {Form(b[i]) : i \in Positions(b)}
    BY SurvivorsOfWellShaped
  <1>6. Survivors(c) = {Form(c[i]) : i \in Positions(b)}
    BY <1>1, <1>4, SurvivorsOfWellShaped
  <1>7. \A i \in Positions(b) : c[i] = b[q[i]] /\ q[i] \in Positions(b)
    BY <1>2
  <1>8. \A i \in Positions(b) : \E j \in Positions(b) : b[i] = c[j]
    BY <1>2
  <1>9. {Form(c[i]) : i \in Positions(b)} = {Form(b[i]) : i \in Positions(b)}
    BY <1>7, <1>8
  <1>10. Survivors(c) = Survivors(b)
    BY <1>5, <1>6, <1>9
  <1> QED
    BY <1>10 DEF CanonicalOps

-----------------------------------------------------------------------------
(* The rows.                                                                *)

\* The rows of a batch that fits the form: its operations and then rest.
LEMMA RowsOfBatch ==
  ASSUME NEW b \in Seq(Requests), NEW n \in Nat, RowsFit(CanonicalOps(b), n)
  PROVE  LET ops == CanonicalOps(b)
             rows == BuildRows(ops, n)
         IN  /\ ops \in Seq(Survivors(b)) /\ Len(ops) \in Nat
             /\ \A i, j \in 1..Len(ops) : ops[i] = ops[j] => i = j
             /\ \A x \in Survivors(b) : \E i \in 1..Len(ops) : ops[i] = x
             /\ Asked(rows) = 1..Len(ops)
             /\ \A r \in 1..Len(ops) :
                  rows[r] = [D |-> ops[r].action, C |-> ops[r].course, T |-> ops[r].priority]
  <1> DEFINE ops == CanonicalOps(b)
             rows == BuildRows(ops, n)
  <1>1. IsFiniteSet(Survivors(b)) /\ ops \in SetToSeqs(Survivors(b))
    BY CanonicalSorted
  <1>2. Len(ops) <= n
    BY DEF RowsFit
  <1> HIDE DEF ops
  <1>3. /\ ops \in Seq(Survivors(b)) /\ DOMAIN ops = 1..Len(ops)
        /\ \A i, j \in DOMAIN ops : ops[i] = ops[j] => i = j
        /\ \A x \in Survivors(b) : \E i \in DOMAIN ops : ops[i] = x
    BY <1>1, Enumerates
  <1>4. Len(ops) \in Nat /\ \A i \in 1..Len(ops) : ops[i] \in Survivors(b)
    BY <1>3
  <1>5. \A x \in Survivors(b) : x.action \in {"+", "-"}
    BY FirstsAreUnique, RequestTyped DEF Form
  <1>6. rows = [r \in 1..n |->
                  IF r <= Len(ops)
                    THEN [D |-> ops[r].action, C |-> ops[r].course, T |-> ops[r].priority]
                    ELSE RestRow]
    BY DEF BuildRows
  <1> HIDE DEF rows
  <1>7. Len(rows) = n
    BY <1>6
  <1>8. \A r \in 1..Len(ops) :
          rows[r] = [D |-> ops[r].action, C |-> ops[r].course, T |-> ops[r].priority]
    BY <1>2, <1>4, <1>6
  <1>9. \A r \in 1..n : r \notin 1..Len(ops) => rows[r].D = "N"
    BY <1>4, <1>6 DEF RestRow
  <1>10. \A r \in 1..Len(ops) : r \in 1..n /\ rows[r].D # "N"
    <2> SUFFICES ASSUME NEW r \in 1..Len(ops) PROVE r \in 1..n /\ rows[r].D # "N"
      OBVIOUS
    <2>1. ops[r].action \in {"+", "-"}
      BY <1>4, <1>5
    <2>2. rows[r].D = ops[r].action
      <3>1. rows[r] = [D |-> ops[r].action, C |-> ops[r].course, T |-> ops[r].priority]
        BY <1>8
      <3> QED
        BY <3>1
    <2> QED
      BY <1>2, <1>4, <2>1, <2>2
  <1>11. Asked(rows) = 1..Len(ops)
    BY <1>7, <1>9, <1>10 DEF Asked
  <1> QED
    BY <1>3, <1>4, <1>8, <1>11 DEF ops, rows

\* Every operation of the batch is asked for once, and nothing else.
SayTheBatch(rows, b) ==
  /\ {<<rows[r].D, rows[r].C>> : r \in Asked(rows)} = {Key(b[i]) : i \in Positions(b)}
  /\ \A r \in Asked(rows) : \E i \in Positions(b) :
       Key(b[i]) = <<rows[r].D, rows[r].C>> /\ b[i].priority = rows[r].T
  /\ \A r, s \in Asked(rows) :
       r # s => rows[r].C # rows[s].C /\ (rows[r].T # rows[s].T \/ rows[r].T = None)

\* What the rows say of a batch that was accepted.
LEMMA RowsAreTheBatch ==
  ASSUME NEW b \in Seq(Requests), NEW n \in Nat, RowsFit(CanonicalOps(b), n),
         WellShaped(b), FitsTimetable(b)
  PROVE  SayTheBatch(BuildRows(CanonicalOps(b), n), b)
  <1> DEFINE ops == CanonicalOps(b)
             rows == BuildRows(ops, n)
             A == Asked(rows)
  <1>1. /\ Len(ops) \in Nat /\ A = 1..Len(ops)
        /\ \A r \in A : rows[r] = [D |-> ops[r].action, C |-> ops[r].course,
                                   T |-> ops[r].priority]
        /\ \A i, j \in A : ops[i] = ops[j] => i = j
        /\ \A x \in Survivors(b) : \E i \in A : ops[i] = x
        /\ \A i \in A : ops[i] \in Survivors(b)
    BY RowsOfBatch
  <1> HIDE DEF ops, rows, A
  <1>2. /\ Firsts(b) \subseteq Positions(b)
        /\ \A i, j \in Firsts(b) : Key(b[i]) = Key(b[j]) => i = j
        /\ \A i \in Positions(b) : \E j \in Firsts(b) : Key(b[j]) = Key(b[i])
        /\ Survivors(b) = {Form(b[i]) : i \in Firsts(b)}
    BY FirstsAreUnique
  <1>3. /\ \A i \in Positions(b) : b[i].action \in {"+", "-"}
        /\ \A i \in Positions(b) : (i \in Adds(b) <=> b[i].action = "+")
                                   /\ (i \in Drops(b) <=> b[i].action = "-")
    BY RequestTyped
  <1>4. \A r \in A : /\ rows[r].D = ops[r].action /\ rows[r].C = ops[r].course
                      /\ rows[r].T = ops[r].priority
    <2> SUFFICES ASSUME NEW r \in A
                 PROVE  /\ rows[r].D = ops[r].action /\ rows[r].C = ops[r].course
                        /\ rows[r].T = ops[r].priority
      OBVIOUS
    <2>1. rows[r] = [D |-> ops[r].action, C |-> ops[r].course, T |-> ops[r].priority]
      BY <1>1
    <2> QED
      BY <2>1
  \* Each row is the first operation of its key.
  <1>5. ASSUME NEW r \in A
        PROVE  \E i \in Firsts(b) : /\ rows[r].D = b[i].action /\ rows[r].C = b[i].course
                                    /\ rows[r].T = b[i].priority /\ ops[r] = Form(b[i])
    <2>1. PICK i \in Firsts(b) : ops[r] = Form(b[i])
      BY <1>1, <1>2
    <2>2. /\ ops[r].action = b[i].action /\ ops[r].course = b[i].course
          /\ ops[r].priority = b[i].priority
      BY <2>1 DEF Form
    <2> QED
      BY <1>4, <2>1, <2>2
  <1>6. ASSUME NEW i \in Firsts(b)
        PROVE  \E r \in A : rows[r].D = b[i].action /\ rows[r].C = b[i].course
    <2>1. PICK r \in A : ops[r] = Form(b[i])
      BY <1>1, <1>2
    <2>2. ops[r].action = b[i].action /\ ops[r].course = b[i].course
      BY <2>1 DEF Form
    <2> QED
      BY <1>4, <2>2
  <1>7. {<<rows[r].D, rows[r].C>> : r \in A} = {Key(b[i]) : i \in Positions(b)}
    <2>1. \A r \in A : \E i \in Positions(b) : <<rows[r].D, rows[r].C>> = Key(b[i])
      BY <1>2, <1>5 DEF Key
    <2>2. \A i \in Positions(b) : \E r \in A : <<rows[r].D, rows[r].C>> = Key(b[i])
      <3> SUFFICES ASSUME NEW i \in Positions(b)
                   PROVE  \E r \in A : <<rows[r].D, rows[r].C>> = Key(b[i])
        OBVIOUS
      <3>1. PICK j \in Firsts(b) : Key(b[j]) = Key(b[i])
        BY <1>2
      <3>2. PICK r \in A : rows[r].D = b[j].action /\ rows[r].C = b[j].course
        BY <1>6
      <3> QED
        BY <3>1, <3>2 DEF Key
    <2> QED
      BY <2>1, <2>2
  <1>8. \A r \in A : \E i \in Positions(b) :
          Key(b[i]) = <<rows[r].D, rows[r].C>> /\ b[i].priority = rows[r].T
    BY <1>2, <1>5 DEF Key
  <1>9. ASSUME NEW r \in A, NEW s \in A, r # s
        PROVE  rows[r].C # rows[s].C /\ (rows[r].T # rows[s].T \/ rows[r].T = None)
    <2>1. PICK i \in Firsts(b) : /\ rows[r].C = b[i].course /\ rows[r].T = b[i].priority
                                 /\ ops[r] = Form(b[i])
      BY <1>5
    <2>2. PICK j \in Firsts(b) : /\ rows[s].C = b[j].course /\ rows[s].T = b[j].priority
                                 /\ ops[s] = Form(b[j])
      BY <1>5
    <2>3. i # j
      BY <1>1, <1>9, <2>1, <2>2
    <2>4. i \in Positions(b) /\ j \in Positions(b) /\ Key(b[i]) # Key(b[j])
      BY <1>2, <2>3
    <2>5. b[i].course # b[j].course
      <3>1. b[i].action = b[j].action => b[i].course # b[j].course
        BY <2>4 DEF Key
      <3>2. b[i].action # b[j].action => b[i].course # b[j].course
        BY <1>3, <2>4 DEF FitsTimetable
      <3> QED
        BY <3>1, <3>2
    <2>6. b[i].priority # b[j].priority \/ b[i].priority = None
      <3>1. CASE i \in Drops(b)
        BY <3>1 DEF WellShaped
      <3>2. CASE i \in Adds(b) /\ j \in Adds(b)
        BY <2>3, <3>2 DEF WellShaped
      <3>3. CASE i \in Adds(b) /\ j \in Drops(b)
        BY <3>3 DEF WellShaped, None
      <3> QED
        BY <1>3, <2>4, <3>1, <3>2, <3>3
    <2> QED
      BY <2>1, <2>2, <2>5, <2>6
  <1> QED
    BY <1>7, <1>8, <1>9 DEF SayTheBatch, ops, rows, A

-----------------------------------------------------------------------------
(* The theorems.                                                            *)

\* A form of some page that the batch fits, and its rows.
RowsOfForm(rows) ==
  \E p \in Pages : RowsFit(CanonicalOps(batch), p.rows)
                   /\ rows = BuildRows(CanonicalOps(batch), p.rows)

\* What an accepted batch, its token and its posted rows have in common; the
\* page may have turned in between, the batch and its verdicts have not.
PreviewInv ==
  /\ batch \in Seq(Requests) /\ page \in Pages
  /\ answer.kind = "ok" =>
       WellShaped(batch) /\ FitsTimetable(batch) /\ RowsOfForm(answer.rows)
  /\ answer.kind = "blocked" => ~FitsTimetable(batch)
  /\ record # <<>> => answer.kind = "ok" /\ record = CanonicalOps(batch)
  /\ posted # <<>> => answer.kind = "ok" /\ RowsOfForm(posted)

\* The verdicts read the batch, the catalog and the selections, and nothing else.
LEMMA SameTimetable ==
  ASSUME UNCHANGED <<batch, catalog, selected>>
  PROVE  FitsTimetable(batch)' <=> FitsTimetable(batch)
  BY DEF FitsTimetable, Positions, Adds, Drops, ResolveCourse, SelectionTargets, IsConflict

LEMMA SameForms ==
  ASSUME UNCHANGED batch
  PROVE  /\ WellShaped(batch)' <=> WellShaped(batch)
         /\ CanonicalOps(batch)' = CanonicalOps(batch)
  <1>1. WellShaped(batch)' <=> WellShaped(batch)
    BY DEF WellShaped, Positions, Adds, Drops
  <1>2. Survivors(batch)' = Survivors(batch)
    BY DEF Survivors, Positions
  <1> QED
    BY <1>1, <1>2 DEF CanonicalOps

LEMMA PreviewAnswers ==
  ASSUME PreviewInv, PostWritePreview
  PROVE  PreviewInv'
  <1> DEFINE ops == CanonicalOps(batch)
             verdicts == EvaluateOps(batch)
  <1>1. /\ answer.kind = "none" /\ posted = <<>> /\ record = <<>>
        /\ UNCHANGED <<batch, catalog, selected, page, posted>>
    BY DEF PreviewInv, PostWritePreview, NoAnswer
  <1>2. batch \in Seq(Requests) /\ page \in Pages
    BY DEF PreviewInv
  <1>3. /\ FitsTimetable(batch)' <=> FitsTimetable(batch)
        /\ WellShaped(batch)' <=> WellShaped(batch)
        /\ CanonicalOps(batch)' = ops
    BY <1>1, SameTimetable, SameForms
  <1>4. (\A i \in Positions(batch) : verdicts[i] = "ok") <=> FitsTimetable(batch)
    BY <1>2, PassesJustWhenItFits
  <1>5. \A v : ValidateOps(batch, v) => WellShaped(batch)
    BY DEF ValidateOps, WellShaped
  <1> HIDE DEF ops, verdicts
  <1>6. \/ \E k \in {"unavailable", "expired", "stage_unavailable", "bad_request", "error"} :
             answer'.kind = k /\ record' = record
        \/ /\ \E i \in Positions(batch) : verdicts[i] # "ok"
           /\ answer'.kind = "blocked" /\ record' = record
        \/ /\ \A i \in Positions(batch) : verdicts[i] = "ok"
           /\ WellShaped(batch) /\ RowsFit(ops, page.rows)
           /\ answer'.kind = "ok" /\ answer'.rows = BuildRows(ops, page.rows)
           /\ record' = ops
    BY <1>5 DEF PostWritePreview, Refuse, NoAnswer, ops, verdicts
  <1>7. batch' \in Seq(Requests) /\ page' \in Pages /\ posted' = <<>>
    BY <1>1, <1>2
  <1>8. CASE \E k \in {"unavailable", "expired", "stage_unavailable", "bad_request", "error"} :
               answer'.kind = k /\ record' = record
    BY <1>1, <1>7, <1>8 DEF PreviewInv
  <1>9. CASE /\ \E i \in Positions(batch) : verdicts[i] # "ok"
             /\ answer'.kind = "blocked" /\ record' = record
    BY <1>1, <1>3, <1>4, <1>7, <1>9 DEF PreviewInv
  <1>10. CASE /\ \A i \in Positions(batch) : verdicts[i] = "ok"
              /\ WellShaped(batch) /\ RowsFit(ops, page.rows)
              /\ answer'.kind = "ok" /\ answer'.rows = BuildRows(ops, page.rows)
              /\ record' = ops
    <2>1. RowsOfForm(answer.rows)'
      BY <1>2, <1>3, <1>10 DEF RowsOfForm
    <2> QED
      BY <1>3, <1>4, <1>7, <1>10, <2>1 DEF PreviewInv
  <1> QED
    BY <1>6, <1>8, <1>9, <1>10

LEMMA PreviewKept ==
  ASSUME PreviewInv, UNCHANGED <<batch, catalog, selected, answer>>, page' \in Pages,
         record' = record \/ record' = <<>>,
         posted' = posted \/ (answer.kind = "ok" /\ RowsOfForm(posted'))
  PROVE  PreviewInv'
  <1>1. /\ FitsTimetable(batch)' <=> FitsTimetable(batch)
        /\ WellShaped(batch)' <=> WellShaped(batch)
        /\ CanonicalOps(batch)' = CanonicalOps(batch)
    BY SameTimetable, SameForms
  <1>2. RowsOfForm(answer.rows)' <=> RowsOfForm(answer.rows)
    BY <1>1 DEF RowsOfForm
  <1>3. posted' # <<>> => answer'.kind = "ok" /\ RowsOfForm(posted)'
    BY <1>1 DEF RowsOfForm, PreviewInv
  <1>4. record' # <<>> => answer'.kind = "ok" /\ record' = CanonicalOps(batch)'
    BY <1>1 DEF PreviewInv
  <1> QED
    BY <1>1, <1>2, <1>3, <1>4 DEF PreviewInv

\* What is shown, parked under the token and posted is of the one batch that fits,
\* in every reachable state (api/write.py, write/engine.py).
THEOREM PreviewHolds == Spec => []PreviewInv
  <1>1. Init => PreviewInv
    BY DEF Init, PreviewInv, NoAnswer
  <1>2. PreviewInv /\ [Next]_vars => PreviewInv'
    <2> SUFFICES ASSUME PreviewInv, [Next]_vars PROVE PreviewInv'
      OBVIOUS
    <2>1. ASSUME NEW o \in Requests, AddOp(o) PROVE PreviewInv'
      <3>1. answer'.kind = "none" /\ record' = <<>> /\ posted' = <<>> /\ page' \in Pages
        BY <2>1 DEF AddOp, NoAnswer, PreviewInv
      <3>2. batch' \in Seq(Requests)
        BY <2>1 DEF AddOp, PreviewInv
      <3> QED
        BY <3>1, <3>2 DEF PreviewInv
    <2>2. CASE TurnPage
      BY <2>2, PreviewKept DEF TurnPage
    <2>3. CASE PostWritePreview
      BY <2>3, PreviewAnswers
    <2>4. CASE ExecuteTicket
      <3>1. answer.kind = "ok" /\ record = CanonicalOps(batch) /\ page \in Pages
        BY <2>4 DEF ExecuteTicket, PreviewInv
      <3>2. RowsOfForm(posted')
        BY <2>4, <3>1 DEF ExecuteTicket, RowsOfForm
      <3> QED
        BY <2>4, <3>1, <3>2, PreviewKept DEF ExecuteTicket
    <2>5. CASE TicketFails
      BY <2>5, PreviewKept DEF TicketFails, PreviewInv
    <2>6. CASE StartOver
      <3>1. answer'.kind = "none" /\ record' = <<>> /\ posted' = <<>> /\ page' \in Pages
        BY <2>6 DEF StartOver, NoAnswer, PreviewInv
      <3>2. batch' \in Seq(Requests)
        BY <2>6 DEF StartOver
      <3> QED
        BY <3>1, <3>2 DEF PreviewInv
    <2>7. CASE UNCHANGED vars
      BY <2>7, PreviewKept DEF vars, PreviewInv
    <2> QED
      BY <2>1, <2>2, <2>3, <2>4, <2>5, <2>6, <2>7 DEF Next
  <1> QED
    BY <1>1, <1>2, PTL DEF Spec

\* A batch passes just when it fits the timetable as a whole, although the checks
\* take its operations one by one and forget those that were blocked.
THEOREM PreviewPassesWhenItFits == Spec => []PassesWhenItFits
  <1>1. PreviewInv => PassesWhenItFits
    BY DEF PreviewInv, PassesWhenItFits
  <1> QED
    BY <1>1, PreviewHolds, PTL

\* The token and the hash of an accepted batch do not depend on the order in
\* which it was written.
THEOREM PreviewHasOneName == Spec => []OneNamePerBatch
  <1>1. PreviewInv => OneNamePerBatch
    BY OneCanonicalForm DEF PreviewInv, OneNamePerBatch, AddsOnce
  <1> QED
    BY <1>1, PreviewHolds, PTL

\* The previewed rows say the batch: each operation once, with a priority asked
\* for it, and nothing else.
THEOREM PreviewSaysTheBatch == Spec => []RowsSayTheBatch
  <1>1. PreviewInv => RowsSayTheBatch
    <2> SUFFICES ASSUME PreviewInv, answer.kind = "ok" PROVE RowsSayTheBatch
      BY DEF RowsSayTheBatch
    <2>1. PICK p \in Pages : RowsFit(CanonicalOps(batch), p.rows)
                             /\ answer.rows = BuildRows(CanonicalOps(batch), p.rows)
      BY DEF PreviewInv, RowsOfForm
    <2>2. batch \in Seq(Requests) /\ WellShaped(batch) /\ FitsTimetable(batch) /\ p.rows \in Nat
      BY PreviewAssumption DEF PreviewInv
    <2>3. SayTheBatch(answer.rows, batch)
      BY <2>1, <2>2, RowsAreTheBatch
    <2> QED
      BY <2>3 DEF SayTheBatch, RowsSayTheBatch
  <1> QED
    BY <1>1, PreviewHolds, PTL

\* The worker posts the rows that were previewed, into whatever form it finds.
THEOREM PreviewIsPosted == Spec => []PostedAsPreviewed
  <1>1. PreviewInv => PostedAsPreviewed
    <2> SUFFICES ASSUME PreviewInv, posted # <<>> PROVE PostedAsPreviewed
      BY DEF PostedAsPreviewed
    <2>1. PICK p \in Pages : RowsFit(CanonicalOps(batch), p.rows)
                             /\ answer.rows = BuildRows(CanonicalOps(batch), p.rows)
      BY DEF PreviewInv, RowsOfForm
    <2>2. PICK q \in Pages : RowsFit(CanonicalOps(batch), q.rows)
                             /\ posted = BuildRows(CanonicalOps(batch), q.rows)
      BY DEF PreviewInv, RowsOfForm
    <2>3. batch \in Seq(Requests) /\ p.rows \in Nat /\ q.rows \in Nat
      BY PreviewAssumption DEF PreviewInv
    <2> DEFINE ops == CanonicalOps(batch)
    <2>4. /\ Asked(answer.rows) = 1..Len(ops)
          /\ \A r \in 1..Len(ops) : answer.rows[r]
               = [D |-> ops[r].action, C |-> ops[r].course, T |-> ops[r].priority]
      BY <2>1, <2>3, RowsOfBatch
    <2>5. /\ Asked(posted) = 1..Len(ops)
          /\ \A r \in 1..Len(ops) : posted[r]
               = [D |-> ops[r].action, C |-> ops[r].course, T |-> ops[r].priority]
      BY <2>2, <2>3, RowsOfBatch
    <2> HIDE DEF ops
    <2> QED
      BY <2>4, <2>5 DEF PostedAsPreviewed
  <1> QED
    BY <1>1, PreviewHolds, PTL

=============================================================================
