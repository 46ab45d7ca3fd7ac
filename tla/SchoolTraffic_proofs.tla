------------------------- MODULE SchoolTraffic_proofs -------------------------
(***************************************************************************)
(* The school gate: whatever a process sends to the school, and however    *)
(* its tasks end, no slot of the two semaphores is lost or doubled, and    *)
(* nobody who waits is passed, for every number of tasks and every         *)
(* capacity.                                                               *)
(***************************************************************************)
EXTENDS SchoolTraffic, FiniteSetTheorems, SequenceTheorems, TLAPS

-----------------------------------------------------------------------------
(* Lines.                                                                   *)

\* Who waits in a line, each once.
Line(s, S) == s \in Seq(Tasks) /\ IsInjective(s) /\ ToSet(s) = S

LEMMA EmptyLine ==
  ASSUME NEW s, NEW S, Line(s, S)
  PROVE  s = <<>> <=> S = {}
  <1>1. s \in Seq(Tasks) /\ Len(s) \in Nat /\ DOMAIN s = 1..Len(s) /\ S = {s[i] : i \in 1..Len(s)}
    BY DEF Line, ToSet
  <1>2. s = <<>> <=> Len(s) = 0
    BY <1>1
  <1>3. Len(s) # 0 => s[1] \in S
    BY <1>1
  <1> QED
    BY <1>1, <1>2, <1>3

\* Who comes joins the end of the line.
LEMMA JoinLine ==
  ASSUME NEW s, NEW S, Line(s, S), NEW c \in Tasks, c \notin S
  PROVE  Line(Append(s, c), S \cup {c}) /\ Append(s, c) # <<>>
  <1>1. /\ Append(s, c) \in Seq(Tasks) /\ Append(s, c) # <<>>
        /\ DOMAIN Append(s, c) = 1..(Len(s) + 1)
        /\ \A i \in 1..Len(s) : Append(s, c)[i] = s[i]
        /\ Append(s, c)[Len(s) + 1] = c
        /\ Len(s) \in Nat /\ DOMAIN s = 1..Len(s)
    BY DEF Line
  <1>2. \A i \in 1..(Len(s) + 1) : i \in 1..Len(s) \/ i = Len(s) + 1
    BY <1>1
  <1>3. \A i \in 1..Len(s) : s[i] # c
    BY <1>1 DEF Line, ToSet
  <1>4. IsInjective(Append(s, c))
    BY <1>1, <1>2, <1>3 DEF Line, IsInjective
  <1>5. ToSet(Append(s, c)) = S \cup {c}
    BY <1>1, <1>2 DEF Line, ToSet
  <1> QED
    BY <1>1, <1>4, <1>5 DEF Line

\* The head of the line is served.
LEMMA ServeLine ==
  ASSUME NEW s, NEW S, Line(s, S), s # <<>>
  PROVE  Head(s) \in S /\ Line(Tail(s), S \ {Head(s)})
  <1>1. /\ Len(s) \in Nat \ {0} /\ DOMAIN s = 1..Len(s) /\ Head(s) = s[1]
        /\ Tail(s) \in Seq(Tasks) /\ DOMAIN Tail(s) = 1..(Len(s) - 1)
        /\ \A i \in 1..(Len(s) - 1) : Tail(s)[i] = s[i + 1]
    BY DEF Line
  <1>2. Head(s) \in S
    BY <1>1 DEF Line, ToSet
  <1>3. IsInjective(Tail(s))
    BY <1>1 DEF Line, IsInjective
  <1>4. ToSet(Tail(s)) = S \ {Head(s)}
    <2>1. ASSUME NEW i \in 1..(Len(s) - 1) PROVE Tail(s)[i] \in S \ {Head(s)}
      <3>1. i + 1 \in 1..Len(s) /\ 1 \in 1..Len(s) /\ i + 1 # 1
        BY <1>1
      <3> QED
        BY <1>1, <3>1 DEF Line, ToSet, IsInjective
    <2>2. ASSUME NEW x \in S \ {Head(s)} PROVE \E i \in 1..(Len(s) - 1) : Tail(s)[i] = x
      <3>1. PICK k \in 1..Len(s) : s[k] = x
        BY <1>1 DEF Line, ToSet
      <3>2. k - 1 \in 1..(Len(s) - 1) /\ Tail(s)[k - 1] = x
        BY <1>1, <3>1
      <3> QED
        BY <3>2
    <2>3. ToSet(Tail(s)) = {Tail(s)[i] : i \in 1..(Len(s) - 1)}
      BY <1>1 DEF ToSet
    <2> QED
      BY <2>1, <2>2, <2>3
  <1> QED
    BY <1>1, <1>2, <1>3, <1>4 DEF Line

\* Who is taken out of a line leaves the others in their order.
LEMMA TakeFromLine ==
  ASSUME NEW s, NEW S, Line(s, S), NEW c, NEW k \in 1..Len(s), s[k] = c
  PROVE  LET q == RemoveFirst(s, c)
         IN  /\ q \in Seq(Tasks) /\ Len(q) = Len(s) - 1
             /\ \A i \in 1..(Len(s) - 1) : q[i] = IF i < k THEN s[i] ELSE s[i + 1]
  <1>1. s \in Seq(Tasks) /\ Len(s) \in Nat /\ DOMAIN s = 1..Len(s)
    BY DEF Line
  <1>2. k \in 1..Len(s) /\ s[k] = c
    OBVIOUS
  <1>3. {i \in 1..Len(s) : s[i] = c} = {k}
    BY <1>1, <1>2 DEF Line, IsInjective
  <1>4. Min({k}) = k
    BY DEF Min
  <1>5. SelectInSeq(s, LAMBDA v : v = c) = k
    BY <1>3, <1>4 DEF SelectInSeq
  <1>6. RemoveFirst(s, c) = RemoveAt(s, k)
    BY <1>2, <1>5 DEF RemoveFirst
  <1> DEFINE q == RemoveAt(s, k)
  <1>7. /\ q \in Seq(Tasks) /\ Len(q) = Len(s) - 1
        /\ \A i \in 1..(Len(s) - 1) : q[i] = IF i < k THEN s[i] ELSE s[i + 1]
    <2>1. /\ SubSeq(s, 1, k - 1) \in Seq(Tasks) /\ Len(SubSeq(s, 1, k - 1)) = k - 1
          /\ \A i \in 1..(k - 1) : SubSeq(s, 1, k - 1)[i] = s[i]
      BY <1>1, <1>2
    <2>2. /\ SubSeq(s, k + 1, Len(s)) \in Seq(Tasks)
          /\ Len(SubSeq(s, k + 1, Len(s))) = Len(s) - k
          /\ \A i \in 1..(Len(s) - k) : SubSeq(s, k + 1, Len(s))[i] = s[k + i]
      <3>1. \A i \in (k + 1)..Len(s) : s[i] \in Tasks
        <4>1. \A i \in 1..Len(s) : s[i] \in Tasks
          BY <1>1
        <4> QED
          BY <1>2, <4>1
      <3> DEFINE t == SubSeq(s, k + 1, Len(s))
      <3>4. /\ t \in Seq(Tasks)
            /\ Len(t) = IF k + 1 <= Len(s) THEN Len(s) - (k + 1) + 1 ELSE 0
            /\ \A i \in 1..(Len(s) - (k + 1) + 1) : t[i] = s[k + 1 + i - 1]
        <4>1. k + 1 \in Int /\ Len(s) \in Int
          BY <1>1, <1>2
        <4> QED
          BY <3>1, <4>1, SubSeqProperties
      <3> HIDE DEF t
      <3>2. Len(t) = Len(s) - k
        <4>1. k \in 1..Len(s) /\ Len(s) \in Nat
          BY <1>1, <1>2
        <4>2. CASE k = Len(s)
          BY <3>4, <4>1, <4>2
        <4>3. CASE k # Len(s)
          BY <3>4, <4>1, <4>3
        <4> QED
          BY <4>2, <4>3
      <3>3. /\ Len(s) - (k + 1) + 1 = Len(s) - k
            /\ \A i \in 1..(Len(s) - k) : k + 1 + i - 1 = k + i
        BY <1>1, <1>2
      <3> QED
        BY <1>1, <1>2, <3>2, <3>3, <3>4 DEF t
    <2>3. q = SubSeq(s, 1, k - 1) \o SubSeq(s, k + 1, Len(s))
      BY DEF RemoveAt
    <2>4. /\ q \in Seq(Tasks) /\ Len(q) = k - 1 + (Len(s) - k)
          /\ \A i \in 1..(k - 1 + (Len(s) - k)) :
               q[i] = IF i <= k - 1 THEN SubSeq(s, 1, k - 1)[i]
                                    ELSE SubSeq(s, k + 1, Len(s))[i - (k - 1)]
      <3> HIDE DEF q
      <3> DEFINE t == SubSeq(s, 1, k - 1)
                 u == SubSeq(s, k + 1, Len(s))
      <3>1. /\ t \o u \in Seq(Tasks) /\ Len(t \o u) = Len(t) + Len(u)
            /\ \A i \in 1..(Len(t) + Len(u)) :
                 (t \o u)[i] = IF i <= Len(t) THEN t[i] ELSE u[i - Len(t)]
        <4> HIDE DEF t, u
        <4>1. t \in Seq(Tasks) /\ u \in Seq(Tasks)
          BY <2>1, <2>2 DEF t, u
        <4> QED
          BY <4>1, ConcatProperties
      <3> QED
        BY <2>1, <2>2, <2>3, <3>1
    <2>5. k - 1 + (Len(s) - k) = Len(s) - 1
      BY <1>1, <1>2
    <2>6. ASSUME NEW i \in 1..(Len(s) - 1) PROVE q[i] = IF i < k THEN s[i] ELSE s[i + 1]
      <3> HIDE DEF q
      <3>1. CASE i < k
        BY <1>1, <1>2, <2>1, <2>4, <2>5, <3>1
      <3>2. CASE ~(i < k)
        <4>1. i - (k - 1) \in 1..(Len(s) - k) /\ k + (i - (k - 1)) = i + 1 /\ ~(i <= k - 1)
          BY <1>1, <1>2, <3>2
        <4> QED
          BY <2>2, <2>4, <2>5, <3>2, <4>1
      <3> QED
        BY <3>1, <3>2
    <2> QED
      BY <2>4, <2>5, <2>6
  <1> QED
    BY <1>6, <1>7

\* Who is cancelled leaves the line from wherever it is.
LEMMA QuitLine ==
  ASSUME NEW s, NEW S, Line(s, S), NEW c \in S
  PROVE  Line(RemoveFirst(s, c), S \ {c})
  <1>1. s \in Seq(Tasks) /\ Len(s) \in Nat /\ DOMAIN s = 1..Len(s)
    BY DEF Line
  <1>2. PICK k \in 1..Len(s) : s[k] = c
    BY <1>1 DEF Line, ToSet
  <1> DEFINE q == RemoveFirst(s, c)
  <1>3. /\ q \in Seq(Tasks) /\ Len(q) = Len(s) - 1
        /\ \A i \in 1..(Len(s) - 1) : q[i] = IF i < k THEN s[i] ELSE s[i + 1]
    BY <1>2, TakeFromLine
  <1> HIDE DEF q
  <1>4. DOMAIN q = 1..(Len(s) - 1)
    BY <1>1, <1>2, <1>3
  <1>5. IsInjective(q)
    <2> SUFFICES ASSUME NEW i \in 1..(Len(s) - 1), NEW j \in 1..(Len(s) - 1), q[i] = q[j]
                 PROVE  i = j
      BY <1>4 DEF IsInjective
    <2> DEFINE at(n) == IF n < k THEN n ELSE n + 1
    <2>1. at(i) \in 1..Len(s) /\ at(j) \in 1..Len(s) /\ s[at(i)] = s[at(j)]
      BY <1>1, <1>2, <1>3
    <2>2. at(i) = at(j)
      BY <1>1, <2>1 DEF Line, IsInjective
    <2> QED
      BY <1>1, <1>2, <2>2
  <1>6. ToSet(q) = S \ {c}
    <2>1. ASSUME NEW i \in 1..(Len(s) - 1) PROVE q[i] \in S \ {c}
      <3> DEFINE m == IF i < k THEN i ELSE i + 1
      <3>1. m \in 1..Len(s) /\ m # k /\ q[i] = s[m]
        BY <1>1, <1>2, <1>3
      <3> QED
        BY <1>1, <1>2, <3>1 DEF Line, ToSet, IsInjective
    <2>2. ASSUME NEW x \in S \ {c} PROVE \E i \in 1..(Len(s) - 1) : q[i] = x
      <3>1. PICK m \in 1..Len(s) : s[m] = x
        BY <1>1 DEF Line, ToSet
      <3>2. m # k
        BY <1>2, <3>1
      <3> DEFINE i == IF m < k THEN m ELSE m - 1
      <3>3. i \in 1..(Len(s) - 1) /\ q[i] = x
        BY <1>1, <1>2, <1>3, <3>1, <3>2
      <3> QED
        BY <3>3
    <2> QED
      BY <1>4, <2>1, <2>2 DEF ToSet
  <1> QED
    BY <1>3, <1>5, <1>6 DEF Line, q

-----------------------------------------------------------------------------
(* The two semaphores.  Slots are counted over all tasks but those in X:    *)
(* `g` slots of the school semaphore and `l` of the captcha semaphore are   *)
(* in the hands of X, or of nobody, while they pass from one to the next.   *)

Stages == {"none"} \cup Waiting \cup Inside \cup Ended

Request == [stage : Stages, tries : 0..MaxSends, laned : BOOLEAN]

Net == [gate : Nat, gateLine : Seq(Tasks), lane : Nat, laneLine : Seq(Tasks),
        call : [Tasks -> Request]]

At(n, X, S) == {c \in Tasks \ X : n.call[c].stage \in S}

Slots(n, X) == At(n, X, Inside)
Lanes(n, X) == {c \in At(n, X, Inside \cup {"gate"}) : n.call[c].laned}

Balance(n, X, g, l) ==
  /\ n \in Net
  /\ IsFiniteSet(Slots(n, X)) /\ n.gate + Cardinality(Slots(n, X)) + g = Capacity
  /\ IsFiniteSet(Lanes(n, X)) /\ n.lane + Cardinality(Lanes(n, X)) + l = 1
  /\ n.gateLine # <<>> => n.gate = 0
  /\ n.laneLine # <<>> => n.lane = 0
  /\ Line(n.gateLine, At(n, X, {"gate"}))
  /\ Line(n.laneLine, At(n, X, {"lane"}))
  /\ \A c \in At(n, X, {"lane"}) : n.call[c].laned

\* What a request holds of each semaphore.
SlotsOf(r) == IF r.stage \in Inside THEN 1 ELSE 0
LanesOf(r) == IF r.laned /\ r.stage \in Inside \cup {"gate"} THEN 1 ELSE 0

\* All requests but that of c are the same.
SameElse(n, m, c) == \A d \in Tasks \ {c} : m.call[d] = n.call[d]

\* One more, or one less, in a finite set.
LEMMA CountOne ==
  ASSUME NEW S, IsFiniteSet(S), NEW c
  PROVE  /\ Cardinality(S) \in Nat
         /\ IsFiniteSet(S \ {c})
         /\ Cardinality(S \ {c}) = Cardinality(S) - (IF c \in S THEN 1 ELSE 0)
         /\ IsFiniteSet(S \cup {c})
         /\ Cardinality(S \cup {c}) = Cardinality(S) + (IF c \in S THEN 0 ELSE 1)
  <1>1. Cardinality(S) \in Nat
    BY FS_CardinalityType
  <1>2. /\ IsFiniteSet(S \ {c})
        /\ Cardinality(S \ {c}) = IF c \in S THEN Cardinality(S) - 1 ELSE Cardinality(S)
    BY FS_RemoveElement
  <1>3. /\ IsFiniteSet(S \cup {c})
        /\ Cardinality(S \cup {c}) = IF c \in S THEN Cardinality(S) ELSE Cardinality(S) + 1
    BY FS_AddElement
  <1> QED
    BY <1>1, <1>2, <1>3

\* A request is taken out of the count, and out of the line it was in ...
LEMMA TakeOut ==
  ASSUME NEW n, NEW g \in Int, NEW l \in Int, Balance(n, {}, g, l), NEW c \in Tasks,
         NEW m \in Net, m.call = n.call, m.gate = n.gate, m.lane = n.lane,
         m.gateLine # <<>> => m.gate = 0, m.laneLine # <<>> => m.lane = 0,
         Line(m.gateLine, At(n, {}, {"gate"}) \ {c}),
         Line(m.laneLine, At(n, {}, {"lane"}) \ {c})
  PROVE  Balance(m, {c}, g + SlotsOf(n.call[c]), l + LanesOf(n.call[c]))
  <1> DEFINE S == Slots(n, {})
             L == Lanes(n, {})
  <1>1. n.call[c] \in Request /\ n.gate \in Nat /\ n.lane \in Nat
    BY DEF Balance, Net
  <1>2. Slots(m, {c}) = S \ {c} /\ Lanes(m, {c}) = L \ {c}
    BY DEF Slots, Lanes, At
  <1>3. /\ At(m, {c}, {"gate"}) = At(n, {}, {"gate"}) \ {c}
        /\ At(m, {c}, {"lane"}) = At(n, {}, {"lane"}) \ {c}
    BY DEF At
  <1>4. /\ SlotsOf(n.call[c]) = IF c \in S THEN 1 ELSE 0
        /\ LanesOf(n.call[c]) = IF c \in L THEN 1 ELSE 0
    BY DEF Slots, Lanes, At, SlotsOf, LanesOf
  <1>5. IsFiniteSet(S) /\ IsFiniteSet(L)
    BY DEF Balance
  <1>6. n.gate + Cardinality(S) + g = Capacity /\ n.lane + Cardinality(L) + l = 1
    BY DEF Balance
  <1> HIDE DEF S, L
  <1>7. /\ IsFiniteSet(S \ {c}) /\ Cardinality(S) \in Nat
        /\ Cardinality(S \ {c}) = Cardinality(S) - SlotsOf(n.call[c])
    BY <1>4, <1>5, CountOne
  <1>8. /\ IsFiniteSet(L \ {c}) /\ Cardinality(L) \in Nat
        /\ Cardinality(L \ {c}) = Cardinality(L) - LanesOf(n.call[c])
    BY <1>4, <1>5, CountOne
  <1>9. SlotsOf(n.call[c]) \in {0, 1} /\ LanesOf(n.call[c]) \in {0, 1}
    BY DEF SlotsOf, LanesOf
  <1>10. m.gate + Cardinality(S \ {c}) + (g + SlotsOf(n.call[c])) = Capacity
    BY <1>1, <1>6, <1>7, <1>9, GateAssumption
  <1>11. m.lane + Cardinality(L \ {c}) + (l + LanesOf(n.call[c])) = 1
    BY <1>1, <1>6, <1>8, <1>9
  <1>12. \A d \in At(m, {c}, {"lane"}) : m.call[d].laned
    BY DEF Balance, At
  <1> QED
    BY <1>2, <1>3, <1>7, <1>8, <1>10, <1>11, <1>12 DEF Balance

\* ... and put back with what it holds by then, or in a line.
LEMMA PutBack ==
  ASSUME NEW n, NEW g \in Int, NEW l \in Int, NEW c \in Tasks, Balance(n, {c}, g, l),
         NEW m \in Net, SameElse(n, m, c),
         m.gateLine # <<>> => m.gate = 0, m.laneLine # <<>> => m.lane = 0,
         Line(m.gateLine, At(m, {}, {"gate"})), Line(m.laneLine, At(m, {}, {"lane"})),
         m.call[c].stage = "lane" => m.call[c].laned
  PROVE  Balance(m, {}, g + n.gate - m.gate - SlotsOf(m.call[c]),
                        l + n.lane - m.lane - LanesOf(m.call[c]))
  <1> DEFINE S == Slots(n, {c})
             L == Lanes(n, {c})
  <1>1. m.call[c] \in Request /\ {m.gate, m.lane, n.gate, n.lane} \subseteq Nat
    BY DEF Balance, Net
  <1>2. /\ Slots(m, {}) = IF SlotsOf(m.call[c]) = 1 THEN S \cup {c} ELSE S
        /\ c \notin S /\ SlotsOf(m.call[c]) \in {0, 1}
    BY DEF Slots, At, SameElse, SlotsOf
  <1>3. /\ Lanes(m, {}) = IF LanesOf(m.call[c]) = 1 THEN L \cup {c} ELSE L
        /\ c \notin L /\ LanesOf(m.call[c]) \in {0, 1}
    BY DEF Lanes, At, SameElse, LanesOf
  <1>5. IsFiniteSet(S) /\ IsFiniteSet(L)
    BY DEF Balance
  <1>6. n.gate + Cardinality(S) + g = Capacity /\ n.lane + Cardinality(L) + l = 1
    BY DEF Balance
  <1> HIDE DEF S, L
  <1>7. /\ IsFiniteSet(Slots(m, {})) /\ Cardinality(S) \in Nat
        /\ Cardinality(Slots(m, {})) = Cardinality(S) + SlotsOf(m.call[c])
    <2>1. /\ Cardinality(S) \in Nat /\ IsFiniteSet(S \cup {c})
          /\ Cardinality(S \cup {c}) = Cardinality(S) + 1
      BY <1>2, <1>5, CountOne
    <2>2. CASE SlotsOf(m.call[c]) = 1
      BY <1>2, <2>1, <2>2
    <2>3. CASE SlotsOf(m.call[c]) = 0
      BY <1>2, <1>5, <2>1, <2>3
    <2> QED
      BY <1>2, <2>2, <2>3
  <1>8. /\ IsFiniteSet(Lanes(m, {})) /\ Cardinality(L) \in Nat
        /\ Cardinality(Lanes(m, {})) = Cardinality(L) + LanesOf(m.call[c])
    <2>1. /\ Cardinality(L) \in Nat /\ IsFiniteSet(L \cup {c})
          /\ Cardinality(L \cup {c}) = Cardinality(L) + 1
      BY <1>3, <1>5, CountOne
    <2>2. CASE LanesOf(m.call[c]) = 1
      BY <1>3, <2>1, <2>2
    <2>3. CASE LanesOf(m.call[c]) = 0
      BY <1>3, <1>5, <2>1, <2>3
    <2> QED
      BY <1>3, <2>2, <2>3
  <1>9. m.gate + Cardinality(Slots(m, {})) + (g + n.gate - m.gate - SlotsOf(m.call[c])) = Capacity
    BY <1>1, <1>2, <1>6, <1>7, GateAssumption
  <1>10. m.lane + Cardinality(Lanes(m, {})) + (l + n.lane - m.lane - LanesOf(m.call[c])) = 1
    BY <1>1, <1>3, <1>6, <1>8
  <1>11. \A d \in At(m, {}, {"lane"}) : m.call[d].laned
    BY DEF Balance, At, SameElse
  <1> QED
    BY <1>7, <1>8, <1>9, <1>10, <1>11 DEF Balance

\* A line of m without c is that of n; with c it is one longer.
LEMMA Seats ==
  ASSUME NEW n, NEW m, NEW c \in Tasks, SameElse(n, m, c)
  PROVE  /\ m.call[c].stage = "gate" => At(m, {}, {"gate"}) = At(n, {c}, {"gate"}) \cup {c}
         /\ m.call[c].stage # "gate" => At(m, {}, {"gate"}) = At(n, {c}, {"gate"})
         /\ m.call[c].stage = "lane" => At(m, {}, {"lane"}) = At(n, {c}, {"lane"}) \cup {c}
         /\ m.call[c].stage # "lane" => At(m, {}, {"lane"}) = At(n, {c}, {"lane"})
  BY DEF At, SameElse

-----------------------------------------------------------------------------
(* Taking and giving back.                                                  *)

\* A new record of c is one of the network's.
LEMMA NetWith ==
  ASSUME NEW n \in Net, NEW c \in Tasks, NEW r \in Request
  PROVE  LET m == [n EXCEPT !.call[c] = r]
         IN  /\ m \in Net /\ m.gate = n.gate /\ m.lane = n.lane
             /\ m.gateLine = n.gateLine /\ m.laneLine = n.laneLine
             /\ m.call[c] = r /\ SameElse(n, m, c)
  BY DEF Net, SameElse

LEMMA OnWireNet ==
  ASSUME NEW n \in Net, NEW c \in Tasks
  PROVE  LET m == OnWire(n, c)
         IN  /\ m \in Net /\ m.gate = n.gate /\ m.lane = n.lane
             /\ m.gateLine = n.gateLine /\ m.laneLine = n.laneLine
             /\ m.call[c].stage = "wire" /\ m.call[c].laned = n.call[c].laned
             /\ SameElse(n, m, c)
  <1> DEFINE r == [n.call[c] EXCEPT !.stage = "wire", !.tries = 1]
  <1>1. r \in Request /\ r.stage = "wire" /\ r.laned = n.call[c].laned
    <2>1. n.call[c] \in Request /\ 1 \in 0..MaxSends
      BY GateAssumption DEF Net
    <2> QED
      BY <2>1 DEF Request, Stages, Inside
  <1>2. OnWire(n, c) = [n EXCEPT !.call[c] = r]
    BY DEF OnWire, Net
  <1> HIDE DEF r
  <1> QED
    BY <1>1, <1>2, NetWith

\* EnterGate takes a slot or joins the line.
LEMMA EnterGateNet ==
  ASSUME NEW n \in Net, NEW c \in Tasks
  PROVE  LET m == EnterGate(n, c)
         IN  /\ m \in Net /\ m.lane = n.lane /\ m.laneLine = n.laneLine
             /\ m.call[c].laned = n.call[c].laned /\ SameElse(n, m, c)
             /\ IF n.gate > 0
                  THEN /\ m.gate = n.gate - 1 /\ m.gateLine = n.gateLine
                       /\ m.call[c].stage = "wire"
                  ELSE /\ m.gate = 0 /\ n.gate = 0 /\ m.gateLine = Append(n.gateLine, c)
                       /\ m.call[c].stage = "gate"
  <1> DEFINE m == EnterGate(n, c)
  <1>1. n.gate \in Nat /\ n.call[c] \in Request
    BY DEF Net
  <1>2. CASE n.gate > 0
    <2> DEFINE k == [n EXCEPT !.gate = @ - 1]
    <2>1. /\ k \in Net /\ k.gate = n.gate - 1 /\ k.lane = n.lane /\ k.call = n.call
          /\ k.gateLine = n.gateLine /\ k.laneLine = n.laneLine
      BY <1>1, <1>2 DEF Net
    <2>2. m = OnWire(k, c)
      BY <1>2 DEF EnterGate
    <2> HIDE DEF k
    <2> QED
      BY <1>2, <2>1, <2>2, OnWireNet DEF SameElse
  <1>3. CASE ~(n.gate > 0)
    <2> DEFINE r == [n.call[c] EXCEPT !.stage = "gate"]
               k == [n EXCEPT !.gateLine = Append(@, c)]
    <2>1. r \in Request /\ r.stage = "gate" /\ r.laned = n.call[c].laned
      BY <1>1 DEF Request, Stages, Waiting
    <2>2. /\ k \in Net /\ k.gate = n.gate /\ k.lane = n.lane /\ k.call = n.call
          /\ k.gateLine = Append(n.gateLine, c) /\ k.laneLine = n.laneLine
      <3>1. n.gateLine \in Seq(Tasks)
        BY DEF Net
      <3>2. Append(n.gateLine, c) \in Seq(Tasks)
        BY <3>1
      <3> QED
        BY <3>2 DEF Net
    <2>3. m = [k EXCEPT !.call[c] = r]
      BY <1>3 DEF EnterGate, Net
    <2>4. n.gate = 0
      BY <1>1, <1>3
    <2> HIDE DEF r, k
    <2> QED
      BY <1>3, <2>1, <2>2, <2>3, <2>4, NetWith DEF SameElse
  <1> QED
    BY <1>2, <1>3

\* Either way the semaphores stay in balance.
LEMMA EntersGate ==
  ASSUME NEW n, NEW g \in Int, NEW l \in Int, NEW c \in Tasks, Balance(n, {c}, g, l)
  PROVE  LET m == EnterGate(n, c)
         IN  /\ Balance(m, {}, g, l - (IF n.call[c].laned THEN 1 ELSE 0))
             /\ SameElse(n, m, c)
             /\ m.call[c].stage \in {"gate", "wire"} /\ m.call[c].laned = n.call[c].laned
  <1> DEFINE m == EnterGate(n, c)
  <1>1. n \in Net /\ n.gate \in Nat /\ n.call[c] \in Request /\ n.lane \in Nat
    BY DEF Balance, Net
  <1>2. c \notin At(n, {c}, {"gate"}) /\ c \notin At(n, {c}, {"lane"})
    BY DEF At
  <1>3. CASE n.gate > 0
    <2>1. /\ m \in Net /\ m.gate = n.gate - 1 /\ m.lane = n.lane
          /\ m.gateLine = n.gateLine /\ m.laneLine = n.laneLine
          /\ m.call[c].stage = "wire" /\ m.call[c].laned = n.call[c].laned
          /\ SameElse(n, m, c)
      BY <1>1, <1>3, EnterGateNet
    <2> HIDE DEF m
    <2>2. m.gateLine # <<>> => m.gate = 0
      BY <1>3, <2>1 DEF Balance
    <2>3. m.laneLine # <<>> => m.lane = 0
      BY <2>1 DEF Balance
    <2>4. Line(m.gateLine, At(m, {}, {"gate"})) /\ Line(m.laneLine, At(m, {}, {"lane"}))
      <3>1. /\ At(m, {}, {"gate"}) = At(n, {c}, {"gate"})
            /\ At(m, {}, {"lane"}) = At(n, {c}, {"lane"})
        <4>1. SameElse(n, m, c) /\ m.call[c].stage \notin {"lane", "gate"}
          BY <2>1
        <4> QED
          BY <4>1, Seats
      <3> QED
        BY <2>1, <3>1 DEF Balance
    <2>5. SlotsOf(m.call[c]) = 1 /\ LanesOf(m.call[c]) = IF n.call[c].laned THEN 1 ELSE 0
      BY <2>1 DEF SlotsOf, LanesOf, Inside
    <2>6. Balance(m, {}, g + n.gate - m.gate - SlotsOf(m.call[c]),
                         l + n.lane - m.lane - LanesOf(m.call[c]))
      BY <2>1, <2>2, <2>3, <2>4, PutBack
    <2>7. /\ g + n.gate - m.gate - SlotsOf(m.call[c]) = g
          /\ l + n.lane - m.lane - LanesOf(m.call[c]) = l - (IF n.call[c].laned THEN 1 ELSE 0)
      BY <1>1, <2>1, <2>5
    <2> QED
      BY <2>1, <2>6, <2>7 DEF m
  <1>4. CASE ~(n.gate > 0)
    <2>1. /\ m \in Net /\ m.gate = n.gate /\ m.gate = 0 /\ m.lane = n.lane
          /\ m.gateLine = Append(n.gateLine, c) /\ m.laneLine = n.laneLine
          /\ m.call[c].stage = "gate" /\ m.call[c].laned = n.call[c].laned
          /\ SameElse(n, m, c)
      BY <1>1, <1>4, EnterGateNet
    <2> HIDE DEF m
    <2>3. m.laneLine # <<>> => m.lane = 0
      BY <2>1 DEF Balance
    <2>4. Line(m.gateLine, At(m, {}, {"gate"})) /\ Line(m.laneLine, At(m, {}, {"lane"}))
      <3>1. /\ At(m, {}, {"gate"}) = At(n, {c}, {"gate"}) \cup {c}
            /\ At(m, {}, {"lane"}) = At(n, {c}, {"lane"})
        <4>1. SameElse(n, m, c) /\ m.call[c].stage = "gate"
          BY <2>1
        <4> QED
          BY <4>1, Seats
      <3>2. /\ Line(n.gateLine, At(n, {c}, {"gate"}))
            /\ Line(n.laneLine, At(n, {c}, {"lane"}))
        BY DEF Balance
      <3> QED
        <4>1. Line(Append(n.gateLine, c), At(n, {c}, {"gate"}) \cup {c})
          BY <1>2, <3>2, JoinLine
        <4> QED
          BY <2>1, <3>1, <3>2, <4>1
    <2>5. SlotsOf(m.call[c]) = 0 /\ LanesOf(m.call[c]) = IF n.call[c].laned THEN 1 ELSE 0
      BY <2>1 DEF SlotsOf, LanesOf, Inside
    <2>6. Balance(m, {}, g + n.gate - m.gate - SlotsOf(m.call[c]),
                         l + n.lane - m.lane - LanesOf(m.call[c]))
      BY <2>1, <2>3, <2>4, PutBack
    <2>7. /\ g + n.gate - m.gate - SlotsOf(m.call[c]) = g
          /\ l + n.lane - m.lane - LanesOf(m.call[c]) = l - (IF n.call[c].laned THEN 1 ELSE 0)
      BY <1>1, <2>1, <2>5
    <2> QED
      BY <2>1, <2>6, <2>7 DEF m
  <1> QED
    BY <1>3, <1>4

\* A slot that nobody waits for changes hands, and no request does.
LEMMA SlotMoves ==
  ASSUME NEW n, NEW X, NEW g \in Int, NEW l \in Int, Balance(n, X, g, l),
         NEW m \in Net, m.call = n.call, m.gateLine = n.gateLine, m.laneLine = n.laneLine,
         m.gateLine # <<>> => m.gate = 0, m.laneLine # <<>> => m.lane = 0
  PROVE  Balance(m, X, g + n.gate - m.gate, l + n.lane - m.lane)
  <1> DEFINE S == Slots(n, X)
             L == Lanes(n, X)
  <1>1. {m.gate, m.lane, n.gate, n.lane} \subseteq Nat
    BY DEF Balance, Net
  <1>2. /\ Slots(m, X) = S /\ Lanes(m, X) = L
        /\ At(m, X, {"gate"}) = At(n, X, {"gate"}) /\ At(m, X, {"lane"}) = At(n, X, {"lane"})
    BY DEF Slots, Lanes, At
  <1>3. IsFiniteSet(S) /\ IsFiniteSet(L)
    BY DEF Balance
  <1>4. n.gate + Cardinality(S) + g = Capacity /\ n.lane + Cardinality(L) + l = 1
    BY DEF Balance
  <1> HIDE DEF S, L
  <1>5. Cardinality(S) \in Nat /\ Cardinality(L) \in Nat
    BY <1>3, FS_CardinalityType
  <1>6. m.gate + Cardinality(S) + (g + n.gate - m.gate) = Capacity
    BY <1>1, <1>4, <1>5, GateAssumption
  <1>7. m.lane + Cardinality(L) + (l + n.lane - m.lane) = 1
    BY <1>1, <1>4, <1>5
  <1> QED
    BY <1>2, <1>3, <1>6, <1>7 DEF Balance

\* EnterLane takes the captcha slot and enters the gate, or joins the line.
LEMMA EntersLane ==
  ASSUME NEW n, NEW g \in Int, NEW l \in Int, NEW c \in Tasks, Balance(n, {c}, g, l),
         n.call[c].laned
  PROVE  LET m == EnterLane(n, c)
         IN  /\ Balance(m, {}, g, l) /\ SameElse(n, m, c)
             /\ m.call[c].stage \in Waiting \cup Inside
  <1> DEFINE m == EnterLane(n, c)
  <1>1. n \in Net /\ n.gate \in Nat /\ n.call[c] \in Request /\ n.lane \in Nat
    BY DEF Balance, Net
  <1>2. c \notin At(n, {c}, {"gate"}) /\ c \notin At(n, {c}, {"lane"})
    BY DEF At
  <1>3. CASE n.lane > 0
    <2> DEFINE k == [n EXCEPT !.lane = @ - 1]
    <2>1. /\ k \in Net /\ k.lane = n.lane - 1 /\ k.gate = n.gate /\ k.call = n.call
          /\ k.gateLine = n.gateLine /\ k.laneLine = n.laneLine
      BY <1>1, <1>3 DEF Net
    <2>2. m = EnterGate(k, c)
      BY <1>3 DEF EnterLane
    <2> HIDE DEF k
    <2>3. k.gateLine # <<>> => k.gate = 0
      BY <2>1 DEF Balance
    <2>4. k.laneLine # <<>> => k.lane = 0
      BY <1>3, <2>1 DEF Balance
    <2>5. Balance(k, {c}, g + n.gate - k.gate, l + n.lane - k.lane)
      BY <2>1, <2>3, <2>4, SlotMoves
    <2>6. g + n.gate - k.gate = g /\ l + n.lane - k.lane = l + 1 /\ l + 1 - 1 = l /\ l + 1 \in Int
      BY <1>1, <2>1
    <2>7. Balance(k, {c}, g, l + 1)
      BY <2>5, <2>6
    <2>8. /\ Balance(m, {}, g, l + 1 - (IF k.call[c].laned THEN 1 ELSE 0))
          /\ SameElse(k, m, c) /\ m.call[c].stage \in {"gate", "wire"}
      BY <2>2, <2>6, <2>7, EntersGate
    <2> QED
      BY <2>1, <2>6, <2>8 DEF SameElse, Waiting, Inside
  <1>4. CASE ~(n.lane > 0)
    <2>1. /\ m \in Net /\ m.gate = n.gate /\ m.lane = 0 /\ n.lane = 0
          /\ m.laneLine = Append(n.laneLine, c) /\ m.gateLine = n.gateLine
          /\ m.call[c].stage = "lane" /\ m.call[c].laned
          /\ SameElse(n, m, c)
      <3> DEFINE r == [n.call[c] EXCEPT !.stage = "lane"]
                 k == [n EXCEPT !.laneLine = Append(@, c)]
      <3>1. r \in Request /\ r.stage = "lane" /\ r.laned
        BY <1>1 DEF Request, Stages, Waiting
      <3>2. /\ k \in Net /\ k.gate = n.gate /\ k.lane = n.lane /\ k.call = n.call
            /\ k.laneLine = Append(n.laneLine, c) /\ k.gateLine = n.gateLine
        <4>1. n.laneLine \in Seq(Tasks)
          BY <1>1 DEF Net
        <4>2. Append(n.laneLine, c) \in Seq(Tasks)
          BY <4>1
        <4> QED
          BY <1>1, <4>2 DEF Net
      <3>3. m = [k EXCEPT !.call[c] = r]
        BY <1>1, <1>4 DEF EnterLane, Net
      <3>4. n.lane = 0
        BY <1>1, <1>4
      <3> HIDE DEF r, k
      <3> QED
        BY <3>1, <3>2, <3>3, <3>4, NetWith DEF SameElse
    <2> HIDE DEF m
    <2>3. m.gateLine # <<>> => m.gate = 0
      BY <2>1 DEF Balance
    <2>4. Line(m.gateLine, At(m, {}, {"gate"})) /\ Line(m.laneLine, At(m, {}, {"lane"}))
      <3>1. /\ At(m, {}, {"lane"}) = At(n, {c}, {"lane"}) \cup {c}
            /\ At(m, {}, {"gate"}) = At(n, {c}, {"gate"})
        <4>1. /\ SameElse(n, m, c)
              /\ m.call[c].stage = "lane" /\ m.call[c].stage # "gate"
          BY <2>1
        <4>2. At(m, {}, {"lane"}) = At(n, {c}, {"lane"}) \cup {c}
          BY <4>1, Seats
        <4>3. SameElse(n, m, c) /\ m.call[c].stage # "gate"
          BY <4>1
        <4>4. At(m, {}, {"gate"}) = At(n, {c}, {"gate"})
          BY <4>3, Seats
        <4> QED
          BY <4>2, <4>4
      <3>2. /\ Line(n.gateLine, At(n, {c}, {"gate"}))
            /\ Line(n.laneLine, At(n, {c}, {"lane"}))
        BY DEF Balance
      <3>3. Line(Append(n.laneLine, c), At(n, {c}, {"lane"}) \cup {c})
        BY <1>2, <3>2, JoinLine
      <3> QED
        BY <2>1, <3>1, <3>2, <3>3
    <2>5. SlotsOf(m.call[c]) = 0 /\ LanesOf(m.call[c]) = 0
      BY <2>1 DEF SlotsOf, LanesOf, Inside
    <2>6. Balance(m, {}, g + n.gate - m.gate - SlotsOf(m.call[c]),
                         l + n.lane - m.lane - LanesOf(m.call[c]))
      BY <2>1, <2>3, <2>4, PutBack
    <2>7. /\ g + n.gate - m.gate - SlotsOf(m.call[c]) = g
          /\ l + n.lane - m.lane - LanesOf(m.call[c]) = l
      BY <1>1, <2>1, <2>5
    <2> QED
      BY <2>1, <2>6, <2>7 DEF m, Waiting
  <1> QED
    BY <1>3, <1>4

\* A task with no request asks: it is in a line or on the wire.
LEMMA Asking ==
  ASSUME NEW n, Balance(n, {}, 0, 0), NEW c \in Tasks,
         n.call[c].stage \notin Waiting \cup Inside, NEW laned \in BOOLEAN
  PROVE  LET m == Ask(n, c, laned)
         IN  /\ Balance(m, {}, 0, 0) /\ SameElse(n, m, c)
             /\ m.call[c].stage \in Waiting \cup Inside
  <1> DEFINE r == [NoRequest EXCEPT !.laned = laned]
             k == [n EXCEPT !.call[c] = r]
  <1>1. n \in Net /\ n.call[c] \in Request /\ n.gate \in Nat /\ n.lane \in Nat
    BY DEF Balance, Net
  <1>2. r \in Request /\ r.stage = "none" /\ r.laned = laned
    BY GateAssumption DEF NoRequest, Request, Stages
  <1>3. /\ k \in Net /\ k.gate = n.gate /\ k.lane = n.lane /\ k.gateLine = n.gateLine
        /\ k.laneLine = n.laneLine /\ k.call[c] = r /\ SameElse(n, k, c)
    BY <1>1, <1>2, NetWith
  <1>4. /\ Ask(n, c, laned) = IF laned THEN EnterLane(k, c) ELSE EnterGate(k, c)
    BY DEF Ask
  <1> HIDE DEF r, k
  <1>5. Balance(k, {c}, 0, 0)
    <2>1. /\ Slots(k, {c}) = Slots(n, {}) /\ Lanes(k, {c}) = Lanes(n, {})
          /\ At(k, {c}, {"gate"}) = At(n, {}, {"gate"})
          /\ At(k, {c}, {"lane"}) = At(n, {}, {"lane"})
      BY <1>3 DEF Slots, Lanes, At, SameElse, Waiting, Inside
    <2>2. \A d \in At(k, {c}, {"lane"}) : k.call[d].laned
      BY <1>3 DEF Balance, At, SameElse, Waiting
    <2> QED
      BY <1>3, <2>1, <2>2 DEF Balance
  <1>6. CASE laned
    <2>1. k.call[c].laned /\ Ask(n, c, laned) = EnterLane(k, c)
      BY <1>2, <1>3, <1>4, <1>6
    <2>2. LET m == EnterLane(k, c)
          IN  /\ Balance(m, {}, 0, 0) /\ SameElse(k, m, c)
              /\ m.call[c].stage \in Waiting \cup Inside
      BY <1>5, <2>1, EntersLane
    <2> QED
      BY <1>3, <2>1, <2>2 DEF SameElse
  <1>7. CASE ~laned
    <2>1. k.call[c].laned = FALSE /\ 0 - 0 = 0
      BY <1>2, <1>3, <1>7
    <2> QED
      BY <1>3, <1>4, <1>5, <1>7, <2>1, EntersGate DEF SameElse, Waiting, Inside
  <1> QED
    BY <1>6, <1>7

\* What a step of another task may do to a request: serve it in its line.
Served(n, m, X) ==
  \A d \in Tasks \ X :
    \/ m.call[d] = n.call[d]
    \/ n.call[d].stage \in Waiting /\ m.call[d].stage \in Waiting \cup Inside

\* The head of a line is not in the other one.
LEMMA HeadAtGate ==
  ASSUME NEW n, n.gateLine # <<>>,
         Line(n.gateLine, At(n, {}, {"gate"})), Line(n.laneLine, At(n, {}, {"lane"}))
  PROVE  /\ Head(n.gateLine) \in Tasks /\ n.call[Head(n.gateLine)].stage = "gate"
         /\ Line(Tail(n.gateLine), At(n, {}, {"gate"}) \ {Head(n.gateLine)})
         /\ Line(n.laneLine, At(n, {}, {"lane"}) \ {Head(n.gateLine)})
  <1>1. /\ Head(n.gateLine) \in At(n, {}, {"gate"})
        /\ Line(Tail(n.gateLine), At(n, {}, {"gate"}) \ {Head(n.gateLine)})
    BY ServeLine
  <1>2. \A c \in At(n, {}, {"gate"}) : At(n, {}, {"lane"}) \ {c} = At(n, {}, {"lane"})
    BY DEF At
  <1>3. \A c \in At(n, {}, {"gate"}) : c \in Tasks /\ n.call[c].stage = "gate"
    BY DEF At
  <1> QED
    BY <1>1, <1>2, <1>3

LEMMA HeadAtLane ==
  ASSUME NEW n, n.laneLine # <<>>,
         Line(n.gateLine, At(n, {}, {"gate"})), Line(n.laneLine, At(n, {}, {"lane"}))
  PROVE  /\ Head(n.laneLine) \in Tasks /\ n.call[Head(n.laneLine)].stage = "lane"
         /\ Line(Tail(n.laneLine), At(n, {}, {"lane"}) \ {Head(n.laneLine)})
         /\ Line(n.gateLine, At(n, {}, {"gate"}) \ {Head(n.laneLine)})
  <1>1. /\ Head(n.laneLine) \in At(n, {}, {"lane"})
        /\ Line(Tail(n.laneLine), At(n, {}, {"lane"}) \ {Head(n.laneLine)})
    BY ServeLine
  <1>2. \A c \in At(n, {}, {"lane"}) : At(n, {}, {"gate"}) \ {c} = At(n, {}, {"gate"})
    BY DEF At
  <1>3. \A c \in At(n, {}, {"lane"}) : c \in Tasks /\ n.call[c].stage = "lane"
    BY DEF At
  <1> QED
    BY <1>1, <1>2, <1>3

\* A slot of the school in nobody's hands goes to the head of the line.
LEMMA LeavesGate ==
  ASSUME NEW n, NEW l \in Int, Balance(n, {}, 1, l)
  PROVE  Balance(LeaveGate(n), {}, 0, l) /\ Served(n, LeaveGate(n), {})
  <1> DEFINE m == LeaveGate(n)
  <1>1. n \in Net /\ n.gate \in Nat /\ n.lane \in Nat
    BY DEF Balance, Net
  <1>2. CASE n.gateLine = <<>>
    <2>1. /\ m \in Net /\ m.gate = n.gate + 1 /\ m.lane = n.lane /\ m.call = n.call
          /\ m.gateLine = n.gateLine /\ m.laneLine = n.laneLine
      BY <1>1, <1>2 DEF LeaveGate, Net
    <2> HIDE DEF m
    <2>2. m.laneLine # <<>> => m.lane = 0
      BY <2>1 DEF Balance
    <2>3. Balance(m, {}, 1 + n.gate - m.gate, l + n.lane - m.lane)
      BY <1>2, <2>1, <2>2, SlotMoves
    <2>4. 1 + n.gate - m.gate = 0 /\ l + n.lane - m.lane = l
      BY <1>1, <2>1
    <2> QED
      BY <2>1, <2>3, <2>4 DEF m, Served
  <1>3. CASE n.gateLine # <<>>
    <2> DEFINE c == Head(n.gateLine)
               k == [n EXCEPT !.gateLine = Tail(@)]
    <2>1. /\ c \in Tasks /\ n.call[c].stage = "gate"
          /\ Line(Tail(n.gateLine), At(n, {}, {"gate"}) \ {c})
          /\ Line(n.laneLine, At(n, {}, {"lane"}) \ {c})
      <3>1. Line(n.gateLine, At(n, {}, {"gate"})) /\ Line(n.laneLine, At(n, {}, {"lane"}))
        BY DEF Balance
      <3> QED
        BY <1>3, <3>1, HeadAtGate
    <2>2. m = OnWire(k, c)
      BY <1>3 DEF LeaveGate
    <2>3. /\ k \in Net /\ k.gate = n.gate /\ k.lane = n.lane /\ k.call = n.call
          /\ k.gateLine = Tail(n.gateLine) /\ k.laneLine = n.laneLine
      BY <1>1, <2>1 DEF Net, Line
    <2> HIDE DEF k, c, m
    <2>4. n.gate = 0
      BY <1>3 DEF Balance
    <2>5. k.laneLine # <<>> => k.lane = 0
      BY <2>3 DEF Balance
    <2>6. SlotsOf(n.call[c]) = 0
      BY <2>1 DEF SlotsOf, Inside
    <2>7. Balance(k, {c}, 1, l + LanesOf(n.call[c]))
      <3>1. Balance(k, {c}, 1 + SlotsOf(n.call[c]), l + LanesOf(n.call[c]))
        <4>1. /\ Line(k.gateLine, At(n, {}, {"gate"}) \ {c})
              /\ Line(k.laneLine, At(n, {}, {"lane"}) \ {c})
              /\ k.gateLine # <<>> => k.gate = 0
              /\ c \in Tasks /\ k \in Net
              /\ k.call = n.call /\ k.gate = n.gate /\ k.lane = n.lane
          BY <2>1, <2>3, <2>4
        <4>2. 0 \in Int /\ 1 \in Int
          OBVIOUS
        <4> QED
          BY <2>5, <4>1, <4>2, TakeOut
      <3> QED
        BY <2>6, <3>1
    <2>8. /\ m \in Net /\ m.gate = k.gate /\ m.lane = k.lane
          /\ m.gateLine = k.gateLine /\ m.laneLine = k.laneLine
          /\ m.call[c].stage = "wire" /\ m.call[c].laned = n.call[c].laned
          /\ SameElse(k, m, c)
      BY <2>1, <2>2, <2>3, OnWireNet
    <2>9. Line(m.gateLine, At(m, {}, {"gate"})) /\ Line(m.laneLine, At(m, {}, {"lane"}))
      <3>1. SameElse(k, m, c) /\ m.call[c].stage \notin {"gate", "lane"}
        BY <2>8
      <3>2. /\ At(m, {}, {"gate"}) = At(k, {c}, {"gate"})
            /\ At(m, {}, {"lane"}) = At(k, {c}, {"lane"})
        BY <2>1, <3>1, Seats
      <3> QED
        BY <2>7, <2>8, <3>2 DEF Balance
    <2>10. SlotsOf(m.call[c]) = 1 /\ LanesOf(m.call[c]) = LanesOf(n.call[c])
           /\ LanesOf(n.call[c]) \in {0, 1}
      BY <2>1, <2>8 DEF SlotsOf, LanesOf, Inside
    <2>11. Balance(m, {}, 1 + k.gate - m.gate - SlotsOf(m.call[c]),
                          l + LanesOf(n.call[c]) + k.lane - m.lane - LanesOf(m.call[c]))
      BY <2>1, <2>3, <2>4, <2>5, <2>7, <2>8, <2>9, <2>10, PutBack
    <2>12. /\ 1 + k.gate - m.gate - SlotsOf(m.call[c]) = 0
           /\ l + LanesOf(n.call[c]) + k.lane - m.lane - LanesOf(m.call[c]) = l
      BY <1>1, <2>3, <2>8, <2>10
    <2>13. Served(n, m, {})
      BY <2>1, <2>3, <2>8 DEF Served, SameElse, Waiting, Inside
    <2> QED
      BY <2>11, <2>12, <2>13 DEF m
  <1> QED
    BY <1>2, <1>3

\* And so does the captcha slot, whose next holder then enters the gate.
LEMMA LeavesLane ==
  ASSUME NEW n, Balance(n, {}, 0, 1)
  PROVE  Balance(LeaveLane(n), {}, 0, 0) /\ Served(n, LeaveLane(n), {})
  <1> DEFINE m == LeaveLane(n)
  <1>1. n \in Net /\ n.gate \in Nat /\ n.lane \in Nat
    BY DEF Balance, Net
  <1>2. CASE n.laneLine = <<>>
    <2>1. /\ m \in Net /\ m.lane = n.lane + 1 /\ m.gate = n.gate /\ m.call = n.call
          /\ m.gateLine = n.gateLine /\ m.laneLine = n.laneLine
      BY <1>1, <1>2 DEF LeaveLane, Net
    <2> HIDE DEF m
    <2>2. m.gateLine # <<>> => m.gate = 0
      BY <2>1 DEF Balance
    <2>3. Balance(m, {}, 0 + n.gate - m.gate, 1 + n.lane - m.lane)
      BY <1>2, <2>1, <2>2, SlotMoves
    <2>4. 0 + n.gate - m.gate = 0 /\ 1 + n.lane - m.lane = 0
      BY <1>1, <2>1
    <2> QED
      BY <2>1, <2>3, <2>4 DEF m, Served
  <1>3. CASE n.laneLine # <<>>
    <2> DEFINE c == Head(n.laneLine)
               k == [n EXCEPT !.laneLine = Tail(@)]
    <2>1. /\ c \in Tasks /\ n.call[c].stage = "lane"
          /\ Line(Tail(n.laneLine), At(n, {}, {"lane"}) \ {c})
          /\ Line(n.gateLine, At(n, {}, {"gate"}) \ {c})
      <3>1. Line(n.gateLine, At(n, {}, {"gate"})) /\ Line(n.laneLine, At(n, {}, {"lane"}))
        BY DEF Balance
      <3> QED
        BY <1>3, <3>1, HeadAtLane
    <2>2. m = EnterGate(k, c)
      BY <1>3 DEF LeaveLane
    <2>3. /\ k \in Net /\ k.gate = n.gate /\ k.lane = n.lane /\ k.call = n.call
          /\ k.laneLine = Tail(n.laneLine) /\ k.gateLine = n.gateLine
      BY <1>1, <2>1 DEF Net, Line
    <2>4. n.call[c].laned
      BY <2>1 DEF Balance, At
    <2> HIDE DEF k, c, m
    <2>5. n.lane = 0
      BY <1>3 DEF Balance
    <2>6. k.gateLine # <<>> => k.gate = 0
      BY <2>3 DEF Balance
    <2>7. SlotsOf(n.call[c]) = 0 /\ LanesOf(n.call[c]) = 0
      BY <2>1 DEF SlotsOf, LanesOf, Inside
    <2>8. Balance(k, {c}, 0, 1)
      <3>1. Balance(k, {c}, 0 + SlotsOf(n.call[c]), 1 + LanesOf(n.call[c]))
        <4>1. /\ Line(k.gateLine, At(n, {}, {"gate"}) \ {c})
              /\ Line(k.laneLine, At(n, {}, {"lane"}) \ {c})
              /\ k.laneLine # <<>> => k.lane = 0
              /\ c \in Tasks /\ k \in Net
              /\ k.call = n.call /\ k.gate = n.gate /\ k.lane = n.lane
          BY <2>1, <2>3, <2>5
        <4>2. 0 \in Int /\ 1 \in Int
          OBVIOUS
        <4> QED
          BY <2>6, <4>1, <4>2, TakeOut
      <3> QED
        BY <2>7, <3>1
    <2>9. /\ Balance(m, {}, 0, 1 - (IF k.call[c].laned THEN 1 ELSE 0))
          /\ SameElse(k, m, c) /\ m.call[c].stage \in {"gate", "wire"}
      <3>1. c \in Tasks /\ 0 \in Int /\ 1 \in Int
        BY <2>1
      <3>2. LET e == EnterGate(k, c)
            IN  /\ Balance(e, {}, 0, 1 - (IF k.call[c].laned THEN 1 ELSE 0))
                /\ SameElse(k, e, c)
                /\ e.call[c].stage \in {"gate", "wire"} /\ e.call[c].laned = k.call[c].laned
        BY <2>8, <3>1, EntersGate
      <3> QED
        BY <2>2, <3>2
    <2>10. Balance(m, {}, 0, 0)
      <3>1. 1 - (IF k.call[c].laned THEN 1 ELSE 0) = 0
        BY <2>3, <2>4
      <3> QED
        BY <2>9, <3>1
    <2>11. Served(n, m, {})
      BY <2>1, <2>3, <2>9 DEF Served, SameElse, Waiting, Inside
    <2> QED
      BY <2>10, <2>11 DEF m
  <1> QED
    BY <1>2, <1>3

\* A request moves on, in no line afterwards: what it held and no longer holds is in
\* nobody's hands.
LEMMA MovesOn ==
  ASSUME NEW n, Balance(n, {}, 0, 0), NEW c \in Tasks, NEW k \in Net,
         k.gate = n.gate, k.lane = n.lane, SameElse(n, k, c), k.call[c].stage \notin Waiting,
         k.gateLine # <<>> => k.gate = 0, k.laneLine # <<>> => k.lane = 0,
         Line(k.gateLine, At(n, {}, {"gate"}) \ {c}),
         Line(k.laneLine, At(n, {}, {"lane"}) \ {c})
  PROVE  Balance(k, {}, SlotsOf(n.call[c]) - SlotsOf(k.call[c]),
                        LanesOf(n.call[c]) - LanesOf(k.call[c]))
  <1> DEFINE m == [k EXCEPT !.call = n.call]
  <1>1. n \in Net /\ {k.gate, k.lane} \subseteq Nat
    BY DEF Balance, Net
  <1>2. /\ m \in Net /\ m.gate = k.gate /\ m.lane = k.lane /\ m.call = n.call
        /\ m.gateLine = k.gateLine /\ m.laneLine = k.laneLine
    BY <1>1 DEF Net
  <1> HIDE DEF m
  <1>3. /\ SlotsOf(n.call[c]) \in {0, 1} /\ LanesOf(n.call[c]) \in {0, 1}
        /\ SlotsOf(k.call[c]) \in {0, 1} /\ LanesOf(k.call[c]) \in {0, 1}
    BY DEF SlotsOf, LanesOf
  <1>4. Balance(m, {c}, SlotsOf(n.call[c]), LanesOf(n.call[c]))
    <2>1. /\ m \in Net /\ m.call = n.call /\ m.gate = n.gate /\ m.lane = n.lane
          /\ m.gateLine # <<>> => m.gate = 0
          /\ m.laneLine # <<>> => m.lane = 0
          /\ Line(m.gateLine, At(n, {}, {"gate"}) \ {c})
          /\ Line(m.laneLine, At(n, {}, {"lane"}) \ {c})
      BY <1>2
    <2>2. 0 \in Int
      OBVIOUS
    <2>3. Balance(m, {c}, 0 + SlotsOf(n.call[c]), 0 + LanesOf(n.call[c]))
      BY <2>1, <2>2, TakeOut
    <2>4. /\ 0 + SlotsOf(n.call[c]) = SlotsOf(n.call[c])
          /\ 0 + LanesOf(n.call[c]) = LanesOf(n.call[c])
      BY <1>3
    <2> QED
      BY <2>3, <2>4
  <1>5. /\ At(k, {}, {"gate"}) = At(n, {}, {"gate"}) \ {c}
        /\ At(k, {}, {"lane"}) = At(n, {}, {"lane"}) \ {c}
    BY DEF At, SameElse, Waiting
  <1>6. SameElse(m, k, c) /\ (k.call[c].stage = "lane" => k.call[c].laned)
    BY <1>2 DEF SameElse, Waiting
  <1>7. SlotsOf(n.call[c]) \in Int /\ LanesOf(n.call[c]) \in Int
    BY <1>3
  <1>8. Balance(k, {}, SlotsOf(n.call[c]) + m.gate - k.gate - SlotsOf(k.call[c]),
                       LanesOf(n.call[c]) + m.lane - k.lane - LanesOf(k.call[c]))
    BY <1>4, <1>5, <1>6, <1>7, PutBack
  <1>9. /\ SlotsOf(n.call[c]) + m.gate - k.gate - SlotsOf(k.call[c])
             = SlotsOf(n.call[c]) - SlotsOf(k.call[c])
        /\ LanesOf(n.call[c]) + m.lane - k.lane - LanesOf(k.call[c])
             = LanesOf(n.call[c]) - LanesOf(k.call[c])
    BY <1>1, <1>2, <1>3
  <1> QED
    BY <1>8, <1>9

\* Who is in no line is in no line after a change of his own request either.
LEMMA MovesOff ==
  ASSUME NEW n, Balance(n, {}, 0, 0), NEW c \in Tasks, n.call[c].stage \notin Waiting,
         NEW r \in Request, r.stage \notin Waiting
  PROVE  LET k == [n EXCEPT !.call[c] = r]
         IN  /\ Balance(k, {}, SlotsOf(n.call[c]) - SlotsOf(r),
                               LanesOf(n.call[c]) - LanesOf(r))
             /\ k \in Net /\ k.call[c] = r /\ SameElse(n, k, c)
  <1> DEFINE k == [n EXCEPT !.call[c] = r]
  <1>1. n \in Net
    BY DEF Balance
  <1>2. /\ k \in Net /\ k.gate = n.gate /\ k.lane = n.lane
        /\ k.gateLine = n.gateLine /\ k.laneLine = n.laneLine
        /\ k.call[c] = r /\ SameElse(n, k, c)
    BY <1>1, NetWith
  <1> HIDE DEF k
  <1>3. /\ At(n, {}, {"gate"}) \ {c} = At(n, {}, {"gate"})
        /\ At(n, {}, {"lane"}) \ {c} = At(n, {}, {"lane"})
    BY DEF At, Waiting
  <1>4. /\ k.gateLine # <<>> => k.gate = 0
        /\ k.laneLine # <<>> => k.lane = 0
        /\ Line(k.gateLine, At(n, {}, {"gate"}) \ {c})
        /\ Line(k.laneLine, At(n, {}, {"lane"}) \ {c})
    BY <1>2, <1>3 DEF Balance
  <1>5. k.call[c].stage \notin Waiting
    BY <1>2
  <1>6. Balance(k, {}, SlotsOf(n.call[c]) - SlotsOf(k.call[c]),
                       LanesOf(n.call[c]) - LanesOf(k.call[c]))
    BY <1>2, <1>4, <1>5, MovesOn
  <1> QED
    BY <1>2, <1>6 DEF k

\* A request on the wire or backing off changes place there.
LEMMA StaysInside ==
  ASSUME NEW n, Balance(n, {}, 0, 0), NEW c \in Tasks, n.call[c].stage \in Inside,
         NEW r \in Request, r.stage \in Inside, r.laned = n.call[c].laned
  PROVE  /\ Balance([n EXCEPT !.call[c] = r], {}, 0, 0)
         /\ [n EXCEPT !.call[c] = r].call[c] = r
         /\ SameElse(n, [n EXCEPT !.call[c] = r], c)
  <1>1. /\ SlotsOf(n.call[c]) - SlotsOf(r) = 0
        /\ LanesOf(n.call[c]) - LanesOf(r) = 0
    BY DEF SlotsOf, LanesOf, Inside
  <1>2. n.call[c].stage \notin Waiting /\ r.stage \notin Waiting
    BY DEF Inside, Waiting
  <1>3. LET k == [n EXCEPT !.call[c] = r]
        IN  /\ Balance(k, {}, SlotsOf(n.call[c]) - SlotsOf(r), LanesOf(n.call[c]) - LanesOf(r))
            /\ k.call[c] = r /\ SameElse(n, k, c)
    BY <1>2, MovesOff
  <1> QED
    BY <1>1, <1>3

\* A request that holds nothing is over with, or is forgotten.
LEMMA Resets ==
  ASSUME NEW n, Balance(n, {}, 0, 0), NEW c \in Tasks,
         n.call[c].stage \notin Waiting \cup Inside,
         NEW r \in Request, r.stage \notin Waiting \cup Inside
  PROVE  /\ Balance([n EXCEPT !.call[c] = r], {}, 0, 0)
         /\ [n EXCEPT !.call[c] = r].call[c] = r
         /\ SameElse(n, [n EXCEPT !.call[c] = r], c)
  <1>1. /\ SlotsOf(n.call[c]) - SlotsOf(r) = 0
        /\ LanesOf(n.call[c]) - LanesOf(r) = 0
    BY DEF SlotsOf, LanesOf, Inside, Waiting
  <1>2. n.call[c].stage \notin Waiting /\ r.stage \notin Waiting
    OBVIOUS
  <1>3. LET k == [n EXCEPT !.call[c] = r]
        IN  /\ Balance(k, {}, SlotsOf(n.call[c]) - SlotsOf(r), LanesOf(n.call[c]) - LanesOf(r))
            /\ k.call[c] = r /\ SameElse(n, k, c)
    BY <1>2, MovesOff
  <1> QED
    BY <1>1, <1>3

\* What `async with` gives back on the way out is taken by who waits for it.
LEMMA GivesBack ==
  ASSUME NEW n, Balance(n, {}, 0, 0), NEW c \in Tasks, n.call[c].stage \in Inside,
         NEW verdict \in Ended \cup {"none"}
  PROVE  LET m == GiveBack(n, c, verdict)
         IN  /\ Balance(m, {}, 0, 0) /\ Served(n, m, {c})
             /\ m.call[c] = [n.call[c] EXCEPT !.stage = verdict]
  <1> DEFINE r == [n.call[c] EXCEPT !.stage = verdict]
             k == [n EXCEPT !.call[c] = r]
             p == LeaveGate(k)
  <1>1. n \in Net /\ n.call[c] \in Request
    BY DEF Balance, Net
  <1>2. /\ r \in Request /\ r.stage = verdict /\ r.laned = n.call[c].laned
        /\ r.stage \notin Waiting \cup Inside
    BY <1>1 DEF Request, Stages, Ended, Waiting, Inside
  <1>3. k = [n EXCEPT !.call[c].stage = verdict]
    BY <1>1 DEF Net
  <1>4. GiveBack(n, c, verdict) = IF n.call[c].laned THEN LeaveLane(p) ELSE p
    BY <1>3 DEF GiveBack
  <1> HIDE DEF r
  <1>5. /\ SlotsOf(n.call[c]) - SlotsOf(r) = 1
        /\ LanesOf(n.call[c]) - LanesOf(r) = IF n.call[c].laned THEN 1 ELSE 0
    BY <1>2 DEF SlotsOf, LanesOf, Inside, Waiting
  <1>6. n.call[c].stage \notin Waiting /\ r.stage \notin Waiting
    BY <1>2 DEF Inside, Waiting
  <1>7. /\ Balance(k, {}, SlotsOf(n.call[c]) - SlotsOf(r), LanesOf(n.call[c]) - LanesOf(r))
        /\ k.call[c] = r /\ SameElse(n, k, c)
    BY <1>2, <1>6, MovesOff
  <1> HIDE DEF k
  <1>8. Balance(k, {}, 1, IF n.call[c].laned THEN 1 ELSE 0)
    BY <1>5, <1>7
  <1>9. /\ Balance(p, {}, 0, IF n.call[c].laned THEN 1 ELSE 0)
        /\ Served(k, p, {})
    <2>1. (IF n.call[c].laned THEN 1 ELSE 0) \in Int
      OBVIOUS
    <2> QED
      BY <1>8, <2>1, LeavesGate
  <1> HIDE DEF p
  <1>10. p.call[c] = r /\ Served(n, p, {c})
    BY <1>2, <1>7, <1>9 DEF Served, SameElse
  <1>11. CASE n.call[c].laned
    <2>1. Balance(p, {}, 0, 1)
      BY <1>9, <1>11
    <2>2. Balance(LeaveLane(p), {}, 0, 0) /\ Served(p, LeaveLane(p), {})
      BY <2>1, LeavesLane
    <2>3. LeaveLane(p).call[c] = r /\ Served(n, LeaveLane(p), {c})
      BY <1>2, <1>10, <2>2 DEF Served
    <2> QED
      BY <1>4, <1>11, <2>2, <2>3 DEF r
  <1>12. CASE ~n.call[c].laned
    <2>1. Balance(p, {}, 0, 0)
      BY <1>9, <1>12
    <2> QED
      BY <1>4, <1>10, <1>12, <2>1 DEF r
  <1> QED
    BY <1>11, <1>12

\* A task cancelled in a line leaves it, and what it held passes on.
LEMMA Cancels ==
  ASSUME NEW n, Balance(n, {}, 0, 0), NEW c \in Tasks,
         n.call[c].stage \in Waiting \cup Inside
  PROVE  LET m == Cancel(n, c)
         IN  Balance(m, {}, 0, 0) /\ Served(n, m, {c}) /\ m.call[c].stage = "none"
  <1> DEFINE r == [n.call[c] EXCEPT !.stage = "none"]
  <1>1. n \in Net /\ n.call[c] \in Request
    BY DEF Balance, Net
  <1>2. /\ r \in Request /\ r.stage = "none" /\ r.laned = n.call[c].laned
        /\ SlotsOf(r) = 0 /\ LanesOf(r) = 0
    BY <1>1 DEF Request, Stages, SlotsOf, LanesOf, Waiting, Inside
  <1>3. Line(n.gateLine, At(n, {}, {"gate"})) /\ Line(n.laneLine, At(n, {}, {"lane"}))
    BY DEF Balance
  <1>4. /\ n.gateLine # <<>> => n.gate = 0
        /\ n.laneLine # <<>> => n.lane = 0
    BY DEF Balance
  <1>5. CASE n.call[c].stage \in Inside
    <2>1. Cancel(n, c) = GiveBack(n, c, "none")
      BY <1>5 DEF Cancel, Inside
    <2>2. LET m == GiveBack(n, c, "none")
          IN  /\ Balance(m, {}, 0, 0) /\ Served(n, m, {c})
              /\ m.call[c] = [n.call[c] EXCEPT !.stage = "none"]
      BY <1>5, GivesBack
    <2> QED
      BY <1>2, <2>1, <2>2
  <1>6. CASE n.call[c].stage = "lane"
    <2> DEFINE j == [n EXCEPT !.laneLine = RemoveFirst(@, c)]
               k == [j EXCEPT !.call[c] = r]
    <2>1. c \in At(n, {}, {"lane"}) /\ At(n, {}, {"gate"}) \ {c} = At(n, {}, {"gate"})
      BY <1>6 DEF At
    <2>2. Line(RemoveFirst(n.laneLine, c), At(n, {}, {"lane"}) \ {c})
      BY <1>3, <2>1, QuitLine
    <2>3. /\ j \in Net /\ j.gate = n.gate /\ j.lane = n.lane /\ j.call = n.call
          /\ j.laneLine = RemoveFirst(n.laneLine, c) /\ j.gateLine = n.gateLine
      BY <1>1, <2>2 DEF Net, Line
    <2>4. Cancel(n, c) = k
      BY <1>1, <1>6 DEF Cancel, Inside, Net
    <2> HIDE DEF j, r
    <2>5. /\ k \in Net /\ k.gate = n.gate /\ k.lane = n.lane /\ k.call[c] = r
          /\ k.laneLine = RemoveFirst(n.laneLine, c) /\ k.gateLine = n.gateLine
          /\ SameElse(n, k, c)
      BY <1>2, <2>3, NetWith DEF SameElse
    <2> HIDE DEF k
    <2>6. n.lane = 0
      <3>1. n.laneLine # <<>>
        BY <1>3, <2>1, EmptyLine
      <3> QED
        BY <1>4, <3>1
    <2>7. /\ k.gateLine # <<>> => k.gate = 0
          /\ k.laneLine # <<>> => k.lane = 0
          /\ Line(k.gateLine, At(n, {}, {"gate"}) \ {c})
          /\ Line(k.laneLine, At(n, {}, {"lane"}) \ {c})
          /\ k.call[c].stage \notin Waiting
      BY <1>2, <1>3, <1>4, <2>1, <2>2, <2>5, <2>6 DEF Waiting
    <2>8. Balance(k, {}, SlotsOf(n.call[c]) - SlotsOf(k.call[c]),
                         LanesOf(n.call[c]) - LanesOf(k.call[c]))
      BY <2>5, <2>7, MovesOn
    <2>9. /\ SlotsOf(n.call[c]) - SlotsOf(k.call[c]) = 0
          /\ LanesOf(n.call[c]) - LanesOf(k.call[c]) = 0
      BY <1>2, <1>6, <2>5 DEF SlotsOf, LanesOf, Inside
    <2> QED
      BY <1>2, <2>4, <2>5, <2>8, <2>9 DEF Served, SameElse
  <1>7. CASE n.call[c].stage = "gate"
    <2> DEFINE j == [n EXCEPT !.gateLine = RemoveFirst(@, c)]
               k == [j EXCEPT !.call[c] = r]
    <2>1. c \in At(n, {}, {"gate"}) /\ At(n, {}, {"lane"}) \ {c} = At(n, {}, {"lane"})
      BY <1>7 DEF At
    <2>2. Line(RemoveFirst(n.gateLine, c), At(n, {}, {"gate"}) \ {c})
      BY <1>3, <2>1, QuitLine
    <2>3. /\ j \in Net /\ j.gate = n.gate /\ j.lane = n.lane /\ j.call = n.call
          /\ j.gateLine = RemoveFirst(n.gateLine, c) /\ j.laneLine = n.laneLine
      BY <1>1, <2>2 DEF Net, Line
    <2>4. Cancel(n, c) = IF n.call[c].laned THEN LeaveLane(k) ELSE k
      BY <1>1, <1>7 DEF Cancel, Inside, Net
    <2> HIDE DEF j, r
    <2>5. /\ k \in Net /\ k.gate = n.gate /\ k.lane = n.lane /\ k.call[c] = r
          /\ k.gateLine = RemoveFirst(n.gateLine, c) /\ k.laneLine = n.laneLine
          /\ SameElse(n, k, c)
      BY <1>2, <2>3, NetWith DEF SameElse
    <2> HIDE DEF k
    <2>6. n.gate = 0
      <3>1. n.gateLine # <<>>
        BY <1>3, <2>1, EmptyLine
      <3> QED
        BY <1>4, <3>1
    <2>7. /\ k.gateLine # <<>> => k.gate = 0
          /\ k.laneLine # <<>> => k.lane = 0
          /\ Line(k.gateLine, At(n, {}, {"gate"}) \ {c})
          /\ Line(k.laneLine, At(n, {}, {"lane"}) \ {c})
          /\ k.call[c].stage \notin Waiting
      BY <1>2, <1>3, <1>4, <2>1, <2>2, <2>5, <2>6 DEF Waiting
    <2>8. Balance(k, {}, SlotsOf(n.call[c]) - SlotsOf(k.call[c]),
                         LanesOf(n.call[c]) - LanesOf(k.call[c]))
      BY <2>5, <2>7, MovesOn
    <2>9. /\ SlotsOf(n.call[c]) - SlotsOf(k.call[c]) = 0
          /\ LanesOf(n.call[c]) - LanesOf(k.call[c]) = IF n.call[c].laned THEN 1 ELSE 0
      BY <1>2, <1>7, <2>5 DEF SlotsOf, LanesOf, Inside
    <2>10. CASE n.call[c].laned
      <3>1. Balance(k, {}, 0, 1)
        BY <2>8, <2>9, <2>10
      <3>2. Balance(LeaveLane(k), {}, 0, 0) /\ Served(k, LeaveLane(k), {})
        BY <3>1, LeavesLane
      <3> QED
        BY <1>2, <2>4, <2>5, <2>10, <3>2 DEF Served, SameElse, Waiting
    <2>11. CASE ~n.call[c].laned
      BY <1>2, <2>4, <2>5, <2>8, <2>9, <2>11 DEF Served, SameElse
    <2> QED
      BY <2>10, <2>11
  <1> QED
    BY <1>5, <1>6, <1>7 DEF Waiting

-----------------------------------------------------------------------------
(* The inductive invariant.                                                 *)

AwaitsSchool == {"page", "captcha", "post", "walk"}

\* Who has a request is at a place of the code that awaits one.
CallsKnown ==
  /\ \A l \in Legs : net.call[l].stage # "none" => leg[l].pc \in AwaitsSchool
  /\ net.call[Catalog].stage # "none" => run.pc \in {"validcode", "dplycourse"}

\* A leg under way has no result yet; what is parked grows family by family.
FanKnown ==
  /\ fan \notin {"run", "closing"} => \A l \in Legs : leg[l].pc = "gone"
  /\ fan = "idle" => \A l \in Legs : result[l] = "none"
  /\ \A l \in Legs : leg[l].pc # "gone" => result[l] = "none"
  /\ \A l \in Legs : result[l] = "available" <=> l \in landed
  /\ fan \in {"idle", "run", "closing", "park_regweb"} => parked = {}
  /\ fan = "park_sco" => parked = landed \cap {Regweb}
  /\ fan \in {"feed_regweb", "feed_sco", "end"} => parked = landed
  /\ fan \in {"idle", "run", "closing", "park_regweb", "park_sco", "feed_regweb"}
       => \A l \in Legs : fed[l] = "none"
  /\ \A l \in Legs : /\ fed[l] = "classified" => result[l] = "available"
                    /\ fed[l] = "unknown" => result[l] = "school_unavailable"

ProcessKnown ==
  /\ process \in {"api", "worker"}
  /\ run \in [pc : {"idle", "validcode", "ocr", "dplycourse"}, attempt : 0..SolveAttempts]

TrafficInv ==
  /\ Balance(net, {}, 0, 0)
  /\ EnrollTypeOK /\ ProcessKnown
  /\ CallsKnown /\ FanKnown /\ CodeIsFresh

-----------------------------------------------------------------------------
(* Steps on the network.                                                    *)

\* The semaphores stay in balance, and nobody outside X gets a request.
NetMoves(X) ==
  /\ Balance(net', {}, 0, 0)
  /\ \A d \in Tasks \ X : net'.call[d].stage # "none" => net.call[d].stage # "none"

LEMMA AskMoves ==
  ASSUME Balance(net, {}, 0, 0), NEW c \in Tasks, NEW laned \in BOOLEAN,
         net.call[c].stage \notin Waiting \cup Inside, net' = Ask(net, c, laned)
  PROVE  NetMoves({c})
  <1>1. Balance(net', {}, 0, 0) /\ SameElse(net, net', c)
    BY Asking
  <1> QED
    BY <1>1 DEF NetMoves, SameElse

LEMMA ForgetMoves ==
  ASSUME Balance(net, {}, 0, 0), NEW c \in Tasks,
         net.call[c].stage \notin Waiting \cup Inside,
         net' = [net EXCEPT !.call[c] = NoRequest]
  PROVE  NetMoves({}) /\ net'.call[c].stage = "none"
  <1>1. /\ NoRequest \in Request /\ NoRequest.stage = "none"
        /\ NoRequest.stage \notin Waiting \cup Inside
    BY GateAssumption DEF NoRequest, Request, Stages, Waiting, Inside
  <1>2. /\ Balance(net', {}, 0, 0) /\ SameElse(net, net', c)
        /\ net'.call[c] = NoRequest
    BY <1>1, Resets
  <1> QED
    BY <1>1, <1>2 DEF NetMoves, SameElse

LEMMA CancelMoves ==
  ASSUME Balance(net, {}, 0, 0), NEW c \in Tasks,
         net.call[c].stage \in Waiting \cup Inside, net' = Cancel(net, c)
  PROVE  NetMoves({}) /\ net'.call[c].stage = "none"
  <1>1. Balance(net', {}, 0, 0) /\ Served(net, net', {c}) /\ net'.call[c].stage = "none"
    BY Cancels
  <1> QED
    BY <1>1 DEF NetMoves, Served, Waiting

\* Every step of _request_with_backoff, on the wire or after a back-off.
LEMMA RequestMoves ==
  ASSUME Balance(net, {}, 0, 0), NEW c \in Tasks, RequestStep(c)
  PROVE  NetMoves({})
  <1> USE DEF RequestStep, OnTheWire
  <1>1. net.call[c] \in Request /\ net \in Net
    BY DEF Balance, Net
  <1>2. net.call[c].stage \in Inside /\ net.call[c].stage # "none"
    BY DEF Inside, Answers, TransportFails, ClientBreaks, BackoffEnds
  <1>3. ASSUME NEW verdict \in Ended, net' = GiveBack(net, c, verdict)
        PROVE  NetMoves({})
    <2>1. Balance(net', {}, 0, 0) /\ Served(net, net', {c})
      BY <1>2, <1>3, GivesBack
    <2> QED
      BY <1>2, <2>1 DEF NetMoves, Served, Waiting
  <1>4. ASSUME NEW r \in Request, r.stage \in Inside, r.laned = net.call[c].laned,
               net' = [net EXCEPT !.call[c] = r]
        PROVE  NetMoves({})
    <2>1. Balance(net', {}, 0, 0) /\ SameElse(net, net', c)
      BY <1>2, <1>4, StaysInside
    <2> QED
      BY <1>2, <2>1 DEF NetMoves, SameElse
  <1>5. CASE Answers(c)
    BY <1>3, <1>5 DEF Answers, Ended
  <1>6. CASE ClientBreaks(c)
    BY <1>3, <1>6 DEF ClientBreaks, Ended
  <1>7. CASE TransportFails(c)
    <2> DEFINE r == [net.call[c] EXCEPT !.stage = "backoff"]
    <2>1. r \in Request /\ r.stage \in Inside /\ r.laned = net.call[c].laned
      BY <1>1 DEF Request, Stages, Inside
    <2>2. net' = [net EXCEPT !.call[c] = r]
      BY <1>1, <1>7 DEF TransportFails, Net
    <2> QED
      BY <1>4, <2>1, <2>2
  <1>8. CASE BackoffEnds(c)
    <2>1. CASE net.call[c].tries < MaxSends
      <3> DEFINE r == [net.call[c] EXCEPT !.stage = "wire", !.tries = @ + 1]
      <3>1. net.call[c].tries + 1 \in 0..MaxSends
        BY <1>1, <2>1, GateAssumption DEF Request
      <3>2. r \in Request /\ r.stage \in Inside /\ r.laned = net.call[c].laned
        BY <1>1, <3>1 DEF Request, Stages, Inside
      <3>3. net' = [net EXCEPT !.call[c] = r]
        BY <1>1, <1>8, <2>1 DEF BackoffEnds, Net
      <3> QED
        BY <1>4, <3>2, <3>3
    <2>2. CASE ~(net.call[c].tries < MaxSends)
      BY <1>3, <1>8, <2>2 DEF BackoffEnds, Ended
    <2> QED
      BY <2>1, <2>2
  <1> QED
    BY <1>5, <1>6, <1>7, <1>8

-----------------------------------------------------------------------------
(* Steps of a leg.                                                          *)

Outcomes == {"available", "captcha_budget", "school_unavailable", "unexpected"}

\* What a step of leg l comes to, whichever it is: it goes on or is cut off with no
\* result, or it ends with one.
LegTo(l) ==
  /\ NetMoves({l}) /\ leg[l].pc # "gone"
  /\ \E next \in LegState :
       /\ leg' = [leg EXCEPT ![l] = next]
       /\ net'.call[l].stage # "none" => next.pc \in AwaitsSchool
       /\ next.pc = "post" /\ next.image => l \in fresh'
       /\ \/ UNCHANGED <<result, landed>>
          \/ /\ next.pc = "gone"
             /\ \E outcome \in Outcomes :
                  /\ result' = [result EXCEPT ![l] = outcome]
                  /\ landed' = IF outcome = "available" THEN landed \cup {l} ELSE landed
  /\ fresh \ {l} \subseteq fresh' /\ fresh' \subseteq fresh \cup {l}
  /\ UNCHANGED <<fan, parked, fed>>

LEMMA NoLegState == NoLeg \in LegState /\ NoLeg.pc = "gone" /\ ~NoLeg.image
  BY EnrollAssumption DEF NoLeg, LegState

LEMMA ProceedTo ==
  ASSUME TrafficInv, NEW l \in Legs, leg[l].pc # "gone",
         net.call[l].stage \notin Waiting \cup Inside,
         NEW next \in LegState, next.pc \in AwaitsSchool, Proceed(l, next),
         next.pc = "post" /\ next.image => l \in fresh',
         fresh \ {l} \subseteq fresh', fresh' \subseteq fresh \cup {l},
         UNCHANGED <<fan, parked, fed>>
  PROVE  LegTo(l)
  <1>1. Balance(net, {}, 0, 0) /\ l \in Tasks
    BY EnrollAssumption DEF TrafficInv
  <1>2. CASE fan = "run"
    <2>1. net' = Ask(net, l, FALSE) /\ leg' = [leg EXCEPT ![l] = next]
      BY <1>2 DEF Proceed
    <2>2. NetMoves({l})
      BY <1>1, <2>1, AskMoves
    <2> QED
      BY <2>1, <2>2 DEF LegTo, Proceed
  <1>3. CASE fan # "run"
    <2>1. net' = [net EXCEPT !.call[l] = NoRequest] /\ leg' = [leg EXCEPT ![l] = NoLeg]
      BY <1>3 DEF Proceed
    <2>2. NetMoves({}) /\ net'.call[l].stage = "none"
      BY <1>1, <2>1, ForgetMoves
    <2>3. NetMoves({l})
      BY <2>2 DEF NetMoves
    <2> QED
      BY <2>1, <2>2, <2>3, NoLegState DEF LegTo, Proceed
  <1> QED
    BY <1>2, <1>3

LEMMA EndTo ==
  ASSUME TrafficInv, NEW l \in Legs, leg[l].pc # "gone",
         net.call[l].stage \notin Waiting \cup Inside,
         NEW outcome \in Outcomes, EndLeg(l, outcome),
         fresh \ {l} \subseteq fresh', fresh' \subseteq fresh \cup {l},
         UNCHANGED <<fan, parked, fed>>
  PROVE  LegTo(l)
  <1>1. Balance(net, {}, 0, 0) /\ l \in Tasks
    BY EnrollAssumption DEF TrafficInv
  <1>2. net' = [net EXCEPT !.call[l] = NoRequest] /\ leg' = [leg EXCEPT ![l] = NoLeg]
    BY DEF EndLeg
  <1>3. NetMoves({}) /\ net'.call[l].stage = "none"
    BY <1>1, <1>2, ForgetMoves
  <1>4. NetMoves({l})
    BY <1>3 DEF NetMoves
  <1> QED
    BY <1>2, <1>3, <1>4, NoLegState DEF LegTo, EndLeg

\* One turn of the chain walker.
LEMMA WalkTo ==
  ASSUME TrafficInv, NEW l \in Legs, leg[l].pc # "gone",
         net.call[l].stage \notin Waiting \cup Inside, NEW page, Walk(l, page),
         fresh \ {l} \subseteq fresh', fresh' \subseteq fresh \cup {l},
         UNCHANGED <<fan, parked, fed>>
  PROVE  LegTo(l)
  <1>1. leg[l] \in LegState
    BY DEF TrafficInv, EnrollTypeOK
  <1>2. ASSUME NEW next \in LegState, next.pc = "walk", Proceed(l, next)
        PROVE  LegTo(l)
    BY <1>2, ProceedTo DEF AwaitsSchool
  <1>3. CASE leg[l].redirects < Redirects
             /\ Proceed(l, [NoLeg EXCEPT !.pc = "walk", !.redirects = leg[l].redirects + 1,
                                         !.hops = leg[l].hops])
    <2> DEFINE next == [NoLeg EXCEPT !.pc = "walk", !.redirects = leg[l].redirects + 1,
                                     !.hops = leg[l].hops]
    <2>1. leg[l].redirects + 1 \in 0..Redirects /\ leg[l].hops \in 0..Hops
      BY <1>1, <1>3, EnrollAssumption DEF LegState
    <2>2. next \in LegState /\ next.pc = "walk"
      BY <2>1, NoLegState DEF NoLeg, LegState
    <2> QED
      BY <1>2, <1>3, <2>2
  <1>4. CASE leg[l].hops < Hops
             /\ Proceed(l, [NoLeg EXCEPT !.pc = "walk", !.redirects = leg[l].redirects,
                                         !.hops = leg[l].hops + 1])
    <2> DEFINE next == [NoLeg EXCEPT !.pc = "walk", !.redirects = leg[l].redirects,
                                     !.hops = leg[l].hops + 1]
    <2>1. leg[l].hops + 1 \in 0..Hops /\ leg[l].redirects \in 0..Redirects
      BY <1>1, <1>4, EnrollAssumption DEF LegState
    <2>2. next \in LegState /\ next.pc = "walk"
      BY <2>1, NoLegState DEF NoLeg, LegState
    <2> QED
      BY <1>2, <1>4, <2>2
  <1>5. CASE EndLeg(l, "available")
    BY <1>5, EndTo DEF Outcomes
  <1> QED
    BY <1>3, <1>4, <1>5 DEF Walk

\* Every action of interactive_login and of the chain walker.
LEMMA LegActions ==
  ASSUME TrafficInv, NEW l \in Legs, Leg(l)
  PROVE  LegTo(l)
  <1>1. /\ leg[l] \in LegState /\ l \in Tasks /\ fresh \subseteq Tasks
        /\ net.call[l].stage # "none" => leg[l].pc \in AwaitsSchool
    BY EnrollAssumption DEF TrafficInv, EnrollTypeOK, CallsKnown
  <1>2. /\ 1 \in 0..LoginAttempts /\ 1 \in 0..Fetches /\ 0 \in 0..Fetches
    BY EnrollAssumption
  <1>3. ASSUME net.call[l].stage \in Ended
        PROVE  net.call[l].stage \notin Waiting \cup Inside /\ leg[l].pc # "gone"
    BY <1>1, <1>3 DEF Ended, Waiting, Inside, AwaitsSchool
  <1>4. CASE LegPage(l)
    <2>1. /\ net.call[l].stage \in Ended /\ UNCHANGED <<fan, parked, fed, fresh>>
      BY <1>4 DEF LegPage, Answered, Ended
    <2>2. CASE EndLeg(l, "school_unavailable")
      BY <1>3, <2>1, <2>2, EndTo DEF Outcomes
    <2>3. ASSUME NEW image \in BOOLEAN,
                 Proceed(l, [leg[l] EXCEPT !.image = image, !.attempt = 1,
                                           !.pc = IF image THEN "captcha" ELSE "post",
                                           !.fetch = IF image THEN 1 ELSE 0])
          PROVE  LegTo(l)
      <3> DEFINE next == [leg[l] EXCEPT !.image = image, !.attempt = 1,
                                        !.pc = IF image THEN "captcha" ELSE "post",
                                        !.fetch = IF image THEN 1 ELSE 0]
      <3>1. /\ next \in LegState /\ next.pc \in AwaitsSchool
            /\ ~(next.pc = "post" /\ next.image)
        BY <1>1, <1>2 DEF LegState, AwaitsSchool
      <3> HIDE DEF next
      <3>2. Proceed(l, next)
        BY <2>3 DEF next
      <3> QED
        BY <1>3, <2>1, <3>1, <3>2, ProceedTo
    <2> QED
      BY <1>4, <2>2, <2>3 DEF LegPage
  <1>5. CASE LegImage(l)
    <2>1. /\ net.call[l].stage \in Ended /\ UNCHANGED <<fan, parked, fed, fresh>>
          /\ leg[l].pc = "captcha"
      BY <1>5 DEF LegImage, Answered, Ended
    <2>2. CASE EndLeg(l, "school_unavailable")
      BY <1>3, <2>1, <2>2, EndTo DEF Outcomes
    <2>3. CASE /\ leg' = [leg EXCEPT ![l].pc = "ocr"]
               /\ net' = [net EXCEPT !.call[l] = NoRequest]
               /\ UNCHANGED <<result, landed>>
      <3> DEFINE next == [leg[l] EXCEPT !.pc = "ocr"]
      <3>1. next \in LegState /\ next.pc = "ocr"
        BY <1>1 DEF LegState
      <3>2. leg' = [leg EXCEPT ![l] = next]
        BY <2>3 DEF TrafficInv, EnrollTypeOK
      <3> HIDE DEF next
      <3>3. NetMoves({}) /\ net'.call[l].stage = "none"
        BY <1>1, <1>3, <2>1, <2>3, ForgetMoves DEF TrafficInv
      <3>4. NetMoves({l})
        BY <3>3 DEF NetMoves
      <3> QED
        BY <1>3, <2>1, <2>3, <3>1, <3>2, <3>3, <3>4 DEF LegTo
    <2> QED
      BY <1>5, <2>2, <2>3 DEF LegImage
  <1>6. CASE LegOcr(l)
    <2>1. /\ leg[l].pc = "ocr" /\ leg[l].pc # "gone" /\ UNCHANGED <<fan, parked, fed>>
          /\ net.call[l].stage \notin Waiting \cup Inside
      BY <1>1, <1>6 DEF LegOcr, AwaitsSchool, Waiting, Inside
    <2>2. CASE Proceed(l, [leg[l] EXCEPT !.pc = "post", !.fetch = 0]) /\ fresh' = fresh \cup {l}
      <3> DEFINE next == [leg[l] EXCEPT !.pc = "post", !.fetch = 0]
      <3>1. next \in LegState /\ next.pc \in AwaitsSchool
        BY <1>1, <1>2 DEF LegState, AwaitsSchool
      <3> HIDE DEF next
      <3>2. Proceed(l, next)
        BY <2>2 DEF next
      <3> QED
        BY <2>1, <2>2, <3>1, <3>2, ProceedTo
    <2>3. CASE leg[l].fetch < Fetches /\ NextFetch(l) /\ UNCHANGED fresh
      <3> DEFINE next == [leg[l] EXCEPT !.pc = "captcha", !.fetch = @ + 1]
      <3>1. leg[l].fetch + 1 \in 0..Fetches
        BY <1>1, <2>3, EnrollAssumption DEF LegState
      <3>2. next \in LegState /\ next.pc = "captcha"
        BY <1>1, <3>1 DEF LegState
      <3> HIDE DEF next
      <3>3. Proceed(l, next)
        BY <2>3 DEF next, NextFetch
      <3> QED
        BY <2>1, <2>3, <3>2, <3>3, ProceedTo DEF AwaitsSchool
    <2>4. CASE EndLeg(l, "unexpected") /\ UNCHANGED fresh
      BY <2>1, <2>4, EndTo DEF Outcomes
    <2> QED
      BY <1>6, <2>2, <2>3, <2>4 DEF LegOcr
  <1>7. CASE LegPost(l)
    <2>1. /\ net.call[l].stage \in Ended /\ UNCHANGED <<fan, parked, fed>>
          /\ fresh' = fresh \ {l}
      BY <1>7 DEF LegPost, Answered, Ended
    <2>2. CASE leg[l].attempt < LoginAttempts /\ NextAttempt(l)
      <3> DEFINE next == [leg[l] EXCEPT !.attempt = @ + 1,
                                        !.pc = IF leg[l].image THEN "captcha" ELSE "post",
                                        !.fetch = IF leg[l].image THEN 1 ELSE 0]
      <3>1. leg[l].attempt + 1 \in 0..LoginAttempts
        BY <1>1, <2>2, EnrollAssumption DEF LegState
      <3>2. /\ next \in LegState /\ next.pc \in AwaitsSchool
            /\ ~(next.pc = "post" /\ next.image)
        BY <1>1, <1>2, <3>1 DEF LegState, AwaitsSchool
      <3> HIDE DEF next
      <3>3. Proceed(l, next)
        BY <2>2 DEF next, NextAttempt
      <3> QED
        BY <1>3, <2>1, <3>2, <3>3, ProceedTo
    <2>3. CASE EndLeg(l, "captcha_budget")
      BY <1>3, <2>1, <2>3, EndTo DEF Outcomes
    <2>4. ASSUME NEW page, Walk(l, page) PROVE LegTo(l)
      BY <1>3, <2>1, <2>4, WalkTo
    <2> QED
      BY <1>7, <2>2, <2>3, <2>4 DEF LegPost
  <1>8. CASE LegWalk(l)
    <2>1. /\ net.call[l].stage \in Ended /\ UNCHANGED <<fan, parked, fed, fresh>>
      BY <1>8 DEF LegWalk, Answered, Ended
    <2> QED
      BY <1>3, <1>8, <2>1, WalkTo DEF LegWalk
  <1>9. CASE LegFails(l)
    <2>1. /\ net.call[l].stage \in Ended /\ UNCHANGED <<fan, parked, fed>>
          /\ fresh' = fresh \ {l}
      BY <1>9 DEF LegFails, Ended
    <2>2. CASE EndLeg(l, "school_unavailable")
      BY <1>3, <2>1, <2>2, EndTo DEF Outcomes
    <2>3. CASE EndLeg(l, "unexpected")
      BY <1>3, <2>1, <2>3, EndTo DEF Outcomes
    <2> QED
      BY <1>9, <2>2, <2>3 DEF LegFails
  <1> QED
    BY <1>4, <1>5, <1>6, <1>7, <1>8, <1>9 DEF Leg

\* The network under the leg's request, and the deadline that cuts the leg off.
LEMMA LegPassive ==
  ASSUME TrafficInv, NEW l \in Legs, LegOnTheWire(l) \/ CutOff(l)
  PROVE  LegTo(l)
  <1>1. /\ leg[l] \in LegState /\ l \in Tasks /\ leg \in [Legs -> LegState]
        /\ Balance(net, {}, 0, 0)
        /\ net.call[l].stage # "none" => leg[l].pc \in AwaitsSchool
    BY EnrollAssumption DEF TrafficInv, EnrollTypeOK, CallsKnown
  <1>2. CASE LegOnTheWire(l)
    <2>1. net.call[l].stage = "wire" /\ RequestStep(l) /\ UNCHANGED enroll
      BY <1>2 DEF LegOnTheWire, OnTheWire, RequestStep, Answers, TransportFails, ClientBreaks
    <2>2. NetMoves({})
      BY <1>1, <2>1, RequestMoves
    <2>3. NetMoves({l})
      BY <2>2 DEF NetMoves
    <2>4. leg' = [leg EXCEPT ![l] = leg[l]]
      BY <1>1, <2>1 DEF enroll
    <2>5. leg[l].pc = "post" /\ leg[l].image => l \in fresh'
      BY <1>2 DEF LegOnTheWire, TrafficInv, CodeIsFresh
    <2>6. fresh \ {l} \subseteq fresh' /\ fresh' \subseteq fresh \cup {l}
      BY <1>2 DEF LegOnTheWire
    <2> QED
      BY <1>1, <2>1, <2>3, <2>4, <2>5, <2>6 DEF LegTo, enroll, AwaitsSchool
  <1>3. CASE CutOff(l)
    <2>1. /\ net.call[l].stage \in Waiting \cup Inside /\ net' = Cancel(net, l)
          /\ leg' = [leg EXCEPT ![l] = NoLeg] /\ fresh' = fresh \ {l}
          /\ UNCHANGED <<result, fan, parked, fed, landed>>
      BY <1>3 DEF CutOff
    <2>2. NetMoves({}) /\ net'.call[l].stage = "none"
      BY <1>1, <2>1, CancelMoves
    <2>3. NetMoves({l}) /\ leg[l].pc # "gone"
      BY <1>1, <2>1, <2>2 DEF NetMoves, Waiting, Inside, AwaitsSchool
    <2> QED
      BY <2>1, <2>2, <2>3, NoLegState DEF LegTo
  <1> QED
    BY <1>2, <1>3

\* Whatever a leg does keeps the invariant.
LEMMA LegKeeps ==
  ASSUME TrafficInv, NEW l \in Legs, LegTo(l), UNCHANGED <<process, run>>
  PROVE  TrafficInv'
  <1> USE DEF LegTo
  <1>1. PICK next \in LegState :
          /\ leg' = [leg EXCEPT ![l] = next]
          /\ net'.call[l].stage # "none" => next.pc \in AwaitsSchool
          /\ next.pc = "post" /\ next.image => l \in fresh'
          /\ \/ UNCHANGED <<result, landed>>
             \/ /\ next.pc = "gone"
                /\ \E outcome \in Outcomes :
                     /\ result' = [result EXCEPT ![l] = outcome]
                     /\ landed' = IF outcome = "available" THEN landed \cup {l} ELSE landed
    OBVIOUS
  <1>2. /\ leg \in [Legs -> LegState] /\ leg[l].pc # "gone" /\ l \in Tasks
        /\ fan \in {"run", "closing"} /\ result[l] = "none" /\ l \notin landed
        /\ fresh \subseteq Tasks
    BY EnrollAssumption DEF TrafficInv, EnrollTypeOK, FanKnown
  <1>3. \A k \in Legs : leg'[k] = IF k = l THEN next ELSE leg[k]
    BY <1>1, <1>2
  <1>4. Balance(net', {}, 0, 0)
    BY DEF NetMoves
  <1>5. EnrollTypeOK' /\ ProcessKnown'
    BY <1>1, <1>2 DEF TrafficInv, EnrollTypeOK, ProcessKnown, Outcomes
  <1>6. CallsKnown'
    <2>1. \A k \in Legs : net'.call[k].stage # "none" => leg'[k].pc \in AwaitsSchool
      BY <1>1, <1>3, EnrollAssumption DEF TrafficInv, CallsKnown, NetMoves
    <2>2. net'.call[Catalog].stage # "none" => run.pc \in {"validcode", "dplycourse"}
      BY TrafficAssumption DEF TrafficInv, CallsKnown, NetMoves
    <2> QED
      BY <2>1, <2>2 DEF CallsKnown
  <1>7. FanKnown'
    <2>1. CASE UNCHANGED <<result, landed>>
      BY <1>2, <1>3, <2>1 DEF TrafficInv, FanKnown
    <2>2. ASSUME NEW outcome \in Outcomes, next.pc = "gone",
                 result' = [result EXCEPT ![l] = outcome],
                 landed' = IF outcome = "available" THEN landed \cup {l} ELSE landed
          PROVE  FanKnown'
      <3>1. \A k \in Legs : result'[k] = IF k = l THEN outcome ELSE result[k]
        BY <2>2 DEF TrafficInv, EnrollTypeOK
      <3>2. \A k \in Legs : result'[k] = "available" <=> k \in landed'
        BY <1>2, <2>2, <3>1 DEF TrafficInv, FanKnown, Outcomes
      <3>3. \A k \in Legs : leg'[k].pc # "gone" => result'[k] = "none"
        BY <1>3, <2>2, <3>1 DEF TrafficInv, FanKnown
      <3>4. \A k \in Legs : fed'[k] = "none"
        BY <1>2 DEF TrafficInv, FanKnown
      <3> QED
        BY <1>2, <3>2, <3>3, <3>4 DEF TrafficInv, FanKnown
    <2> QED
      BY <1>1, <2>1, <2>2
  <1>8. CodeIsFresh'
    <2>1. \A k \in Legs : leg'[k].pc = "post" /\ leg'[k].image => k \in fresh'
      BY <1>1, <1>3 DEF TrafficInv, CodeIsFresh
    <2>2. run.pc = "dplycourse" => Catalog \in fresh'
      BY TrafficAssumption DEF TrafficInv, CodeIsFresh
    <2> QED
      BY <2>1, <2>2 DEF CodeIsFresh
  <1> QED
    BY <1>4, <1>5, <1>6, <1>7, <1>8 DEF TrafficInv

-----------------------------------------------------------------------------
(* Steps of a catalog run, of the fan-out's own task and of other tasks.    *)

\* What a step of the catalog run comes to.
RunTo ==
  /\ NetMoves({Catalog})
  /\ run' \in [pc : {"idle", "validcode", "ocr", "dplycourse"}, attempt : 0..SolveAttempts]
  /\ net'.call[Catalog].stage # "none" => run'.pc \in {"validcode", "dplycourse"}
  /\ run'.pc = "dplycourse" => Catalog \in fresh'
  /\ fresh \ {Catalog} \subseteq fresh' /\ fresh' \subseteq fresh \cup {Catalog}
  /\ UNCHANGED <<process, enroll>>

\* Every action of run_page.
LEMMA RunActions ==
  ASSUME TrafficInv, WorkerNext
  PROVE  RunTo
  <1>1. /\ Balance(net, {}, 0, 0) /\ Catalog \in Tasks /\ run.attempt \in 0..SolveAttempts
        /\ run \in [pc : {"idle", "validcode", "ocr", "dplycourse"}, attempt : 0..SolveAttempts]
        /\ net.call[Catalog].stage # "none" => run.pc \in {"validcode", "dplycourse"}
        /\ 0 \in 0..SolveAttempts /\ 1 \in 0..SolveAttempts
    BY TrafficAssumption DEF TrafficInv, ProcessKnown, CallsKnown
  <1>2. RunPageStep /\ UNCHANGED <<process, enroll>>
    BY DEF WorkerNext
  <1>3. ASSUME NEW pc \in {"validcode", "dplycourse"}, NEW attempt \in 0..SolveAttempts,
               RunAsks(pc, attempt), net.call[Catalog].stage \notin Waiting \cup Inside,
               pc = "dplycourse" => Catalog \in fresh',
               fresh \ {Catalog} \subseteq fresh', fresh' \subseteq fresh \cup {Catalog}
        PROVE  RunTo
    <2>1. net' = Ask(net, Catalog, TRUE) /\ run' = [pc |-> pc, attempt |-> attempt]
      BY <1>3 DEF RunAsks
    <2>2. NetMoves({Catalog})
      BY <1>1, <1>3, <2>1, AskMoves
    <2> QED
      BY <1>2, <1>3, <2>1, <2>2 DEF RunTo
  <1>4. ASSUME NEW pc \in {"idle", "ocr"}, NEW attempt \in 0..SolveAttempts,
               net' = [net EXCEPT !.call[Catalog] = NoRequest],
               run' = [pc |-> pc, attempt |-> attempt],
               net.call[Catalog].stage \notin Waiting \cup Inside,
               fresh \ {Catalog} \subseteq fresh', fresh' \subseteq fresh \cup {Catalog}
        PROVE  RunTo
    <2>1. NetMoves({}) /\ net'.call[Catalog].stage = "none"
      BY <1>1, <1>4, ForgetMoves
    <2>2. NetMoves({Catalog})
      BY <2>1 DEF NetMoves
    <2> QED
      BY <1>2, <1>4, <2>1, <2>2 DEF RunTo
  <1>5. ASSUME RunEnds, net.call[Catalog].stage \notin Waiting \cup Inside,
               fresh \ {Catalog} \subseteq fresh', fresh' \subseteq fresh \cup {Catalog}
        PROVE  RunTo
    BY <1>1, <1>4, <1>5 DEF RunEnds
  <1>6. CASE RunStarts
    <2>1. /\ RunAsks("validcode", 1) /\ UNCHANGED fresh
          /\ net.call[Catalog].stage \notin Waiting \cup Inside
      BY <1>1, <1>6 DEF RunStarts, Waiting, Inside
    <2> QED
      BY <1>1, <1>3, <2>1
  <1>7. CASE RunImage
    <2>1. /\ UNCHANGED fresh /\ net.call[Catalog].stage \notin Waiting \cup Inside
      BY <1>7 DEF RunImage, Waiting, Inside
    <2>2. CASE RunEnds
      BY <1>5, <2>1, <2>2
    <2>3. CASE /\ net' = [net EXCEPT !.call[Catalog] = NoRequest]
               /\ run' = [run EXCEPT !.pc = "ocr"]
      <3>1. run' = [pc |-> "ocr", attempt |-> run.attempt]
        BY <1>1, <2>3
      <3> QED
        BY <1>1, <1>4, <2>1, <2>3, <3>1
    <2> QED
      BY <1>7, <2>2, <2>3 DEF RunImage
  <1>8. CASE RunOcr
    <2>1. net.call[Catalog].stage \notin Waiting \cup Inside
      BY <1>1, <1>8 DEF RunOcr, Waiting, Inside
    <2>2. CASE RunAsks("dplycourse", run.attempt) /\ fresh' = fresh \cup {Catalog}
      BY <1>1, <1>3, <2>1, <2>2
    <2>3. CASE RunEnds /\ UNCHANGED fresh
      BY <1>5, <2>1, <2>3
    <2> QED
      BY <1>8, <2>2, <2>3 DEF RunOcr
  <1>9. CASE RunPage
    <2>1. net.call[Catalog].stage \notin Waiting \cup Inside /\ fresh' = fresh \ {Catalog}
      BY <1>9 DEF RunPage, Waiting, Inside
    <2>2. CASE RunEnds
      BY <1>5, <2>1, <2>2
    <2>3. CASE run.attempt < SolveAttempts /\ RunAsks("validcode", run.attempt + 1)
      <3>1. run.attempt + 1 \in 0..SolveAttempts
        BY <1>1, <2>3, TrafficAssumption
      <3> QED
        BY <1>3, <2>1, <2>3, <3>1
    <2> QED
      BY <1>9, <2>2, <2>3 DEF RunPage
  <1>10. CASE RunFails
    BY <1>5, <1>10 DEF RunFails, Waiting, Inside
  <1>11. CASE RunOnTheWire
    <2>1. net.call[Catalog].stage = "wire" /\ RequestStep(Catalog) /\ UNCHANGED run
      BY <1>11 DEF RunOnTheWire, OnTheWire, RequestStep, Answers, TransportFails, ClientBreaks
    <2>2. NetMoves({})
      BY <1>1, <2>1, RequestMoves
    <2>3. NetMoves({Catalog})
      BY <2>2 DEF NetMoves
    <2>4. run.pc = "dplycourse" => Catalog \in fresh'
      BY <1>11 DEF RunOnTheWire, TrafficInv, CodeIsFresh
    <2> QED
      BY <1>1, <1>2, <1>11, <2>1, <2>3, <2>4 DEF RunTo, RunOnTheWire
  <1> QED
    BY <1>2, <1>6, <1>7, <1>8, <1>9, <1>10, <1>11 DEF RunPageStep

LEMMA RunKeeps ==
  ASSUME TrafficInv, RunTo
  PROVE  TrafficInv'
  <1> USE DEF RunTo
  <1>1. /\ Catalog \in Tasks /\ Legs \subseteq Tasks /\ Catalog \notin Legs
        /\ UNCHANGED <<leg, result, fan, parked, fed, landed>>
    BY TrafficAssumption, EnrollAssumption DEF enroll
  <1>2. Balance(net', {}, 0, 0)
    BY DEF NetMoves
  <1>3. EnrollTypeOK' /\ ProcessKnown' /\ FanKnown'
    BY <1>1 DEF TrafficInv, EnrollTypeOK, ProcessKnown, FanKnown
  <1>4. CallsKnown'
    BY <1>1 DEF TrafficInv, CallsKnown, NetMoves
  <1>5. CodeIsFresh'
    BY <1>1 DEF TrafficInv, CodeIsFresh
  <1> QED
    BY <1>2, <1>3, <1>4, <1>5 DEF TrafficInv

\* A step of the network alone, or of a task that is neither leg nor catalog run.
LEMMA QuietKeeps ==
  ASSUME TrafficInv, NEW X, X \cap (Legs \cup {Catalog}) = {}, NetMoves(X),
         UNCHANGED <<process, enroll, fresh, run>>
  PROVE  TrafficInv'
  <1>1. /\ Catalog \in Tasks /\ Legs \subseteq Tasks /\ Catalog \notin Legs
        /\ UNCHANGED <<leg, result, fan, parked, fed, landed>>
    BY TrafficAssumption, EnrollAssumption DEF enroll
  <1>2. Balance(net', {}, 0, 0)
    BY DEF NetMoves
  <1>3. EnrollTypeOK' /\ ProcessKnown' /\ FanKnown' /\ CodeIsFresh'
    BY <1>1 DEF TrafficInv, EnrollTypeOK, ProcessKnown, FanKnown, CodeIsFresh
  <1>4. CallsKnown'
    BY <1>1 DEF TrafficInv, CallsKnown, NetMoves
  <1> QED
    BY <1>2, <1>3, <1>4 DEF TrafficInv

\* Another handler, or the write queue.
LEMMA OtherKeeps ==
  ASSUME TrafficInv, NEW c \in Others, OtherStep(c),
         UNCHANGED <<process, enroll, fresh, run>>
  PROVE  TrafficInv'
  <1>1. c \in Tasks /\ c \notin Legs \cup {Catalog} /\ Balance(net, {}, 0, 0)
    BY TrafficAssumption DEF TrafficInv
  <1>2. NetMoves({c})
    <2>1. CASE OtherAsks(c)
      BY <1>1, <2>1, AskMoves DEF OtherAsks, Waiting, Inside
    <2>2. CASE OnTheWire(c)
      BY <1>1, <2>2, RequestMoves DEF RequestStep, NetMoves
    <2>3. CASE OtherEnds(c)
      BY <1>1, <2>3, ForgetMoves DEF OtherEnds, Ended, Waiting, Inside, NetMoves
    <2> QED
      BY <2>1, <2>2, <2>3 DEF OtherStep
  <1> QED
    BY <1>1, <1>2, QuietKeeps

\* FanStarts lets both legs ask at once.
LEMMA FanStartsKeeps ==
  ASSUME TrafficInv, FanStarts, UNCHANGED <<process, run>>
  PROVE  TrafficInv'
  <1> DEFINE k == Ask(net, Regweb, FALSE)
  <1>1. /\ Regweb \in Tasks /\ Sco \in Tasks /\ Regweb # Sco /\ Legs = {Regweb, Sco}
        /\ Catalog \in Tasks /\ Catalog \notin Legs
    BY TrafficAssumption, EnrollAssumption DEF Legs
  <1>2. /\ Balance(net, {}, 0, 0) /\ fan = "idle"
        /\ net' = Ask(k, Sco, FALSE) /\ fan' = "run"
        /\ leg' = [l \in Legs |-> [NoLeg EXCEPT !.pc = "page"]]
        /\ UNCHANGED <<result, parked, fed, fresh, landed>>
    BY DEF FanStarts, TrafficInv
  <1>3. \A l \in Legs : leg[l].pc = "gone" /\ result[l] = "none" /\ net.call[l].stage = "none"
    BY <1>2 DEF TrafficInv, FanKnown, CallsKnown, AwaitsSchool
  <1>4. Balance(k, {}, 0, 0) /\ SameElse(net, k, Regweb)
    BY <1>1, <1>2, <1>3, Asking DEF Waiting, Inside
  <1> HIDE DEF k
  <1>5. k.call[Sco].stage \notin Waiting \cup Inside
    BY <1>1, <1>3, <1>4 DEF SameElse, Waiting, Inside
  <1>6. Balance(net', {}, 0, 0) /\ SameElse(k, net', Sco)
    BY <1>1, <1>2, <1>4, <1>5, Asking
  <1>7. \A d \in Tasks \ Legs : net'.call[d] = net.call[d]
    BY <1>1, <1>4, <1>6 DEF SameElse
  <1>8. [NoLeg EXCEPT !.pc = "page"] \in LegState
    BY NoLegState DEF NoLeg, LegState
  <1>9. \A l \in Legs : leg'[l].pc = "page"
    BY <1>2 DEF NoLeg
  <1>10. EnrollTypeOK' /\ ProcessKnown'
    BY <1>2, <1>8 DEF TrafficInv, EnrollTypeOK, ProcessKnown
  <1>11. CallsKnown'
    BY <1>1, <1>7, <1>9 DEF TrafficInv, CallsKnown, AwaitsSchool
  <1>12. FanKnown'
    BY <1>2, <1>3 DEF TrafficInv, FanKnown
  <1>13. CodeIsFresh'
    BY <1>2, <1>9 DEF TrafficInv, CodeIsFresh
  <1> QED
    BY <1>6, <1>10, <1>11, <1>12, <1>13 DEF TrafficInv

\* The deadline, the end of both legs, parking, feeding and a failing store.
LEMMA FanKeeps ==
  ASSUME TrafficInv, Deadline \/ Join \/ Store \/ StoreFails, UNCHANGED <<process, run>>
  PROVE  TrafficInv'
  <1>1. UNCHANGED <<net, leg, fresh, landed>>
    BY DEF Deadline, Join, Store, Park, Feed, StoreFails
  <1>2. Balance(net', {}, 0, 0) /\ ProcessKnown' /\ CallsKnown' /\ CodeIsFresh'
    BY <1>1 DEF TrafficInv, ProcessKnown, CallsKnown, CodeIsFresh
  <1>3. EnrollTypeOK' /\ FanKnown'
    <2> USE DEF TrafficInv, EnrollTypeOK, FanKnown
    <2>1. CASE Deadline
      BY <1>1, <2>1 DEF Deadline
    <2>2. CASE Join
      BY <1>1, <2>2 DEF Join
    <2>3. CASE StoreFails
      BY <1>1, <2>3 DEF StoreFails
    <2>4. CASE Park("park_regweb", Regweb, "park_sco")
      BY <1>1, <2>4 DEF Park, Legs
    <2>5. CASE Park("park_sco", Sco, "feed_regweb")
      BY <1>1, <2>5 DEF Park, Legs
    <2>6. CASE Feed("feed_regweb", Regweb, "feed_sco")
      BY <1>1, <2>6 DEF Feed, Verdict, Legs
    <2>7. CASE Feed("feed_sco", Sco, "end")
      BY <1>1, <2>7 DEF Feed, Verdict, Legs
    <2> QED
      BY <2>1, <2>2, <2>3, <2>4, <2>5, <2>6, <2>7 DEF Store
  <1> QED
    BY <1>2, <1>3 DEF TrafficInv

-----------------------------------------------------------------------------
(* The theorems.                                                            *)

LEMMA TrafficStarts == TrafficInit => TrafficInv
  <1> SUFFICES ASSUME TrafficInit PROVE TrafficInv
    OBVIOUS
  <1> USE DEF TrafficInit, EnrollInit
  <1>1. \A c \in Tasks : net.call[c] = NoRequest
    BY DEF GateInit
  <1>2. NoRequest \in Request /\ NoRequest.stage = "none"
    BY GateAssumption DEF NoRequest, Request, Stages
  <1>3. Balance(net, {}, 0, 0)
    <2>1. net \in Net
      BY <1>2, GateAssumption DEF GateInit, Net
    <2>2. /\ net.gate = Capacity /\ net.lane = 1
          /\ net.gateLine = <<>> /\ net.laneLine = <<>>
      BY DEF GateInit
    <2>3. /\ Slots(net, {}) = {} /\ Lanes(net, {}) = {}
          /\ At(net, {}, {"gate"}) = {} /\ At(net, {}, {"lane"}) = {}
      BY <1>1, <1>2 DEF Slots, Lanes, At, Inside
    <2>4. Line(<<>>, {})
      BY DEF Line, IsInjective, ToSet
    <2>5. IsFiniteSet({}) /\ Cardinality({}) = 0
      BY FS_EmptySet
    <2>6. Capacity + 0 + 0 = Capacity /\ 1 + 0 + 0 = 1
      BY GateAssumption
    <2> QED
      BY <2>1, <2>2, <2>3, <2>4, <2>5, <2>6 DEF Balance
  <1>4. EnrollTypeOK /\ ProcessKnown
    BY NoLegState, TrafficAssumption DEF EnrollTypeOK, ProcessKnown
  <1>5. CallsKnown /\ FanKnown /\ CodeIsFresh
    BY <1>1, <1>2, NoLegState, EnrollAssumption, TrafficAssumption
       DEF CallsKnown, FanKnown, CodeIsFresh
  <1> QED
    BY <1>3, <1>4, <1>5 DEF TrafficInv

LEMMA TrafficStep == TrafficInv /\ [TrafficNext]_trafficVars => TrafficInv'
  <1> SUFFICES ASSUME TrafficInv, [TrafficNext]_trafficVars PROVE TrafficInv'
    OBVIOUS
  <1>1. CASE ApiNext
    <2>1. UNCHANGED <<process, run>>
      BY <1>1 DEF ApiNext
    <2>2. CASE \E l \in Legs : Leg(l)
      BY <2>1, <2>2, LegActions, LegKeeps
    <2>3. CASE \E l \in Legs : LegOnTheWire(l) \/ CutOff(l)
      BY <2>1, <2>3, LegPassive, LegKeeps
    <2>4. CASE FanStarts
      BY <2>1, <2>4, FanStartsKeeps
    <2>5. CASE Deadline \/ Join \/ Store \/ StoreFails
      BY <2>1, <2>5, FanKeeps
    <2> QED
      BY <1>1, <2>2, <2>3, <2>4, <2>5 DEF ApiNext, FanOutStep
  <1>2. CASE WorkerNext
    BY <1>2, RunActions, RunKeeps
  <1>3. CASE \E c \in Others : OtherStep(c) /\ UNCHANGED <<process, enroll, fresh, run>>
    BY <1>3, OtherKeeps
  <1>4. ASSUME NEW c \in Tasks, Backoff(c) /\ UNCHANGED process
        PROVE  TrafficInv'
    <2>1. RequestStep(c) /\ UNCHANGED <<process, enroll, fresh, run>>
      BY <1>4 DEF Backoff, RequestStep
    <2>2. NetMoves({})
      BY <2>1, RequestMoves DEF TrafficInv
    <2> QED
      BY <2>1, <2>2, QuietKeeps
  <1>5. CASE UNCHANGED trafficVars
    <2>1. /\ UNCHANGED <<net, leg, result, fan, parked, fed, landed, fresh, process, run>>
      BY <1>5 DEF trafficVars, enrollVars, enroll
    <2> QED
      BY <2>1 DEF TrafficInv, EnrollTypeOK, ProcessKnown, CallsKnown, FanKnown, CodeIsFresh
  <1> QED
    BY <1>1, <1>2, <1>3, <1>4, <1>5 DEF TrafficNext

LEMMA TrafficIsSound == TrafficSpec => []TrafficInv
  BY TrafficStarts, TrafficStep, PTL DEF TrafficSpec

\* No way out of a request leaks or doubles a slot of either semaphore, nobody waits
\* beside a free slot, and each line holds who waits, each once: for every number of
\* tasks, every capacity and every number of attempts.
THEOREM TrafficGateHolds == TrafficSpec => []GateHolds
  <1>1. TrafficInv => GateHolds
    <2> SUFFICES ASSUME TrafficInv PROVE GateHolds
      OBVIOUS
    <2>1. /\ Slots(net, {}) = InStage(Inside)
          /\ Lanes(net, {}) = Laned(InStage(Inside \cup {"gate"}))
          /\ At(net, {}, {"gate"}) = InStage({"gate"})
          /\ At(net, {}, {"lane"}) = InStage({"lane"})
      BY DEF Slots, Lanes, At, InStage, Laned
    <2>2. Balance(net, {}, 0, 0) /\ net \in Net
      BY DEF TrafficInv, Balance
    <2>3. /\ Cardinality(Slots(net, {})) \in Nat /\ Cardinality(Lanes(net, {})) \in Nat
          /\ net.gate \in Nat /\ net.lane \in Nat
      BY <2>2, FS_CardinalityType DEF Balance, Net
    <2>4. /\ net.gate + Cardinality(Slots(net, {})) = Capacity
          /\ net.lane + Cardinality(Lanes(net, {})) = 1
      BY <2>2, <2>3, GateAssumption DEF Balance
    <2> QED
      BY <2>1, <2>2, <2>4 DEF GateHolds, Balance, Line
  <1> QED
    BY <1>1, TrafficIsSound, PTL

\* The state of the traffic stays in its types; a semaphore never holds more than it
\* has, and no counter of attempts, fetches, hops or redirects passes its limit.
THEOREM TrafficTypes == TrafficSpec => []TrafficTypeOK
  <1>1. TrafficInv => TrafficTypeOK
    <2> SUFFICES ASSUME TrafficInv PROVE TrafficTypeOK
      OBVIOUS
    <2>1. Balance(net, {}, 0, 0) /\ net \in Net
      BY DEF TrafficInv, Balance
    <2>2. /\ Cardinality(Slots(net, {})) \in Nat /\ Cardinality(Lanes(net, {})) \in Nat
          /\ net.gate \in Nat /\ net.lane \in Nat
      BY <2>1, FS_CardinalityType DEF Balance, Net
    <2>3. net.gate \in 0..Capacity /\ net.lane \in 0..1
      BY <2>1, <2>2, GateAssumption DEF Balance
    <2>4. \A c \in Tasks : net.call[c].tries \in 0..MaxSends
      BY <2>1 DEF Net, Request
    <2> QED
      BY <2>3, <2>4 DEF TrafficInv, ProcessKnown, TrafficTypeOK
  <1> QED
    BY <1>1, TrafficIsSound, PTL

\* A posted code was read from the last image the school issued, whatever resends,
\* deadlines and repeated attempts lie in between.
THEOREM TrafficCodeIsFresh == TrafficSpec => []CodeIsFresh
  <1>1. TrafficInv => CodeIsFresh
    BY DEF TrafficInv
  <1> QED
    BY <1>1, TrafficIsSound, PTL

\* What a leg had bought when the other was cut off or failed is parked, nothing else
\* is, and the breaker is told of the school only.
THEOREM TrafficFinishedLegKept == TrafficSpec => []FinishedLegKept
  <1>1. TrafficInv => FinishedLegKept
    BY DEF TrafficInv, FanKnown, FinishedLegKept
  <1> QED
    BY <1>1, TrafficIsSound, PTL

-----------------------------------------------------------------------------
(* First come, first served.                                                *)

\* Who stands in t is new, or stood in s behind everybody now ahead of it.
InOrder(s, t, new) ==
  \A k \in DOMAIN t : t[k] \notin new =>
    \E b \in DOMAIN s : s[b] = t[k] /\ \A i \in 1..(k - 1) : \E a \in 1..(b - 1) : s[a] = t[i]

\* Nobody who waits for a semaphore is passed by somebody who came later: not when a
\* slot that is given back sets off the next holder of the captcha lane, nor when a
\* task is cancelled in either line.
NobodyOvertakes ==
  [][/\ InOrder(net.gateLine, net'.gateLine, Tasks \ ToSet(net.gateLine))
     /\ InOrder(net.laneLine, net'.laneLine, Tasks \ ToSet(net.laneLine))]_trafficVars

LEMMA OrderKept ==
  ASSUME NEW s, NEW new
  PROVE  InOrder(s, s, new)
  BY DEF InOrder

LEMMA OrderWidened ==
  ASSUME NEW s, NEW t, NEW new, InOrder(s, t, new), NEW all, new \subseteq all
  PROVE  InOrder(s, t, all)
  BY DEF InOrder

LEMMA OrderJoined ==
  ASSUME NEW s \in Seq(Tasks), NEW c \in Tasks, NEW new, c \in new
  PROVE  InOrder(s, Append(s, c), new)
  <1>1. /\ DOMAIN Append(s, c) = 1..(Len(s) + 1) /\ DOMAIN s = 1..Len(s) /\ Len(s) \in Nat
        /\ \A i \in 1..Len(s) : Append(s, c)[i] = s[i]
        /\ Append(s, c)[Len(s) + 1] = c
    OBVIOUS
  <1>2. \A k \in 1..(Len(s) + 1) : k = Len(s) + 1 \/ (k \in 1..Len(s) /\ 1..(k - 1) \subseteq 1..Len(s))
    BY <1>1
  <1> QED
    BY <1>1, <1>2 DEF InOrder

LEMMA OrderServed ==
  ASSUME NEW s \in Seq(Tasks), s # <<>>, NEW new
  PROVE  InOrder(s, Tail(s), new)
  <1>1. /\ Len(s) \in Nat \ {0} /\ DOMAIN s = 1..Len(s) /\ DOMAIN Tail(s) = 1..(Len(s) - 1)
        /\ \A i \in 1..(Len(s) - 1) : Tail(s)[i] = s[i + 1]
    OBVIOUS
  <1>2. ASSUME NEW k \in 1..(Len(s) - 1)
        PROVE  /\ k + 1 \in 1..Len(s)
               /\ \A i \in 1..(k - 1) : i + 1 \in 1..((k + 1) - 1) /\ i \in 1..(Len(s) - 1)
    BY <1>1
  <1> QED
    BY <1>1, <1>2 DEF InOrder

LEMMA OrderQuit ==
  ASSUME NEW s, NEW S, Line(s, S), NEW c \in S, NEW new
  PROVE  InOrder(s, RemoveFirst(s, c), new)
  <1>1. s \in Seq(Tasks) /\ Len(s) \in Nat /\ DOMAIN s = 1..Len(s)
    BY DEF Line
  <1>2. PICK k \in 1..Len(s) : s[k] = c
    BY <1>1 DEF Line, ToSet
  <1> DEFINE q == RemoveFirst(s, c)
             at(i) == IF i < k THEN i ELSE i + 1
  <1>3. /\ q \in Seq(Tasks) /\ Len(q) = Len(s) - 1
        /\ \A i \in 1..(Len(s) - 1) : q[i] = IF i < k THEN s[i] ELSE s[i + 1]
    BY <1>2, TakeFromLine
  <1> HIDE DEF q
  <1>4. DOMAIN q = 1..(Len(s) - 1) /\ \A i \in 1..(Len(s) - 1) : q[i] = s[at(i)]
    BY <1>1, <1>3
  <1>5. \A i, m \in 1..(Len(s) - 1) : at(m) \in 1..Len(s) /\ (i < m => at(i) \in 1..(at(m) - 1))
    BY <1>1
  <1>6. \A m \in 1..(Len(s) - 1) : \A i \in 1..(m - 1) : i \in 1..(Len(s) - 1) /\ i < m
    BY <1>1
  <1> HIDE DEF at
  <1>7. InOrder(s, q, new)
    BY <1>1, <1>4, <1>5, <1>6 DEF InOrder
  <1> QED
    BY <1>7 DEF q

LEMMA OrderJoins ==
  ASSUME NEW s, NEW t, NEW u, NEW new, NEW newer, NEW all, new \subseteq all, newer \subseteq all,
         InOrder(s, t, new), InOrder(t, u, newer)
  PROVE  InOrder(s, u, all)
  <1> SUFFICES ASSUME NEW k \in DOMAIN u, u[k] \notin all
               PROVE  \E c \in DOMAIN s :
                        s[c] = u[k] /\ \A i \in 1..(k - 1) : \E a \in 1..(c - 1) : s[a] = u[i]
    BY DEF InOrder
  <1>1. PICK b \in DOMAIN t :
          t[b] = u[k] /\ \A i \in 1..(k - 1) : \E a \in 1..(b - 1) : t[a] = u[i]
    BY DEF InOrder
  <1>2. PICK c \in DOMAIN s :
          s[c] = t[b] /\ \A i \in 1..(b - 1) : \E a \in 1..(c - 1) : s[a] = t[i]
    BY <1>1 DEF InOrder
  <1> QED
    BY <1>1, <1>2

\* Both lines; who is served in the captcha lane is a newcomer at the gate.
NetInOrder(n, m, new) ==
  /\ InOrder(n.gateLine, m.gateLine, new \cup ToSet(n.laneLine))
  /\ InOrder(n.laneLine, m.laneLine, new)

SameLines(n, m) == m.gateLine = n.gateLine /\ m.laneLine = n.laneLine

LEMMA NetSame ==
  ASSUME NEW n, NEW m, SameLines(n, m), NEW new
  PROVE  NetInOrder(n, m, new)
  BY OrderKept DEF NetInOrder, SameLines

LEMMA NetJoins ==
  ASSUME NEW n, NEW m, NEW p, NEW new, NEW newer, NEW all,
         new \subseteq all, newer \subseteq all,
         NetInOrder(n, m, new), NetInOrder(m, p, newer)
  PROVE  NetInOrder(n, p, all)
  <1>1. InOrder(n.laneLine, p.laneLine, all)
    BY OrderJoins DEF NetInOrder
  <1>2. ToSet(m.laneLine) \subseteq new \cup ToSet(n.laneLine)
    BY DEF NetInOrder, InOrder, ToSet
  <1>3. /\ new \cup ToSet(n.laneLine) \subseteq all \cup ToSet(n.laneLine)
        /\ newer \cup ToSet(m.laneLine) \subseteq all \cup ToSet(n.laneLine)
    BY <1>2
  <1>4. InOrder(n.gateLine, p.gateLine, all \cup ToSet(n.laneLine))
    <2>1. /\ InOrder(n.gateLine, m.gateLine, new \cup ToSet(n.laneLine))
          /\ InOrder(m.gateLine, p.gateLine, newer \cup ToSet(m.laneLine))
      BY DEF NetInOrder
    <2> QED
      BY <1>3, <2>1, OrderJoins
  <1> QED
    BY <1>1, <1>4 DEF NetInOrder

\* Who enters the gate is the only newcomer there.
LEMMA GateOrder ==
  ASSUME NEW n \in Net, NEW c \in Tasks, NEW new, c \in new
  PROVE  /\ EnterGate(n, c) \in Net
         /\ InOrder(n.gateLine, EnterGate(n, c).gateLine, new)
         /\ EnterGate(n, c).laneLine = n.laneLine
  <1>1. n.gateLine \in Seq(Tasks)
    BY DEF Net
  <1>2. InOrder(n.gateLine, Append(n.gateLine, c), new)
    BY <1>1, OrderJoined
  <1> QED
    BY <1>2, EnterGateNet, OrderKept

LEMMA AskOrder ==
  ASSUME NEW n \in Net, NEW c \in Tasks, NEW laned \in BOOLEAN
  PROVE  Ask(n, c, laned) \in Net /\ NetInOrder(n, Ask(n, c, laned), {c})
  <1> DEFINE r == [NoRequest EXCEPT !.laned = laned]
             k == [n EXCEPT !.call[c] = r]
  <1>1. r \in Request
    BY GateAssumption DEF NoRequest, Request, Stages
  <1>2. k \in Net /\ SameLines(n, k)
    BY <1>1, NetWith DEF SameLines
  <1>3. Ask(n, c, laned) = IF laned THEN EnterLane(k, c) ELSE EnterGate(k, c)
    BY DEF Ask
  <1> HIDE DEF k
  <1>4. ASSUME NEW p \in Net, SameLines(n, p)
        PROVE  EnterGate(p, c) \in Net /\ NetInOrder(n, EnterGate(p, c), {c})
    <2>1. /\ EnterGate(p, c) \in Net /\ EnterGate(p, c).laneLine = n.laneLine
          /\ InOrder(n.gateLine, EnterGate(p, c).gateLine, {c} \cup ToSet(n.laneLine))
      BY <1>4, GateOrder DEF SameLines
    <2> QED
      BY <2>1, OrderKept DEF NetInOrder
  <1>5. EnterLane(k, c) \in Net /\ NetInOrder(n, EnterLane(k, c), {c})
    <2>1. CASE k.lane > 0
      <3> DEFINE p == [k EXCEPT !.lane = @ - 1]
      <3>1. p \in Net /\ SameLines(n, p)
        <4>1. p \in Net /\ p.gateLine = k.gateLine /\ p.laneLine = k.laneLine
          <5>1. k.lane \in Nat /\ k.lane - 1 \in Nat
            BY <1>2, <2>1 DEF Net
          <5> QED
            BY <1>2, <5>1 DEF Net
        <4> QED
          BY <1>2, <4>1 DEF SameLines
      <3>2. EnterLane(k, c) = EnterGate(p, c)
        BY <2>1 DEF EnterLane
      <3> QED
        BY <1>4, <3>1, <3>2
    <2>2. CASE ~(k.lane > 0)
      <3> DEFINE p == [k EXCEPT !.laneLine = Append(@, c)]
                 q == [k.call[c] EXCEPT !.stage = "lane"]
      <3>1. k.laneLine \in Seq(Tasks) /\ k.call[c] \in Request
        BY <1>2 DEF Net
      <3>2. q \in Request /\ Append(k.laneLine, c) \in Seq(Tasks)
        BY <3>1 DEF Request, Stages, Waiting
      <3>3. /\ p \in Net /\ p.call = k.call /\ p.gateLine = k.gateLine
            /\ p.laneLine = Append(k.laneLine, c)
        BY <1>2, <3>2 DEF Net
      <3>4. EnterLane(k, c) = [p EXCEPT !.call[c] = q]
        BY <1>2, <2>2 DEF EnterLane, Net
      <3> HIDE DEF p, q
      <3>5. /\ EnterLane(k, c) \in Net /\ EnterLane(k, c).gateLine = n.gateLine
            /\ EnterLane(k, c).laneLine = Append(n.laneLine, c)
        BY <1>2, <3>2, <3>3, <3>4, NetWith DEF SameLines
      <3>6. InOrder(n.laneLine, Append(n.laneLine, c), {c})
        BY <1>2, <3>1, OrderJoined DEF SameLines
      <3> QED
        BY <3>5, <3>6, OrderKept DEF NetInOrder
    <2> QED
      BY <2>1, <2>2
  <1> QED
    BY <1>2, <1>3, <1>4, <1>5

\* A slot that is given back goes to the head of the line.
LEMMA LeaveGateOrder ==
  ASSUME NEW n \in Net
  PROVE  LeaveGate(n) \in Net /\ NetInOrder(n, LeaveGate(n), {})
  <1>1. n.gateLine \in Seq(Tasks)
    BY DEF Net
  <1>2. CASE n.gateLine = <<>>
    <2>1. LeaveGate(n) \in Net /\ SameLines(n, LeaveGate(n))
      BY <1>2 DEF LeaveGate, Net, SameLines
    <2> QED
      BY <2>1, NetSame
  <1>3. CASE n.gateLine # <<>>
    <2> DEFINE k == [n EXCEPT !.gateLine = Tail(@)]
               c == Head(n.gateLine)
    <2>1. c \in Tasks /\ Tail(n.gateLine) \in Seq(Tasks)
      BY <1>1, <1>3
    <2>2. k \in Net /\ k.gateLine = Tail(n.gateLine) /\ k.laneLine = n.laneLine
      BY <2>1 DEF Net
    <2>3. LeaveGate(n) = OnWire(k, c)
      BY <1>3 DEF LeaveGate
    <2> HIDE DEF k, c
    <2>4. /\ LeaveGate(n) \in Net /\ LeaveGate(n).gateLine = Tail(n.gateLine)
          /\ LeaveGate(n).laneLine = n.laneLine
      BY <2>1, <2>2, <2>3, OnWireNet
    <2>5. InOrder(n.gateLine, Tail(n.gateLine), {} \cup ToSet(n.laneLine))
      BY <1>1, <1>3, OrderServed
    <2> QED
      BY <2>4, <2>5, OrderKept DEF NetInOrder
  <1> QED
    BY <1>2, <1>3

\* The next holder of the captcha slot goes to the end of the gate's line.
LEMMA LeaveLaneOrder ==
  ASSUME NEW n \in Net
  PROVE  LeaveLane(n) \in Net /\ NetInOrder(n, LeaveLane(n), {})
  <1>1. n.laneLine \in Seq(Tasks)
    BY DEF Net
  <1>2. CASE n.laneLine = <<>>
    <2>1. LeaveLane(n) \in Net /\ SameLines(n, LeaveLane(n))
      BY <1>2 DEF LeaveLane, Net, SameLines
    <2> QED
      BY <2>1, NetSame
  <1>3. CASE n.laneLine # <<>>
    <2> DEFINE k == [n EXCEPT !.laneLine = Tail(@)]
               c == Head(n.laneLine)
    <2>1. c \in Tasks /\ Tail(n.laneLine) \in Seq(Tasks) /\ c \in ToSet(n.laneLine)
      BY <1>1, <1>3 DEF ToSet
    <2>2. k \in Net /\ k.laneLine = Tail(n.laneLine) /\ k.gateLine = n.gateLine
      BY <2>1 DEF Net
    <2>3. LeaveLane(n) = EnterGate(k, c)
      BY <1>3 DEF LeaveLane
    <2> HIDE DEF k, c
    <2>4. /\ LeaveLane(n) \in Net /\ LeaveLane(n).laneLine = Tail(n.laneLine)
          /\ InOrder(n.gateLine, LeaveLane(n).gateLine, {} \cup ToSet(n.laneLine))
      BY <2>1, <2>2, <2>3, GateOrder
    <2>5. InOrder(n.laneLine, Tail(n.laneLine), {})
      BY <1>1, <1>3, OrderServed
    <2> QED
      BY <2>4, <2>5 DEF NetInOrder
  <1> QED
    BY <1>2, <1>3

LEMMA GiveBackOrder ==
  ASSUME NEW n \in Net, NEW c \in Tasks, NEW verdict \in Ended \cup {"none"}
  PROVE  NetInOrder(n, GiveBack(n, c, verdict), {})
  <1> DEFINE r == [n.call[c] EXCEPT !.stage = verdict]
             k == [n EXCEPT !.call[c] = r]
  <1>1. n.call[c] \in Request
    BY DEF Net
  <1>2. r \in Request
    BY <1>1 DEF Request, Stages
  <1>3. k \in Net /\ SameLines(n, k)
    BY <1>2, NetWith DEF SameLines
  <1>4. GiveBack(n, c, verdict) =
          IF n.call[c].laned THEN LeaveLane(LeaveGate(k)) ELSE LeaveGate(k)
    <2>1. k = [n EXCEPT !.call[c].stage = verdict]
      BY DEF Net
    <2> QED
      BY <2>1 DEF GiveBack
  <1> HIDE DEF k
  <1>5. LeaveGate(k) \in Net /\ NetInOrder(k, LeaveGate(k), {})
    BY <1>3, LeaveGateOrder
  <1>6. NetInOrder(n, LeaveGate(k), {})
    BY <1>3, <1>5, NetSame, NetJoins
  <1>7. NetInOrder(LeaveGate(k), LeaveLane(LeaveGate(k)), {})
    BY <1>5, LeaveLaneOrder
  <1>8. NetInOrder(n, LeaveLane(LeaveGate(k)), {})
    BY <1>6, <1>7, NetJoins
  <1> QED
    BY <1>4, <1>6, <1>8

\* Who is cancelled in a line leaves it, and holds up nobody behind.
LEMMA CancelOrder ==
  ASSUME NEW n, Balance(n, {}, 0, 0), NEW c \in Tasks
  PROVE  NetInOrder(n, Cancel(n, c), {})
  <1> DEFINE r == [n.call[c] EXCEPT !.stage = "none"]
  <1>1. n \in Net /\ n.call[c] \in Request
    BY DEF Balance, Net
  <1>2. r \in Request
    BY <1>1 DEF Request, Stages
  <1>3. Line(n.gateLine, At(n, {}, {"gate"})) /\ Line(n.laneLine, At(n, {}, {"lane"}))
    BY DEF Balance
  <1>4. CASE n.call[c].stage \in Inside
    <2>1. Cancel(n, c) = GiveBack(n, c, "none")
      BY <1>4 DEF Cancel, Inside
    <2> QED
      BY <1>1, <2>1, GiveBackOrder
  <1>5. CASE n.call[c].stage = "lane"
    <2> DEFINE j == [n EXCEPT !.laneLine = RemoveFirst(@, c)]
    <2>1. c \in At(n, {}, {"lane"})
      BY <1>5 DEF At
    <2>2. RemoveFirst(n.laneLine, c) \in Seq(Tasks)
      BY <1>3, <2>1, QuitLine DEF Line
    <2>3. j \in Net /\ j.laneLine = RemoveFirst(n.laneLine, c) /\ j.gateLine = n.gateLine
      BY <1>1, <2>2 DEF Net
    <2>4. Cancel(n, c) = [j EXCEPT !.call[c] = r]
      BY <1>1, <1>5 DEF Cancel, Inside, Net
    <2> HIDE DEF j, r
    <2>5. /\ Cancel(n, c).laneLine = RemoveFirst(n.laneLine, c)
          /\ Cancel(n, c).gateLine = n.gateLine
      BY <1>2, <2>3, <2>4, NetWith
    <2>6. InOrder(n.laneLine, RemoveFirst(n.laneLine, c), {})
      BY <1>3, <2>1, OrderQuit
    <2> QED
      BY <2>5, <2>6, OrderKept DEF NetInOrder
  <1>6. CASE n.call[c].stage = "gate"
    <2> DEFINE j == [n EXCEPT !.gateLine = RemoveFirst(@, c)]
               k == [j EXCEPT !.call[c] = r]
    <2>1. c \in At(n, {}, {"gate"})
      BY <1>6 DEF At
    <2>2. RemoveFirst(n.gateLine, c) \in Seq(Tasks)
      BY <1>3, <2>1, QuitLine DEF Line
    <2>3. j \in Net /\ j.gateLine = RemoveFirst(n.gateLine, c) /\ j.laneLine = n.laneLine
      BY <1>1, <2>2 DEF Net
    <2>4. Cancel(n, c) = IF n.call[c].laned THEN LeaveLane(k) ELSE k
      BY <1>1, <1>6 DEF Cancel, Inside, Net
    <2> HIDE DEF j, r
    <2>5. /\ k \in Net /\ k.gateLine = RemoveFirst(n.gateLine, c)
          /\ k.laneLine = n.laneLine
      BY <1>2, <2>3, NetWith
    <2> HIDE DEF k
    <2>6. InOrder(n.gateLine, RemoveFirst(n.gateLine, c), {} \cup ToSet(n.laneLine))
      BY <1>3, <2>1, OrderQuit
    <2>7. NetInOrder(n, k, {})
      BY <2>5, <2>6, OrderKept DEF NetInOrder
    <2>8. NetInOrder(n, LeaveLane(k), {})
      BY <2>5, <2>7, LeaveLaneOrder, NetJoins
    <2> QED
      BY <2>4, <2>7, <2>8
  <1>7. CASE n.call[c].stage \notin Inside \cup Waiting
    <2>1. Cancel(n, c) = [n EXCEPT !.call[c] = r]
      BY <1>1, <1>7 DEF Cancel, Inside, Waiting, Net
    <2>2. SameLines(n, Cancel(n, c))
      BY <1>1, <1>2, <2>1, NetWith DEF SameLines
    <2> QED
      BY <2>2, NetSame
  <1> QED
    BY <1>4, <1>5, <1>6, <1>7 DEF Inside, Waiting

-----------------------------------------------------------------------------
(* What a step does to the lines.                                           *)

\* Only who neither waits nor holds a slot joins a line.
LinesMove ==
  \E new \in SUBSET {c \in Tasks : net.call[c].stage \notin Waiting \cup Inside} :
    NetInOrder(net, net', new)

LEMMA AskedInOrder ==
  ASSUME net \in Net, NEW c \in Tasks, net.call[c].stage \notin Waiting \cup Inside,
         NEW laned \in BOOLEAN, net' = Ask(net, c, laned)
  PROVE  LinesMove
  <1>1. NetInOrder(net, net', {c})
    BY AskOrder
  <1> QED
    BY <1>1 DEF LinesMove

LEMMA NobodyNew ==
  ASSUME NetInOrder(net, net', {})
  PROVE  LinesMove
  BY DEF LinesMove

LEMMA ForgottenInOrder ==
  ASSUME net \in Net, NEW c \in Tasks, net' = [net EXCEPT !.call[c] = NoRequest]
  PROVE  LinesMove
  <1>1. SameLines(net, net')
    <2>1. NoRequest \in Request
      BY GateAssumption DEF NoRequest, Request, Stages
    <2> QED
      BY <2>1, NetWith DEF SameLines
  <1> QED
    BY <1>1, NetSame, NobodyNew

LEMMA RequestInOrder ==
  ASSUME net \in Net, NEW c \in Tasks, RequestStep(c)
  PROVE  LinesMove
  <1>1. ASSUME NEW verdict \in Ended, net' = GiveBack(net, c, verdict) PROVE LinesMove
    BY <1>1, GiveBackOrder, NobodyNew
  <1>2. CASE TransportFails(c) \/ (BackoffEnds(c) /\ net.call[c].tries < MaxSends)
    <2>1. SameLines(net, net')
      BY <1>2 DEF TransportFails, BackoffEnds, Net, SameLines
    <2> QED
      BY <2>1, NetSame, NobodyNew
  <1> QED
    BY <1>1, <1>2 DEF RequestStep, OnTheWire, Answers, ClientBreaks, BackoffEnds, Ended

LEMMA LegInOrder ==
  ASSUME TrafficInv, NEW l \in Legs, Leg(l)
  PROVE  LinesMove
  <1>1. l \in Tasks /\ net \in Net
    BY EnrollAssumption DEF TrafficInv, Balance
  <1>2. net.call[l].stage \notin Waiting \cup Inside
    <2>1. net.call[l].stage # "none" => leg[l].pc \in AwaitsSchool
      BY DEF TrafficInv, CallsKnown
    <2>2. leg[l].pc = "ocr" \/ net.call[l].stage \in Ended
      BY DEF Leg, LegPage, LegImage, LegOcr, LegPost, LegWalk, LegFails, Answered, Ended
    <2> QED
      BY <2>1, <2>2 DEF AwaitsSchool, Ended, Waiting, Inside
  <1>3. net' = Ask(net, l, FALSE) \/ net' = [net EXCEPT !.call[l] = NoRequest]
    <2>1. ASSUME NEW next, Proceed(l, next)
          PROVE  net' = Ask(net, l, FALSE) \/ net' = [net EXCEPT !.call[l] = NoRequest]
      BY <2>1 DEF Proceed
    <2>2. ASSUME NEW outcome, EndLeg(l, outcome) PROVE net' = [net EXCEPT !.call[l] = NoRequest]
      BY <2>2 DEF EndLeg
    <2>3. ASSUME NEW page, Walk(l, page)
          PROVE  net' = Ask(net, l, FALSE) \/ net' = [net EXCEPT !.call[l] = NoRequest]
      BY <2>1, <2>2, <2>3 DEF Walk
    <2>4. CASE LegPage(l) \/ LegImage(l)
      BY <2>1, <2>2, <2>4 DEF LegPage, LegImage
    <2>5. CASE LegOcr(l) \/ LegFails(l)
      BY <2>1, <2>2, <2>5 DEF LegOcr, NextFetch, LegFails
    <2>6. CASE LegPost(l) \/ LegWalk(l)
      BY <2>1, <2>2, <2>3, <2>6 DEF LegPost, LegWalk, NextAttempt
    <2> QED
      BY <2>4, <2>5, <2>6 DEF Leg
  <1> QED
    BY <1>1, <1>2, <1>3, AskedInOrder, ForgottenInOrder

\* Both legs ask, one after the other.
LEMMA FanInOrder ==
  ASSUME TrafficInv, FanStarts
  PROVE  LinesMove
  <1>1. /\ Regweb \in Tasks /\ Sco \in Tasks /\ Legs = {Regweb, Sco} /\ net \in Net
    BY EnrollAssumption DEF Legs, TrafficInv, Balance
  <1>2. \A l \in Legs : net.call[l].stage = "none"
    BY DEF FanStarts, TrafficInv, FanKnown, CallsKnown, AwaitsSchool
  <1> DEFINE asked == Ask(net, Regweb, FALSE)
             both == {Regweb, Sco}
  <1>3. asked \in Net /\ NetInOrder(net, asked, {Regweb})
    BY <1>1, AskOrder
  <1>4. NetInOrder(asked, net', {Sco})
    BY <1>1, <1>3, AskOrder DEF FanStarts
  <1> HIDE DEF asked
  <1>5. NetInOrder(net, net', both)
    <2>1. {Regweb} \subseteq both /\ {Sco} \subseteq both
      OBVIOUS
    <2> HIDE DEF both
    <2> QED
      BY <1>3, <1>4, <2>1, NetJoins
  <1>6. {Regweb, Sco} \subseteq {c \in Tasks : net.call[c].stage \notin Waiting \cup Inside}
    BY <1>1, <1>2 DEF Waiting, Inside
  <1> QED
    BY <1>5, <1>6 DEF LinesMove

LEMMA RunInOrder ==
  ASSUME TrafficInv, RunPageStep
  PROVE  LinesMove
  <1>1. Catalog \in Tasks /\ net \in Net
    BY TrafficAssumption DEF TrafficInv, Balance
  <1>2. CASE RunOnTheWire
    BY <1>1, <1>2, RequestInOrder DEF RunOnTheWire, RequestStep
  <1>3. ASSUME ~RunOnTheWire
        PROVE  /\ net.call[Catalog].stage \notin Waiting \cup Inside
               /\ \/ net' = Ask(net, Catalog, TRUE)
                  \/ net' = [net EXCEPT !.call[Catalog] = NoRequest]
    <2>1. net.call[Catalog].stage # "none" => run.pc \in {"validcode", "dplycourse"}
      BY DEF TrafficInv, CallsKnown
    <2>2. run.pc \in {"idle", "ocr"} \/ net.call[Catalog].stage \in Ended
      BY <1>3 DEF RunPageStep, RunStarts, RunImage, RunOcr, RunPage, RunFails, Ended
    <2>3. net.call[Catalog].stage \notin Waiting \cup Inside
      BY <2>1, <2>2 DEF Ended, Waiting, Inside
    <2> QED
      BY <1>3, <2>3 DEF RunPageStep, RunStarts, RunImage, RunOcr, RunPage, RunFails,
                        RunAsks, RunEnds
  <1> QED
    BY <1>1, <1>2, <1>3, AskedInOrder, ForgottenInOrder

LEMMA TrafficInOrder ==
  ASSUME TrafficInv, [TrafficNext]_trafficVars
  PROVE  LinesMove
  <1>1. net \in Net /\ Legs \subseteq Tasks /\ Others \subseteq Tasks /\ Balance(net, {}, 0, 0)
    BY EnrollAssumption, TrafficAssumption DEF TrafficInv, Balance
  <1>2. ASSUME UNCHANGED net PROVE LinesMove
    BY <1>2, NetSame, NobodyNew DEF SameLines
  <1>3. CASE ApiNext
    <2>1. ASSUME NEW l \in Legs, CutOff(l) PROVE LinesMove
      BY <1>1, <2>1, CancelOrder, NobodyNew DEF CutOff
    <2>2. ASSUME NEW l \in Legs, LegOnTheWire(l) PROVE LinesMove
      BY <1>1, <2>2, RequestInOrder DEF LegOnTheWire, RequestStep
    <2>3. CASE Deadline \/ Join \/ Store \/ StoreFails
      BY <1>2, <2>3 DEF Deadline, Join, Store, Park, Feed, StoreFails
    <2> QED
      BY <1>3, <2>1, <2>2, <2>3, FanInOrder, LegInOrder DEF ApiNext, FanOutStep
  <1>4. CASE WorkerNext
    BY <1>4, RunInOrder DEF WorkerNext
  <1>5. ASSUME NEW c \in Others, OtherStep(c) PROVE LinesMove
    <2>1. CASE OtherAsks(c)
      BY <1>1, <2>1, AskedInOrder DEF OtherAsks, Waiting, Inside
    <2>2. CASE OnTheWire(c)
      BY <1>1, <2>2, RequestInOrder DEF RequestStep
    <2>3. CASE OtherEnds(c)
      BY <1>1, <2>3, ForgottenInOrder DEF OtherEnds
    <2> QED
      BY <1>5, <2>1, <2>2, <2>3 DEF OtherStep
  <1>6. ASSUME NEW c \in Tasks, Backoff(c) PROVE LinesMove
    BY <1>1, <1>6, RequestInOrder DEF Backoff, RequestStep
  <1>7. CASE UNCHANGED trafficVars
    BY <1>2, <1>7 DEF trafficVars, enrollVars
  <1> QED
    BY <1>3, <1>4, <1>5, <1>6, <1>7 DEF TrafficNext

\* For every number of tasks and every capacity, and whatever ends, is cut off or is
\* handed on in a step: nobody who waits is passed.  This is the safety half of
\* EveryRequestEnds: the tasks ahead of one that waits only become fewer.
THEOREM TrafficFirstComeFirstServed == TrafficSpec => NobodyOvertakes
  <1>1. TrafficInv /\ [TrafficNext]_trafficVars =>
          [/\ InOrder(net.gateLine, net'.gateLine, Tasks \ ToSet(net.gateLine))
           /\ InOrder(net.laneLine, net'.laneLine, Tasks \ ToSet(net.laneLine))]_trafficVars
    <2> SUFFICES ASSUME TrafficInv, [TrafficNext]_trafficVars
                 PROVE  /\ InOrder(net.gateLine, net'.gateLine, Tasks \ ToSet(net.gateLine))
                        /\ InOrder(net.laneLine, net'.laneLine, Tasks \ ToSet(net.laneLine))
      OBVIOUS
    <2>1. PICK new \in SUBSET {c \in Tasks : net.call[c].stage \notin Waiting \cup Inside} :
            NetInOrder(net, net', new)
      BY TrafficInOrder DEF LinesMove
    <2>2. /\ ToSet(net.gateLine) = {c \in Tasks : net.call[c].stage = "gate"}
          /\ ToSet(net.laneLine) = {c \in Tasks : net.call[c].stage = "lane"}
      <3>1. /\ At(net, {}, {"gate"}) = {c \in Tasks : net.call[c].stage = "gate"}
            /\ At(net, {}, {"lane"}) = {c \in Tasks : net.call[c].stage = "lane"}
        BY DEF At
      <3> QED
        BY <3>1 DEF TrafficInv, Balance, Line
    <2>3. /\ new \cup ToSet(net.laneLine) \subseteq Tasks \ ToSet(net.gateLine)
          /\ new \subseteq Tasks \ ToSet(net.laneLine)
      BY <2>2 DEF Waiting
    <2> QED
      BY <2>1, <2>3, OrderWidened DEF NetInOrder
  <1> QED
    BY <1>1, TrafficIsSound, PTL DEF TrafficSpec, NobodyOvertakes

=============================================================================
