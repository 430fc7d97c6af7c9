--------------------------- MODULE RunLoopProofs ---------------------------
(***************************************************************************)
(* The run loop's queue is first-in first-out and run() leaves nothing     *)
(* behind: for every set of producers and finishers, every number of       *)
(* rounds and every continuation.                                          *)
(***************************************************************************)
EXTENDS RunLoop, FiniteSetTheorems, SequenceTheorems, WellFoundedInduction, TLAPS

-----------------------------------------------------------------------------
(* Counting the occurrences of a node.                                     *)

\* A count is a natural number, and an append counts one more or none.
LEMMA TimesAppend ==
    ASSUME NEW s \in Seq(Nodes), NEW m \in Nodes, NEW n
    PROVE  /\ Times(n, s) \in Nat
           /\ Times(n, Append(s, m)) = IF m = n THEN Times(n, s) + 1 ELSE Times(n, s)
<1> DEFINE S == {i \in DOMAIN s : s[i] = n}
           A == {i \in DOMAIN Append(s, m) : Append(s, m)[i] = n}
           k == Len(s) + 1
<1>1. IsFiniteSet(1 .. Len(s))
  BY FS_Interval
<1>2. IsFiniteSet(S)
  BY <1>1, FS_Subset
<1>3. k \notin S
  OBVIOUS
<1>4. m = n => A = S \union {k}
  OBVIOUS
<1>5. m # n => A = S
  OBVIOUS
<1>6. Cardinality(S) \in Nat
  BY <1>2, FS_CardinalityType
<1>7. Cardinality(S \union {k}) = Cardinality(S) + 1
  BY <1>2, <1>3, FS_AddElement
<1> QED
  BY <1>4, <1>5, <1>6, <1>7 DEF Times

\* What was executed is a prefix of what was pushed: no node occurs in it
\* more often, and one that occurs as often is not pending.
LEMMA TimesPrefix ==
    ASSUME NEW s \in Seq(Nodes), NEW r \in Seq(Nodes), NEW n, Len(s) <= Len(r),
           \A i \in 1 .. Len(s) : s[i] = r[i]
    PROVE  /\ Times(n, s) \in Nat /\ Times(n, r) \in Nat
           /\ Times(n, s) <= Times(n, r)
           /\ Times(n, s) = Times(n, r) => \A i \in Len(s) + 1 .. Len(r) : r[i] # n
           /\ (\E i \in Len(s) + 1 .. Len(r) : r[i] = n) => Times(n, s) < Times(n, r)
<1> DEFINE S == {i \in DOMAIN s : s[i] = n}
           R == {i \in DOMAIN r : r[i] = n}
<1>1. IsFiniteSet(1 .. Len(s)) /\ IsFiniteSet(1 .. Len(r))
  BY FS_Interval
<1>2. IsFiniteSet(S) /\ IsFiniteSet(R)
  BY <1>1, FS_Subset
<1>3. S \subseteq R
  OBVIOUS
<1>4. Cardinality(S) \in Nat /\ Cardinality(R) \in Nat
  BY <1>2, FS_CardinalityType
<1>5. Cardinality(S) <= Cardinality(R) /\ (Cardinality(S) = Cardinality(R) => S = R)
  BY <1>2, <1>3, FS_Subset
<1>6. ASSUME NEW i \in Len(s) + 1 .. Len(r), r[i] = n
      PROVE  S # R
  BY <1>6
<1> QED
  BY <1>4, <1>5, <1>6 DEF Times

-----------------------------------------------------------------------------
(* The list a head stands for.                                             *)

\* Every nonempty set of naturals has a least element.
LEMMA LeastNatural ==
    ASSUME NEW S \in SUBSET Nat, S # {}
    PROVE  \E m \in S : \A k \in S : m <= k
<1>1. PICK m \in S : \A k \in S : <<k, m>> \notin OpToRel(<, Nat)
  BY WFMin, NatLessThanWellFounded
<1>2. \A k \in S : ~(k < m)
  BY <1>1, Zenon DEF OpToRel
<1> QED
  BY <1>2

\* The size of an interval.
LEMMA IntervalCount ==
    ASSUME NEW n \in Nat
    PROVE  Cardinality(1 .. n) = n
BY FS_Interval

\* There are finitely many nodes.
LEMMA NodesFinite == IsFiniteSet(Nodes) /\ Cardinality(Nodes) \in Nat
<1> DEFINE f == [p \in Chaining |-> Then[p]]
<1>1. IsFiniteSet(Chaining)
  BY RunLoopConstants, FS_Subset DEF Chaining
<1>2. f \in Surjection(Chaining, Chained)
  BY DEF Surjection, Chained
<1>3. IsFiniteSet(Chained)
  BY <1>1, <1>2, FS_Surjection
<1>4. IsFiniteSet(Producers \union Chained)
  BY <1>3, RunLoopConstants, FS_Union
<1>5. IsFiniteSet(Nodes)
  BY <1>4, FS_AddElement DEF Nodes
<1> QED
  BY <1>5, FS_CardinalityType

\* Distinct nodes linked one to the next up to nullptr are the list that
\* starts at the first of them.
LEMMA ListFromChain ==
    ASSUME next \in [Nodes -> Nodes \union {Null}],
           NEW q \in Seq(Nodes), NEW h,
           \A i, j \in 1 .. Len(q) : q[i] = q[j] => i = j,
           h = IF Len(q) = 0 THEN Null ELSE q[1],
           \A i \in 1 .. Len(q) : next[q[i]] = IF i = Len(q) THEN Null ELSE q[i + 1]
    PROVE  ListFrom(h) = q
<1> DEFINE N == Cardinality(Nodes)
           g == CHOOSE f : f = [i \in 1 .. N |->
                  IF i = 1 THEN h ELSE IF f[i - 1] = Null THEN Null ELSE next[f[i - 1]]]
           e == [i \in 1 .. N |-> IF i <= Len(q) THEN q[i] ELSE Null]
<1>1. N \in Nat /\ IsFiniteSet(Nodes)
  BY NodesFinite
<1>2. Len(q) \in Nat
  OBVIOUS
<1>3. Len(q) <= N
  <2>1. q \in Injection(1 .. Len(q), Nodes)
    BY DEF Injection, IsInjective
  <2>2. Cardinality(1 .. Len(q)) <= N
    BY <2>1, <1>1, FS_Injection
  <2>3. Cardinality(1 .. Len(q)) = Len(q)
    BY <1>2, IntervalCount
  <2> QED
    BY <2>2, <2>3
<1>4. \A i \in 1 .. Len(q) : q[i] \in Nodes /\ q[i] # Null
  BY <1>2, RunLoopConstants
<1>5. e = [i \in 1 .. N |->
             IF i = 1 THEN h ELSE IF e[i - 1] = Null THEN Null ELSE next[e[i - 1]]]
  <2> SUFFICES ASSUME NEW i \in 1 .. N
               PROVE  e[i] = IF i = 1 THEN h
                             ELSE IF e[i - 1] = Null THEN Null ELSE next[e[i - 1]]
    OBVIOUS
  <2>1. CASE i = 1
    BY <2>1, <1>1, <1>2
  <2>2. CASE i # 1
    <3>1. i - 1 \in 1 .. N /\ i \in Nat
      BY <2>2, <1>1
    <3>2. CASE i - 1 > Len(q)
      BY <3>1, <3>2, <2>2, <1>2
    <3>3. CASE i - 1 <= Len(q)
      <4>1. e[i - 1] = q[i - 1] /\ e[i - 1] # Null
        BY <3>1, <3>3, <1>2, <1>4
      <4>2. next[q[i - 1]] = IF i - 1 = Len(q) THEN Null ELSE q[i]
        BY <3>1, <3>3, <1>2
      <4>3. e[i] = IF i - 1 = Len(q) THEN Null ELSE q[i]
        BY <3>1, <3>3, <1>2
      <4> HIDE DEF e
      <4> QED
        BY <4>1, <4>2, <4>3, <2>2
    <3> QED
      BY <3>1, <3>2, <3>3, <1>2
  <2> QED
    BY <2>1, <2>2
<1>6. g = [i \in 1 .. N |->
             IF i = 1 THEN h ELSE IF g[i - 1] = Null THEN Null ELSE next[g[i - 1]]]
  <2> HIDE DEF e
  <2> QED
    BY <1>5
<1> HIDE DEF g, N
<1>7. \A i \in 1 .. N : g[i] = e[i]
  <2> SUFFICES ASSUME NEW i0 \in 1 .. N, g[i0] # e[i0]
               PROVE  FALSE
    OBVIOUS
  <2> DEFINE S == {i \in 1 .. N : g[i] # e[i]}
  <2> HIDE DEF e
  <2>1. S \in SUBSET Nat /\ i0 \in S
    BY <1>1
  <2>2. PICK m \in S : \A k \in S : m <= k
    BY <2>1, LeastNatural
  <2>3. m \in 1 .. N /\ g[m] # e[m]
    OBVIOUS
  <2>4. m = 1 => g[m] = e[m]
    BY <2>3, <1>5, <1>6
  <2>5. m # 1 => m - 1 \in 1 .. N /\ m - 1 \notin S
    BY <2>2, <2>3, <1>1
  <2>6. m # 1 => g[m - 1] = e[m - 1]
    BY <2>5
  <2>7. m # 1 => g[m] = e[m]
    <3>1. m # 1 => g[m] = IF g[m - 1] = Null THEN Null ELSE next[g[m - 1]]
      BY <2>3, <1>6
    <3>2. m # 1 => e[m] = IF e[m - 1] = Null THEN Null ELSE next[e[m - 1]]
      BY <2>3, <1>5
    <3> QED
      BY <3>1, <3>2, <2>6
  <2> QED
    BY <2>3, <2>4, <2>7
<1>8. {j \in 1 .. N : g[j] # Null} = 1 .. Len(q)
  BY <1>1, <1>2, <1>3, <1>4, <1>7
<1>9. Cardinality(1 .. Len(q)) = Len(q)
  BY <1>2, IntervalCount
<1>10. ListFrom(h) = [i \in 1 .. Cardinality({j \in 1 .. N : g[j] # Null}) |-> g[i]]
  BY DEF ListFrom, g, N
<1>11. ListFrom(h) = [i \in 1 .. Len(q) |-> g[i]]
  BY <1>8, <1>9, <1>10
<1>12. ListFrom(h) = [i \in 1 .. Len(q) |-> q[i]]
  BY <1>1, <1>2, <1>3, <1>7, <1>11
<1> QED
  BY <1>2, <1>12

-----------------------------------------------------------------------------
(* Pieces of a sequence.                                                   *)

\* The elements after the first a, up to the b-th.
Slice(s, a, b) == [j \in 1 .. b - a |-> s[a + j]]

\* A piece is a sequence of its length.
LEMMA SliceType ==
    ASSUME NEW S, NEW s \in Seq(S), NEW a \in Nat, NEW b \in Nat, a <= b, b <= Len(s)
    PROVE  /\ Slice(s, a, b) \in Seq(S) /\ Len(Slice(s, a, b)) = b - a
           /\ \A j \in 1 .. b - a : Slice(s, a, b)[j] = s[a + j]
<1>1. b - a \in Nat /\ \A j \in 1 .. b - a : a + j \in 1 .. Len(s)
  OBVIOUS
<1>2. \A j \in 1 .. b - a : s[a + j] \in S
  BY <1>1, ElementOfSeq
<1> QED
  BY <1>1, <1>2 DEF Slice

\* Two adjoining pieces make one.
LEMMA SliceConcat ==
    ASSUME NEW S, NEW s \in Seq(S), NEW a \in Nat, NEW b \in Nat, NEW c \in Nat,
           a <= b, b <= c, c <= Len(s)
    PROVE  Slice(s, a, b) \o Slice(s, b, c) = Slice(s, a, c)
<1> DEFINE x == Slice(s, a, b)
           y == Slice(s, b, c)
           z == Slice(s, a, c)
<1>1. /\ x \in Seq(S) /\ Len(x) = b - a /\ \A j \in 1 .. b - a : x[j] = s[a + j]
      /\ y \in Seq(S) /\ Len(y) = c - b /\ \A j \in 1 .. c - b : y[j] = s[b + j]
      /\ z \in Seq(S) /\ Len(z) = c - a /\ \A j \in 1 .. c - a : z[j] = s[a + j]
  <2>1. a <= c /\ b <= Len(s)
    OBVIOUS
  <2> QED
    BY <2>1, SliceType
<1> HIDE DEF x, y, z
<1>2. /\ x \o y \in Seq(S) /\ Len(x \o y) = Len(x) + Len(y)
      /\ \A i \in 1 .. Len(x) + Len(y) :
           (x \o y)[i] = IF i <= Len(x) THEN x[i] ELSE y[i - Len(x)]
  BY <1>1, ConcatProperties
<1>3. Len(x) + Len(y) = c - a
  BY <1>1
<1>4. ASSUME NEW i \in 1 .. c - a
      PROVE  (x \o y)[i] = z[i]
  <2>1. CASE i <= b - a
    BY <2>1, <1>1, <1>2, <1>3
  <2>2. CASE i > b - a
    <3>1. i - (b - a) \in 1 .. c - b /\ b + (i - (b - a)) = a + i
      BY <2>2
    <3>2. (x \o y)[i] = y[i - (b - a)]
      BY <2>2, <1>1, <1>2, <1>3
    <3> QED
      BY <3>1, <3>2, <1>1
  <2>3. i <= b - a \/ i > b - a
    OBVIOUS
  <2> QED
    BY <2>1, <2>2, <2>3
<1>5. x \o y = z
  BY <1>1, <1>2, <1>3, <1>4, SeqEqual
<1> QED
  BY <1>5 DEF x, y, z

\* The whole of a sequence is a piece of it.
LEMMA SliceAll ==
    ASSUME NEW S, NEW s \in Seq(S)
    PROVE  Slice(s, 0, Len(s)) = s
<1>1. Slice(s, 0, Len(s)) = [j \in 1 .. Len(s) |-> s[j]]
  BY DEF Slice
<1> QED
  BY <1>1

-----------------------------------------------------------------------------
\* What the consumer holds and what the list holds, given how far it has taken.
LEMMA TheLists ==
    ASSUME TypeOK, PendingOnce, NEW k \in Nat, TakenUpTo(k)
    PROVE  /\ ListFrom(it) = Slice(pushed, Reached, k)
           /\ ListFrom(head) = [j \in 1 .. Len(pushed) - k |-> pushed[Len(pushed) + 1 - j]]
           /\ Reached \in Nat /\ Len(executed) <= Reached /\ Reached <= k /\ k <= Len(pushed)
           /\ head = Null <=> k = Len(pushed)
           /\ it = Null <=> k = Reached
<1> DEFINE E == Len(executed)
           P == Len(pushed)
           R == Reached
           held == [j \in 1 .. k - R |-> pushed[R + j]]
           listed == [j \in 1 .. P - k |-> pushed[P + 1 - j]]
<1>1. /\ E \in Nat /\ P \in Nat /\ R \in Nat /\ E <= R /\ R <= k /\ k <= P
      /\ k - R \in Nat /\ P - k \in Nat
  BY DEF TypeOK, TakenUpTo, Reached
<1>2. \A i \in 1 .. P : pushed[i] \in Nodes /\ pushed[i] # Null
  BY RunLoopConstants DEF TypeOK
<1>3. \A i, j \in R + 1 .. P : pushed[i] = pushed[j] => i = j
  BY <1>1 DEF PendingOnce, Pending
<1>4. /\ head = IF k = P THEN Null ELSE pushed[P]
      /\ \A i \in k + 1 .. P : next[pushed[i]] = IF i = k + 1 THEN Null ELSE pushed[i - 1]
      /\ it = IF k = R THEN Null ELSE pushed[R + 1]
      /\ \A i \in R + 1 .. k : next[pushed[i]] = IF i = k THEN Null ELSE pushed[i + 1]
  BY DEF TakenUpTo
<1>5. next \in [Nodes -> Nodes \union {Null}]
  BY DEF TypeOK
<1> HIDE DEF E, P, R
<1>6. ListFrom(it) = held
  <2>1. held \in Seq(Nodes) /\ Len(held) = k - R
    BY <1>1, <1>2
  <2>2. \A j \in 1 .. k - R : R + j \in R + 1 .. P /\ R + j \in R + 1 .. k /\ held[j] = pushed[R + j]
    BY <1>1
  <2>3. it = IF Len(held) = 0 THEN Null ELSE held[1]
    BY <2>1, <2>2, <1>1, <1>4
  <2>4. \A i, j \in 1 .. Len(held) : held[i] = held[j] => i = j
    BY <2>1, <2>2, <1>1, <1>3
  <2>5. ASSUME NEW j \in 1 .. Len(held)
        PROVE  next[held[j]] = IF j = Len(held) THEN Null ELSE held[j + 1]
    <3> HIDE DEF held
    <3>1. j \in 1 .. k - R /\ j \in Nat /\ R + j \in R + 1 .. k
      BY <2>1, <2>2, <1>1
    <3>2. next[held[j]] = IF R + j = k THEN Null ELSE pushed[R + j + 1]
      <4>1. next[pushed[R + j]] = IF R + j = k THEN Null ELSE pushed[(R + j) + 1]
        BY <3>1, <1>4
      <4> QED
        BY <4>1, <3>1, <2>2
    <3>3. R + j = k <=> j = Len(held)
      BY <3>1, <2>1, <1>1
    <3>4. j # Len(held) => held[j + 1] = pushed[R + j + 1]
      <4>1. R + (j + 1) = R + j + 1
        BY <3>1, <1>1
      <4>2. j # Len(held) => j + 1 \in 1 .. k - R
        BY <3>1, <2>1, <1>1
      <4> QED
        BY <4>1, <4>2, <2>2
    <3> QED
      BY <3>2, <3>3, <3>4
  <2> HIDE DEF held
  <2> QED
    BY <2>1, <2>3, <2>4, <2>5, <1>5, ListFromChain
<1>7. ListFrom(head) = listed
  <2>1. listed \in Seq(Nodes) /\ Len(listed) = P - k
    BY <1>1, <1>2
  <2>2. \A j \in 1 .. P - k : P + 1 - j \in k + 1 .. P /\ P + 1 - j \in R + 1 .. P
                              /\ listed[j] = pushed[P + 1 - j]
    BY <1>1
  <2>3. head = IF Len(listed) = 0 THEN Null ELSE listed[1]
    BY <2>1, <2>2, <1>1, <1>4
  <2>4. \A i, j \in 1 .. Len(listed) : listed[i] = listed[j] => i = j
    BY <2>1, <2>2, <1>1, <1>3
  <2>5. ASSUME NEW j \in 1 .. Len(listed)
        PROVE  next[listed[j]] = IF j = Len(listed) THEN Null ELSE listed[j + 1]
    <3> HIDE DEF listed
    <3>1. j \in 1 .. P - k /\ j \in Nat /\ P + 1 - j \in k + 1 .. P
      BY <2>1, <2>2, <1>1
    <3>2. next[listed[j]] = IF P + 1 - j = k + 1 THEN Null ELSE pushed[(P + 1 - j) - 1]
      <4>1. next[pushed[P + 1 - j]] = IF P + 1 - j = k + 1 THEN Null ELSE pushed[(P + 1 - j) - 1]
        BY <3>1, <1>4
      <4>2. listed[j] = pushed[P + 1 - j]
        BY <3>1, <2>2
      <4> QED
        BY <4>1, <4>2
    <3>3. P + 1 - j = k + 1 <=> j = Len(listed)
      BY <3>1, <2>1, <1>1
    <3>4. j # Len(listed) => listed[j + 1] = pushed[(P + 1 - j) - 1]
      <4>1. P + 1 - (j + 1) = (P + 1 - j) - 1
        BY <3>1, <1>1
      <4>2. j # Len(listed) => j + 1 \in 1 .. P - k
        BY <3>1, <2>1, <1>1
      <4> QED
        BY <4>1, <4>2, <2>2
    <3> QED
      BY <3>2, <3>3, <3>4
  <2> HIDE DEF listed
  <2> QED
    BY <2>1, <2>3, <2>4, <2>5, <1>5, ListFromChain
<1>8. (head = Null <=> k = P) /\ (it = Null <=> k = R)
  BY <1>1, <1>2, <1>4
<1> QED
  BY <1>1, <1>6, <1>7, <1>8 DEF E, P, R, Slice

\* The invariant implies that the queue is first-in first-out.
LEMMA FifoFromIInv == IInv => QueueIsFifo
<1> SUFFICES ASSUME IInv PROVE QueueIsFifo
  OBVIOUS
<1>1. PICK k \in Nat : TakenUpTo(k)
  BY DEF IInv
<1> DEFINE E == Len(executed)
           P == Len(pushed)
           R == Reached
           listed == [j \in 1 .. P - k |-> pushed[P + 1 - j]]
           hand == IF pc[Loop] = "execute" THEN <<prev>> ELSE <<>>
<1>2. /\ ListFrom(it) = Slice(pushed, R, k) /\ ListFrom(head) = listed
      /\ R \in Nat /\ E <= R /\ R <= k /\ k <= P /\ P \in Nat /\ E \in Nat
      /\ pushed \in Seq(Nodes) /\ executed \in Seq(Nodes)
      /\ \A i \in 1 .. E : executed[i] = pushed[i]
      /\ Len(pushed) = P /\ Len(executed) = E
  BY <1>1, TheLists DEF IInv, TypeOK, PendingOnce
<1>3. /\ pc[Loop] = "execute" => R = E + 1 /\ prev = pushed[E + 1]
      /\ pc[Loop] # "execute" => R = E
  BY DEF IInv, Phases, Reached
<1>z. PICK z \in Nat : z = 0
  OBVIOUS
<1> HIDE DEF R, E, P
<1>4. Reverse(listed) = Slice(pushed, k, P)
  <2>1. Len(listed) = P - k
    BY <1>2
  <2>2. ASSUME NEW j \in 1 .. P - k
        PROVE  /\ (P - k) - j + 1 \in 1 .. P - k
               /\ listed[(P - k) - j + 1] = pushed[k + j]
    <3>1. (P - k) - j + 1 \in 1 .. P - k /\ P + 1 - ((P - k) - j + 1) = k + j
      BY <1>2
    <3> QED
      BY <3>1
  <2> HIDE DEF listed
  <2> QED
    BY <2>1, <2>2 DEF Reverse, Slice
<1>5. executed = Slice(pushed, z, E)
  <2>1. /\ Slice(pushed, z, E) \in Seq(Nodes) /\ Len(Slice(pushed, z, E)) = E
        /\ \A j \in 1 .. E : Slice(pushed, z, E)[j] = pushed[j]
    <3>1. E - z = E /\ z <= E /\ E <= Len(pushed) /\ \A j \in 1 .. E : z + j = j
      BY <1>2, <1>z
    <3>2. pushed \in Seq(Nodes) /\ E \in Nat
      BY <1>2
    <3>3. /\ Slice(pushed, z, E) \in Seq(Nodes) /\ Len(Slice(pushed, z, E)) = E - z
          /\ \A j \in 1 .. E - z : Slice(pushed, z, E)[j] = pushed[z + j]
      BY <3>1, <3>2, SliceType
    <3> QED
      BY <3>1, <3>3
  <2> QED
    BY <2>1, <1>2, SeqEqual
<1>6. hand = Slice(pushed, E, R)
  <2>1. CASE pc[Loop] = "execute"
    <3>1. E + 1 \in 1 .. Len(pushed) /\ R - E = 1
      BY <2>1, <1>2, <1>3
    <3>2. Slice(pushed, E, R) = <<pushed[E + 1]>>
      BY <3>1 DEF Slice
    <3> QED
      BY <3>2, <2>1, <1>3
  <2>2. CASE pc[Loop] # "execute"
    <3>1. R - E = 0
      BY <2>2, <1>2, <1>3
    <3>2. Slice(pushed, E, R) = <<>>
      BY <3>1 DEF Slice
    <3> QED
      BY <3>2, <2>2
  <2> QED
    BY <2>1, <2>2
<1> HIDE DEF hand, listed
<1>7. Slice(pushed, E, R) \o Slice(pushed, R, k) = Slice(pushed, E, k)
  <2>1. pushed \in Seq(Nodes) /\ E \in Nat /\ R \in Nat /\ E <= R /\ R <= k /\ k <= Len(pushed)
    BY <1>2
  <2> QED
    BY <2>1, SliceConcat
<1>8. Slice(pushed, z, E) \o Slice(pushed, E, k) = Slice(pushed, z, k)
  <2>1. pushed \in Seq(Nodes) /\ E \in Nat /\ z <= E /\ E <= k /\ k <= Len(pushed)
    BY <1>2, <1>z
  <2> QED
    BY <2>1, SliceConcat
<1>9. Slice(pushed, z, k) \o Slice(pushed, k, P) = Slice(pushed, z, P)
  <2>1. pushed \in Seq(Nodes) /\ P \in Nat /\ z <= k /\ k <= P /\ P <= Len(pushed)
    BY <1>2, <1>z
  <2> QED
    BY <2>1, SliceConcat
<1>10. Slice(pushed, z, P) = pushed
  BY <1>2, <1>z, SliceAll
<1>11. Taken = Slice(pushed, E, k)
  BY <1>2, <1>6, <1>7 DEF Taken, hand
<1>12. executed \o Taken \o Reverse(ListFrom(head)) = pushed
  BY <1>2, <1>4, <1>5, <1>8, <1>9, <1>10, <1>11
<1> QED
  BY <1>12 DEF QueueIsFifo

-----------------------------------------------------------------------------
(* Nodes that are not pending.                                             *)

\* The threads are different, and so are the nodes they push.
LEMMA Apart ==
    ASSUME IInv, NEW t \in Threads, NEW u \in Threads, t # u,
           pc[t] \in Pushing, pc[u] \in Pushing
    PROVE  node[t] # node[u]
<1>1. \A p \in Chaining : Then[p] \in Chained /\ p \in Producers
  BY DEF Chained, Chaining
<1> QED
  BY <1>1, RunLoopConstants DEF IInv, Roles, Accounts, Threads

\* A thread pushes a node, not nullptr.
LEMMA PushesNode ==
    ASSUME IInv, NEW t \in Threads, pc[t] \in Pushing
    PROVE  node[t] \in Nodes /\ node[t] # Null
<1>1. \A p \in Chaining : Then[p] \in Chained
  BY DEF Chained
<1> QED
  BY <1>1, RunLoopConstants DEF IInv, Roles, Threads, Nodes

\* Counts of what was pushed and what was executed.
LEMMA Counts ==
    ASSUME IInv, NEW n
    PROVE  /\ Times(n, executed) \in Nat /\ Times(n, pushed) \in Nat
           /\ Times(n, executed) <= Times(n, pushed)
           /\ Times(n, executed) = Times(n, pushed) => \A i \in Pending : pushed[i] # n
           /\ (\E i \in Pending : pushed[i] = n) => Times(n, executed) < Times(n, pushed)
BY TimesPrefix DEF IInv, TypeOK, PendingOnce, Pending

\* A producer whose operation has completed is not in the queue.
LEMMA CompletedNotPending ==
    ASSUME IInv, NEW p \in Producers, pc[p] = "idle", Completed(p)
    PROVE  \A i \in Pending : pushed[i] # p
<1>1. Times(p, pushed) = started[p] /\ started[p] \in Nat
  <2>1. /\ Times(p, pushed) + (IF pc[p] \in Pushing THEN 1 ELSE 0) = started[p]
        /\ started[p] \in Nat
    BY DEF IInv, Accounts, TypeOK
  <2>2. Times(p, pushed) \in Nat
    BY Counts
  <2> QED
    BY <2>1, <2>2 DEF Pushing
<1>2. CASE p \notin Chaining
  BY <1>1, <1>2, Counts DEF Completed, LastNode
<1>3. CASE p \in Chaining
  <2>1. Times(Then[p], executed) = started[p]
    BY <1>3 DEF Completed, LastNode
  <2>2. Times(Then[p], pushed) <= Times(p, executed)
    BY <1>3, Counts DEF IInv, Accounts
  <2>3. Times(p, executed) = Times(p, pushed)
    BY <1>1, <2>1, <2>2, Counts
  <2> QED
    BY <2>3, Counts
<1> QED
  BY <1>2, <1>3

\* When a node is executed, the one its continuation schedules is not in the
\* queue.
LEMMA NextNotPending ==
    ASSUME IInv, pc[Loop] = "execute", prev \in Chaining
    PROVE  \A i \in Pending : pushed[i] # Then[prev]
<1>1. PICK k \in Nat : TakenUpTo(k)
  BY DEF IInv
<1>2. Len(executed) + 1 \in Pending /\ pushed[Len(executed) + 1] = prev
  BY <1>1 DEF IInv, Phases, TakenUpTo, Reached, Pending, TypeOK
<1>3. Times(prev, executed) < Times(prev, pushed)
  BY <1>2, Counts
<1>4. prev \in Producers /\ LastNode(prev) = Then[prev]
  BY DEF Chaining, LastNode
<1>5. Times(prev, pushed) <= started[prev] /\ started[prev] <= Times(Then[prev], executed) + 1
      /\ started[prev] \in Nat
  <2>1. /\ Times(prev, pushed) + (IF pc[prev] \in Pushing THEN 1 ELSE 0) = started[prev]
        /\ started[prev] <= Times(LastNode(prev), executed) + 1
        /\ started[prev] \in Nat
    BY <1>4 DEF IInv, Accounts, TypeOK
  <2>2. Times(prev, pushed) \in Nat
    BY Counts
  <2> QED
    BY <1>4, <2>1, <2>2
<1>6. Times(Then[prev], pushed) = Times(prev, executed)
  BY Counts DEF IInv, Accounts, Pushing
<1>7. Times(Then[prev], executed) = Times(Then[prev], pushed)
  BY <1>3, <1>5, <1>6, Counts
<1> QED
  BY <1>7, Counts

\* The wake-up node is not in the queue before finish().
LEMMA NoopNotPending ==
    ASSUME IInv, ~finishing
    PROVE  \A i \in Pending : pushed[i] # Noop
BY Counts DEF IInv, Accounts

-----------------------------------------------------------------------------
(* The steps of the clients.                                               *)

\* What a step that leaves the queue alone preserves.
LEMMA SameLists ==
    ASSUME UNCHANGED <<head, next, it, pushed, executed>>, Reached' = Reached,
           \E k \in Nat : TakenUpTo(k)
    PROVE  (\E k \in Nat : TakenUpTo(k))'
<1>1. PICK k \in Nat : TakenUpTo(k)
  OBVIOUS
<1>2. TakenUpTo(k)'
  BY <1>1 DEF TakenUpTo
<1> QED
  BY <1>2

\* start(): the operation has completed, so its node is free to be pushed.
LEMMA StartStep ==
    ASSUME IInv, NEW p \in Producers, Start(p)
    PROVE  IInv'
<1> USE DEF IInv, Start, consumer
<1>1. TypeOK'
  BY RunLoopConstants DEF TypeOK, Nodes, Threads
<1>2. p # Loop /\ p \notin Finishers /\ p \in Threads
  BY RunLoopConstants DEF Threads
<1>3. Roles'
  BY <1>2, RunLoopConstants DEF Roles, Pushing, TypeOK, Threads
<1>4. Accounts'
  <2>1. \A q \in Producers :
          /\ Times(q, pushed) + (IF pc'[q] \in Pushing THEN 1 ELSE 0) = started'[q]
          /\ started'[q] <= Times(LastNode(q), executed) + 1
    <3> SUFFICES ASSUME NEW q \in Producers
                 PROVE  /\ Times(q, pushed) + (IF pc'[q] \in Pushing THEN 1 ELSE 0) = started'[q]
                        /\ started'[q] <= Times(LastNode(q), executed) + 1
      OBVIOUS
    <3>1. CASE q = p
      <4>1. started'[p] = started[p] + 1 /\ pc'[p] \in Pushing /\ pc[p] \notin Pushing
        BY <1>2 DEF TypeOK, Pushing
      <4> QED
        BY <3>1, <4>1, Counts DEF Accounts, TypeOK, Completed
    <3>2. CASE q # p
      <4>1. started'[q] = started[q] /\ pc'[q] = pc[q]
        BY <3>2 DEF TypeOK
      <4> QED
        BY <4>1 DEF Accounts
    <3> QED
      BY <3>1, <3>2
  <2>2. /\ pc'[Loop] = pc[Loop] /\ \A f \in Finishers : pc'[f] = pc[f]
    BY <1>2 DEF TypeOK
  <2> QED
    BY <2>1, <2>2 DEF Accounts, LastNode
<1>5. PendingOnce'
  <2>1. \A i \in Pending : pushed[i] # p
    BY CompletedNotPending
  <2> QED
    BY <2>1, <1>2 DEF PendingOnce, Pending, TypeOK, Pushing
<1>6. Reached' = Reached
  BY <1>2 DEF Reached, TypeOK
<1>7. (\E k \in Nat : TakenUpTo(k))'
  BY <1>6, SameLists
<1>8. Phases' /\ DrainedAtReturn'
  BY <1>2 DEF Phases, DrainedAtReturn, TypeOK
<1> QED
  BY <1>1, <1>3, <1>4, <1>5, <1>7, <1>8

\* Linking a node that is not pending leaves both lists as they are.
LEMMA LinkStep ==
    ASSUME IInv, NEW t \in Threads, pc[t] \in Pushing,
           next' = [next EXCEPT ![node[t]] = head],
           old_head' = [old_head EXCEPT ![t] = head],
           pc' = [pc EXCEPT ![t] = "push_cas"],
           UNCHANGED <<head, finishing, node, started, destroyed, pushed, beforeFinish, consumer>>
    PROVE  IInv'
<1> USE DEF IInv, consumer
<1>1. node[t] \in Nodes
  BY PushesNode
<1>2. TypeOK'
  BY <1>1 DEF TypeOK
<1>3. /\ pc'[t] = "push_cas" /\ old_head'[t] = head /\ next'[node[t]] = head
      /\ \A u \in Threads \ {t} : pc'[u] = pc[u] /\ old_head'[u] = old_head[u]
      /\ \A n \in Nodes \ {node[t]} : next'[n] = next[n]
  BY <1>1 DEF TypeOK
<1>4. \A u \in Threads : pc'[u] \in Pushing <=> pc[u] \in Pushing
  BY <1>3 DEF Pushing
<1>5. Producers \subseteq Threads /\ Finishers \subseteq Threads /\ Loop \in Threads
  BY DEF Threads
<1>6. pc'[Loop] = pc[Loop] \/ (pc[Loop] \in Pushing /\ pc'[Loop] = "push_cas")
  BY <1>3, <1>5
<1>7. Roles'
  <2>1. ASSUME NEW u \in Threads, pc'[u] = "push_cas"
        PROVE  next'[node[u]] = old_head'[u]
    <3>1. CASE u = t
      BY <3>1, <1>3
    <3>2. CASE u # t
      <4>1. pc[u] = "push_cas" /\ pc[u] \in Pushing /\ old_head'[u] = old_head[u]
        BY <2>1, <3>2, <1>3 DEF Pushing
      <4>2. node[u] # node[t] /\ node[u] \in Nodes
        BY <4>1, <3>2, Apart, PushesNode
      <4>3. next[node[u]] = old_head[u]
        BY <4>1 DEF Roles
      <4> QED
        BY <4>1, <4>2, <4>3, <1>3
    <3> QED
      BY <3>1, <3>2
  <2>2. \A u \in Threads : pc[u] \notin Pushing => pc'[u] = pc[u]
    BY <1>3
  <2>3. /\ \A p \in Producers : /\ pc'[p] \in {"idle"} \union Pushing
                                /\ pc'[p] \in Pushing => node[p] = p
        /\ \A f \in Finishers : /\ pc'[f] \in {"idle", "finished"} \union Pushing
                                /\ pc'[f] \in Pushing => node[f] = Noop
    BY <2>2, <1>4, <1>5 DEF Roles
  <2>4. /\ pc'[Loop] \notin {"idle", "finished"}
        /\ pc'[Loop] \in Pushing => prev \in Chaining /\ node[Loop] = Then[prev]
    BY <1>4, <1>5, <1>6 DEF Roles, Pushing
  <2> QED
    BY <2>1, <2>3, <2>4 DEF Roles
<1>8. Accounts'
  <2>1. /\ \A p \in Producers : pc'[p] \in Pushing <=> pc[p] \in Pushing
        /\ pc'[Loop] \in Pushing <=> pc[Loop] \in Pushing
        /\ \A f \in Finishers : /\ pc'[f] \in Pushing <=> pc[f] \in Pushing
                                /\ pc'[f] = "idle" <=> pc[f] = "idle"
    BY <1>3, <1>4, <1>5 DEF Pushing
  <2> QED
    BY <2>1 DEF Accounts, LastNode
<1>9. PendingOnce'
  BY <1>4 DEF PendingOnce, Pending
<1>10. Reached' = Reached
  BY <1>6 DEF Reached, Pushing
<1>11. (\E k \in Nat : TakenUpTo(k))'
  <2>1. PICK k \in Nat : TakenUpTo(k)
    OBVIOUS
  <2>2. Len(executed) <= Reached /\ Reached <= k /\ Len(executed) \in Nat /\ Len(pushed) \in Nat
        /\ Reached \in Nat /\ k <= Len(pushed)
    BY <2>1 DEF TakenUpTo, Reached, TypeOK
  <2>3. \A i \in Pending : next'[pushed[i]] = next[pushed[i]]
    <3>1. \A i \in Pending : pushed[i] \in Nodes /\ pushed[i] # node[t]
      BY <2>2 DEF PendingOnce, Pending, TypeOK
    <3> QED
      BY <3>1, <1>3
  <2>4. \A i : i \in k + 1 .. Len(pushed) \/ i \in Reached + 1 .. k => i \in Pending
    BY <2>2 DEF Pending
  <2>5. TakenUpTo(k)'
    BY <2>1, <2>3, <2>4, <1>10 DEF TakenUpTo
  <2> QED
    BY <2>5
<1>12. Phases' /\ DrainedAtReturn'
  BY <1>6 DEF Phases, DrainedAtReturn, Pushing
<1> QED
  BY <1>2, <1>7, <1>8, <1>9, <1>11, <1>12

\* push, first the load of the head.
LEMMA PushLoadStep ==
    ASSUME IInv, NEW t \in Threads, PushLoad(t)
    PROVE  IInv'
BY LinkStep DEF PushLoad, Pushing

\* finish(): only its first caller goes on to push the wake-up node.
LEMMA FinishStep ==
    ASSUME IInv, NEW f \in Finishers, Finish(f)
    PROVE  IInv'
<1> USE DEF IInv, consumer
<1>1. /\ f # Loop /\ f \notin Producers /\ f \in Threads /\ Loop \in Threads
      /\ Producers \subseteq Threads /\ Finishers \subseteq Threads
  BY RunLoopConstants DEF Threads
<1>2. /\ pc[f] = "idle" /\ finishing' /\ pc'[f] \in {"finished", "push_load"}
      /\ \A u \in Threads \ {f} : pc'[u] = pc[u] /\ node'[u] = node[u]
      /\ UNCHANGED <<head, next, old_head, started, destroyed, pushed, consumer>>
  BY <1>1 DEF Finish, TypeOK
<1>3. TypeOK'
  <2>1. /\ pc' \in [Threads -> {"idle", "push_load", "push_cas", "finished", "check", "wait", "pop",
                                 "advance", "execute", "more", "returned"}]
        /\ node' \in [Threads -> Nodes \union {Null}] /\ beforeFinish' \in Nat
    <3>1. CASE finishing
      BY <3>1, <1>1 DEF Finish, TypeOK
    <3>2. CASE ~finishing
      <4>1. Noop \in Nodes /\ Len(pushed) \in Nat
        BY DEF TypeOK, Nodes
      <4> QED
        BY <3>2, <4>1, <1>1 DEF Finish, TypeOK
    <3> QED
      BY <3>1, <3>2
  <2> QED
    BY <1>2, <2>1 DEF TypeOK
<1>4. /\ finishing => pc'[f] = "finished" /\ beforeFinish' = beforeFinish
      /\ ~finishing => pc'[f] = "push_load" /\ node'[f] = Noop /\ beforeFinish' = Len(pushed)
  BY <1>1 DEF Finish, TypeOK
<1>5. Roles'
  <2>1. \A p \in Producers : pc'[p] = pc[p] /\ node'[p] = node[p]
    BY <1>1, <1>2
  <2>2. pc'[Loop] = pc[Loop] /\ node'[Loop] = node[Loop]
    BY <1>1, <1>2
  <2>3. \A g \in Finishers : /\ pc'[g] \in {"idle", "finished"} \union Pushing
                             /\ pc'[g] \in Pushing => node'[g] = Noop
    BY <1>1, <1>2, <1>4 DEF Roles, Pushing
  <2>4. \A t \in Threads : pc'[t] = "push_cas" => next'[node'[t]] = old_head'[t]
    BY <1>2 DEF Roles
  <2>5. /\ \A p \in Producers : /\ pc'[p] \in {"idle"} \union Pushing
                                /\ pc'[p] \in Pushing => node'[p] = p
        /\ pc'[Loop] \notin {"idle", "finished"}
        /\ pc'[Loop] \in Pushing => prev' \in Chaining /\ node'[Loop] = Then[prev']
    BY <1>2, <2>1, <2>2 DEF Roles
  <2> QED
    BY <2>3, <2>4, <2>5 DEF Roles
<1>6. Accounts'
  <2>1. pc'[Loop] = pc[Loop] /\ \A p \in Producers : pc'[p] = pc[p]
    BY <1>1, <1>2
  <2>2. \A g \in Finishers : pc'[g] # "idle" => finishing'
    BY <1>2
  <2>3. pc'[f] \in Pushing => ~finishing /\ \A g \in Finishers \ {f} : pc'[g] = "idle"
    BY <1>1, <1>2, <1>4 DEF Accounts, Pushing
  <2>4. \A g \in Finishers :
          pc'[g] \in Pushing => /\ Times(Noop, pushed) = 0
                                /\ \A h \in Finishers \ {g} : pc'[h] \notin Pushing
    <3> SUFFICES ASSUME NEW g \in Finishers, pc'[g] \in Pushing
                 PROVE  /\ Times(Noop, pushed) = 0
                        /\ \A h \in Finishers \ {g} : pc'[h] \notin Pushing
      OBVIOUS
    <3>1. CASE g = f
      BY <3>1, <2>3 DEF Accounts, Pushing
    <3>2. CASE g # f
      <4>1. pc[g] \in Pushing /\ pc[g] # "idle" /\ finishing
        BY <3>2, <1>1, <1>2 DEF Accounts, Pushing
      <4>2. pc'[f] = "finished"
        BY <4>1, <1>4
      <4> QED
        BY <4>1, <4>2, <1>1, <1>2 DEF Accounts, Pushing
    <3> QED
      BY <3>1, <3>2
  <2> QED
    BY <1>2, <2>1, <2>2, <2>4 DEF Accounts, LastNode
<1>7. PendingOnce'
  <2>1. ~finishing => \A i \in Pending : pushed[i] # Noop
    BY NoopNotPending
  <2>2. \A u \in Threads : pc'[u] \in Pushing => \A i \in Pending : pushed[i] # node'[u]
    BY <2>1, <1>2, <1>4 DEF PendingOnce, Pushing
  <2> QED
    BY <2>2, <1>2 DEF PendingOnce, Pending
<1>8. Reached' = Reached
  BY <1>1, <1>2 DEF Reached
<1>9. (\E k \in Nat : TakenUpTo(k))'
  BY <1>2, <1>8, SameLists
<1>10. Phases' /\ DrainedAtReturn'
  BY <1>1, <1>2, <1>4 DEF Phases, DrainedAtReturn, TypeOK
<1> QED
  BY <1>3, <1>5, <1>6, <1>7, <1>9, <1>10

\* The compare-exchange that succeeds adds the node in front of the list.
LEMMA InstallStep ==
    ASSUME IInv, NEW t \in Threads, pc[t] = "push_cas", head = old_head[t],
           head' = node[t], pushed' = Append(pushed, node[t]),
           pc' = [pc EXCEPT ![t] = AfterPush(t)],
           old_head' = [old_head EXCEPT ![t] = Null],
           node' = [node EXCEPT ![t] = Null],
           UNCHANGED <<next, finishing, started, destroyed, beforeFinish, consumer>>
    PROVE  IInv'
<1> USE DEF IInv, consumer
<1> DEFINE m == node[t]
           P == Len(pushed)
<1>1. m \in Nodes /\ m # Null /\ pc[t] \in Pushing
  BY PushesNode DEF Pushing
<1>2. /\ P \in Nat /\ pushed' \in Seq(Nodes) /\ Len(pushed') = P + 1 /\ pushed'[P + 1] = m
      /\ \A i \in 1 .. P : pushed'[i] = pushed[i]
  BY <1>1 DEF TypeOK
<1>3. /\ Producers \subseteq Threads /\ Finishers \subseteq Threads /\ Loop \in Threads
      /\ Loop \notin Producers /\ Loop \notin Finishers /\ Producers \intersect Finishers = {}
  BY RunLoopConstants DEF Threads
<1>4. /\ pc'[t] = AfterPush(t)
      /\ \A u \in Threads \ {t} : pc'[u] = pc[u] /\ node'[u] = node[u] /\ old_head'[u] = old_head[u]
  BY DEF TypeOK
<1>5. /\ t \in Producers => pc'[t] = "idle" /\ m = t
      /\ t \in Finishers => pc'[t] = "finished" /\ m = Noop
      /\ t = Loop => pc'[t] = "more" /\ prev \in Chaining /\ m = Then[prev]
  BY <1>1, <1>3, <1>4 DEF AfterPush, Roles
<1>6. /\ pc'[t] \notin Pushing /\ pc'[t] \in {"idle", "finished", "more"}
      /\ \A u \in Threads : pc'[u] \in Pushing => u # t /\ pc[u] \in Pushing /\ node'[u] = node[u]
  BY <1>3, <1>4, <1>5 DEF Threads, Pushing
<1>7. TypeOK'
  BY <1>1, <1>2, <1>4, <1>6 DEF TypeOK
<1>8. Roles'
  <2>1. \A p \in Producers : /\ pc'[p] \in {"idle"} \union Pushing
                             /\ pc'[p] \in Pushing => node'[p] = p
    BY <1>3, <1>4, <1>5, <1>6 DEF Roles
  <2>2. \A f \in Finishers : /\ pc'[f] \in {"idle", "finished"} \union Pushing
                             /\ pc'[f] \in Pushing => node'[f] = Noop
    BY <1>3, <1>4, <1>5, <1>6 DEF Roles
  <2>3. /\ pc'[Loop] \notin {"idle", "finished"}
        /\ pc'[Loop] \in Pushing => prev \in Chaining /\ node'[Loop] = Then[prev]
    BY <1>3, <1>4, <1>5, <1>6 DEF Roles
  <2>4. \A u \in Threads : pc'[u] = "push_cas" => next[node'[u]] = old_head'[u]
    BY <1>4, <1>6 DEF Roles, Pushing
  <2> QED
    BY <2>1, <2>2, <2>3, <2>4 DEF Roles
<1>9. \A n : /\ Times(n, pushed) \in Nat
             /\ Times(n, pushed') = IF m = n THEN Times(n, pushed) + 1 ELSE Times(n, pushed)
  BY <1>1, TimesAppend DEF TypeOK
<1>10. Accounts'
  <2>0. /\ \A p \in Chaining : Then[p] \in Chained /\ p \in Producers
        /\ \A p, q \in Chaining : Then[p] = Then[q] => p = q
        /\ Noop \notin Producers \union Chained /\ Producers \intersect Chained = {}
    BY RunLoopConstants DEF Chained, Chaining
  <2> HIDE DEF m
  <2>1. ASSUME NEW p \in Producers
        PROVE  /\ Times(p, pushed') + (IF pc'[p] \in Pushing THEN 1 ELSE 0) = started[p]
               /\ started[p] <= Times(LastNode(p), executed) + 1
    <3>1. /\ Times(p, pushed) + (IF pc[p] \in Pushing THEN 1 ELSE 0) = started[p]
          /\ started[p] <= Times(LastNode(p), executed) + 1
      BY DEF Accounts
    <3>2. CASE p = t
      BY <3>1, <3>2, <1>1, <1>5, <1>6, <1>9
    <3>3. CASE p # t
      <4>1. m # p /\ pc'[p] = pc[p]
        BY <3>3, <2>0, <1>3, <1>4, <1>5 DEF Threads
      <4> QED
        BY <3>1, <4>1, <1>9
    <3> QED
      BY <3>2, <3>3
  <2>2. ASSUME NEW p \in Chaining
        PROVE  Times(Then[p], pushed') + (IF pc'[Loop] \in Pushing /\ prev = p THEN 1 ELSE 0)
                 = Times(p, executed)
    <3>1. Times(Then[p], pushed) + (IF pc[Loop] \in Pushing /\ prev = p THEN 1 ELSE 0)
            = Times(p, executed)
      BY DEF Accounts
    <3>2. CASE t = Loop /\ p = prev
      BY <3>1, <3>2, <1>1, <1>5, <1>6, <1>9
    <3>3. CASE t = Loop /\ p # prev
      <4>1. m # Then[p]
        BY <3>3, <2>0, <1>5
      <4> QED
        BY <3>1, <3>3, <4>1, <1>9
    <3>4. CASE t # Loop
      <4>1. m # Then[p] /\ pc'[Loop] = pc[Loop]
        BY <3>4, <2>0, <1>3, <1>4, <1>5 DEF Threads
      <4> QED
        BY <3>1, <4>1, <1>9
    <3> QED
      BY <3>2, <3>3, <3>4
  <2>3. ASSUME NEW f \in Finishers
        PROVE  /\ pc'[f] # "idle" => finishing
               /\ pc'[f] \in Pushing => /\ Times(Noop, pushed') = 0
                                        /\ \A g \in Finishers \ {f} : pc'[g] \notin Pushing
    <3>1. pc'[f] # "idle" => finishing
      BY <1>1, <1>3, <1>4 DEF Accounts, Pushing
    <3>2. ASSUME pc'[f] \in Pushing
          PROVE  /\ Times(Noop, pushed') = 0
                 /\ \A g \in Finishers \ {f} : pc'[g] \notin Pushing
      <4>1. f # t /\ pc[f] \in Pushing
        BY <3>2, <1>3, <1>6
      <4>2. Times(Noop, pushed) = 0 /\ \A g \in Finishers \ {f} : pc[g] \notin Pushing
        BY <4>1 DEF Accounts
      <4>3. m # Noop
        BY <4>1, <4>2, <2>0, <1>1, <1>5 DEF Threads
      <4> QED
        BY <4>2, <4>3, <1>3, <1>6, <1>9
    <3> QED
      BY <3>1, <3>2
  <2>4. ~finishing => Times(Noop, pushed') = 0
    <3> SUFFICES ASSUME ~finishing PROVE Times(Noop, pushed') = 0
      OBVIOUS
    <3>1. t \notin Finishers
      BY <1>1 DEF Accounts, Pushing
    <3>2. m # Noop
      BY <3>1, <2>0, <1>5 DEF Threads
    <3> QED
      BY <3>2, <1>9 DEF Accounts
  <2> QED
    BY <2>1, <2>2, <2>3, <2>4 DEF Accounts, LastNode
<1>11. PendingOnce'
  <2>1. Pending' = Pending \union {P + 1} /\ P + 1 \notin Pending
        /\ \A i \in Pending : i \in 1 .. P
    BY <1>2 DEF Pending, PendingOnce, TypeOK
  <2>2. \A i \in Pending : pushed'[i] = pushed[i] /\ pushed[i] # m
    BY <2>1, <1>1, <1>2 DEF PendingOnce
  <2>3. \A i, j \in Pending' : pushed'[i] = pushed'[j] => i = j
    BY <2>1, <2>2, <1>2 DEF PendingOnce
  <2>4. ASSUME NEW u \in Threads, pc'[u] \in Pushing
        PROVE  \A i \in Pending' : pushed'[i] # node'[u]
    <3>1. u # t /\ pc[u] \in Pushing /\ node'[u] = node[u]
      BY <2>4, <1>6
    <3>2. node[u] # m
      BY <3>1, <1>1, Apart
    <3> QED
      BY <3>1, <3>2, <2>1, <2>2, <1>2 DEF PendingOnce
  <2>5. Len(executed) <= P + 1 /\ \A i \in 1 .. Len(executed) : executed[i] = pushed'[i]
    BY <1>2 DEF PendingOnce, TypeOK
  <2> QED
    BY <2>3, <2>4, <2>5, <1>2 DEF PendingOnce
<1>12. Reached' = Reached
  BY <1>3, <1>4, <1>6, <1>1 DEF Reached, Pushing
<1>13. (\E k \in Nat : TakenUpTo(k))'
  <2>1. PICK k \in Nat : TakenUpTo(k)
    OBVIOUS
  <2>2. Reached <= k /\ k <= P /\ Reached \in Nat
    BY <2>1 DEF TakenUpTo, Reached, TypeOK
  <2>3. next[m] = IF k = P THEN Null ELSE pushed[P]
    BY <2>1 DEF TakenUpTo, Roles
  <2>4. ASSUME NEW i \in k + 1 .. P + 1
        PROVE  next[pushed'[i]] = IF i = k + 1 THEN Null ELSE pushed'[i - 1]
    <3>1. CASE i = P + 1
      <4>1. i = k + 1 <=> k = P
        BY <3>1, <1>2, <2>2
      <4>2. k # P => i - 1 = P /\ pushed'[P] = pushed[P]
        BY <3>1, <1>2, <2>2
      <4> QED
        BY <3>1, <4>1, <4>2, <2>3, <1>2
    <3>2. CASE i # P + 1
      <4>1. i \in k + 1 .. P /\ i \in 1 .. P /\ (i # k + 1 => i - 1 \in 1 .. P)
        BY <3>2, <1>2, <2>2
      <4>2. next[pushed[i]] = IF i = k + 1 THEN Null ELSE pushed[i - 1]
        BY <4>1, <2>1 DEF TakenUpTo
      <4> QED
        BY <4>1, <4>2, <1>2
    <3> QED
      BY <3>1, <3>2
  <2>5. it = IF k = Reached THEN Null ELSE pushed'[Reached + 1]
    BY <2>1, <2>2, <1>2 DEF TakenUpTo
  <2>6. ASSUME NEW i \in Reached + 1 .. k
        PROVE  next[pushed'[i]] = IF i = k THEN Null ELSE pushed'[i + 1]
    <3>1. i \in 1 .. P /\ (i # k => i + 1 \in 1 .. P)
      BY <1>2, <2>2
    <3>2. next[pushed[i]] = IF i = k THEN Null ELSE pushed[i + 1]
      BY <2>1 DEF TakenUpTo
    <3> QED
      BY <3>1, <3>2, <1>2
  <2>7. k <= P + 1 /\ k # P + 1 /\ head' = pushed'[P + 1]
    BY <2>2, <1>2
  <2>8. TakenUpTo(k)'
    BY <2>2, <2>4, <2>5, <2>6, <2>7, <1>2, <1>12 DEF TakenUpTo
  <2> QED
    BY <2>8
<1>14. Phases'
  <2>1. pc'[Loop] = pc[Loop] \/ (pc[Loop] \in Pushing /\ pc'[Loop] = "more")
    BY <1>1, <1>3, <1>4, <1>5
  <2>2. pc[Loop] = "execute" => Len(executed) + 1 \in 1 .. P
    BY <1>2 DEF TakenUpTo, Reached, TypeOK
  <2>3. beforeFinish <= P + 1
    BY <1>2 DEF Phases, TypeOK
  <2> QED
    BY <2>1, <2>2, <2>3, <1>2 DEF Phases, Pushing
<1>15. DrainedAtReturn'
  BY <1>3, <1>4, <1>5 DEF DrainedAtReturn
<1> QED
  BY <1>7, <1>8, <1>10, <1>11, <1>13, <1>14, <1>15

\* push, then the compare-exchange, which succeeds or links the node again.
LEMMA PushCasStep ==
    ASSUME IInv, NEW t \in Threads, PushCas(t)
    PROVE  IInv'
<1>1. CASE head = old_head[t]
  BY <1>1, InstallStep DEF PushCas
<1>2. CASE head # old_head[t]
  <2>1. pc' = [pc EXCEPT ![t] = "push_cas"]
    BY <1>2 DEF PushCas, IInv, TypeOK
  <2> QED
    BY <1>2, <2>1, LinkStep DEF PushCas, Pushing
<1> QED
  BY <1>1, <1>2

-----------------------------------------------------------------------------
(* The steps of the consumer.                                              *)

\* What is left of the invariant when only the consumer's location and what
\* it holds change: it is at no location of a client or of push.
LEMMA ConsumerMoves ==
    ASSUME IInv, NEW l \in {"check", "wait", "pop", "advance", "execute", "more", "returned"},
           pc[Loop] \notin Pushing, pc' = [pc EXCEPT ![Loop] = l],
           \A t \in Threads : pc[t] \in Pushing => next'[node[t]] = next[node[t]],
           UNCHANGED <<node, old_head, pushed, executed, finishing, started>>
    PROVE  /\ pc'[Loop] = l /\ \A t \in Threads \ {Loop} : pc'[t] = pc[t]
           /\ pc' \in [Threads -> {"idle", "push_load", "push_cas", "finished", "check", "wait", "pop",
                                   "advance", "execute", "more", "returned"}]
           /\ Roles' /\ Accounts' /\ PendingOnce'
<1> USE DEF IInv
<1>1. Loop \in Threads /\ Loop \notin Producers /\ Loop \notin Finishers
      /\ Producers \subseteq Threads /\ Finishers \subseteq Threads
  BY RunLoopConstants DEF Threads
<1>2. pc'[Loop] = l /\ l \notin Pushing /\ \A t \in Threads \ {Loop} : pc'[t] = pc[t]
  BY <1>1 DEF TypeOK, Pushing
<1>3. pc' \in [Threads -> {"idle", "push_load", "push_cas", "finished", "check", "wait", "pop",
                           "advance", "execute", "more", "returned"}]
  BY <1>1 DEF TypeOK
<1>4. /\ \A p \in Producers : pc'[p] = pc[p]
      /\ \A f \in Finishers : pc'[f] = pc[f]
      /\ \A t \in Threads : pc'[t] \in Pushing => pc[t] \in Pushing /\ pc'[t] = pc[t]
  BY <1>1, <1>2
<1>5. Roles'
  <2>1. /\ \A p \in Producers : /\ pc'[p] \in {"idle"} \union Pushing
                                /\ pc'[p] \in Pushing => node[p] = p
        /\ \A f \in Finishers : /\ pc'[f] \in {"idle", "finished"} \union Pushing
                                /\ pc'[f] \in Pushing => node[f] = Noop
    BY <1>4 DEF Roles
  <2>2. pc'[Loop] \notin {"idle", "finished"} /\ pc'[Loop] \notin Pushing
    BY <1>2
  <2>3. \A t \in Threads : pc'[t] = "push_cas" => next'[node[t]] = old_head[t]
    BY <1>4 DEF Roles, Pushing
  <2> QED
    BY <2>1, <2>2, <2>3 DEF Roles
<1>6. Accounts'
  <2>1. \A p \in Chaining :
          Times(Then[p], pushed) + (IF pc'[Loop] \in Pushing /\ prev' = p THEN 1 ELSE 0)
            = Times(p, executed)
    BY <1>2 DEF Accounts
  <2> QED
    BY <2>1, <1>4 DEF Accounts, LastNode
<1>7. PendingOnce'
  BY <1>4 DEF PendingOnce, Pending
<1> QED
  BY <1>2, <1>3, <1>5, <1>6, <1>7

\* run(): the test of __finishing_.
LEMMA RunCheckStep == ASSUME IInv, RunCheck PROVE IInv'
<1> USE DEF RunCheck, queue
<1>1. PICK l \in {"check", "wait", "pop", "advance", "execute", "more", "returned"} :
        l = (IF finishing THEN "pop" ELSE "wait")
  OBVIOUS
<1>2. /\ pc'[Loop] = l /\ Roles' /\ Accounts' /\ PendingOnce'
      /\ pc' \in [Threads -> {"idle", "push_load", "push_cas", "finished", "check", "wait", "pop",
                              "advance", "execute", "more", "returned"}]
  BY <1>1, ConsumerMoves DEF Pushing
<1>3. TypeOK'
  BY <1>2 DEF IInv, TypeOK
<1>4. l \in {"pop", "wait"}
  BY <1>1
<1>5. (\E k \in Nat : TakenUpTo(k))'
  BY <1>2, <1>4, SameLists DEF IInv, Reached
<1>6. Phases' /\ DrainedAtReturn'
  BY <1>2, <1>4 DEF IInv, Phases, DrainedAtReturn, Pushing
<1> QED
  BY <1>2, <1>3, <1>5, <1>6 DEF IInv

\* run(): the poll of the head.
LEMMA WaitForItemStep == ASSUME IInv, WaitForItem PROVE IInv'
<1> USE DEF WaitForItem, queue, consumer
<1>1. PICK l \in {"check", "wait", "pop", "advance", "execute", "more", "returned"} :
        l = (IF head = Null THEN "wait" ELSE "pop")
  OBVIOUS
<1>2. /\ pc'[Loop] = l /\ Roles' /\ Accounts' /\ PendingOnce'
      /\ pc' \in [Threads -> {"idle", "push_load", "push_cas", "finished", "check", "wait", "pop",
                              "advance", "execute", "more", "returned"}]
  BY <1>1, ConsumerMoves DEF Pushing
<1>3. TypeOK'
  BY <1>2 DEF IInv, TypeOK
<1>4. l \in {"pop", "wait"}
  BY <1>1
<1>5. (\E k \in Nat : TakenUpTo(k))'
  BY <1>2, <1>4, SameLists DEF IInv, Reached
<1>6. Phases' /\ DrainedAtReturn'
  BY <1>2, <1>4 DEF IInv, Phases, DrainedAtReturn, Pushing
<1> QED
  BY <1>2, <1>3, <1>5, <1>6 DEF IInv

\* __execute_all: the end of a turn.
LEMMA MoreStep == ASSUME IInv, More PROVE IInv'
<1> USE DEF More, queue
<1>1. PICK l \in {"check", "wait", "pop", "advance", "execute", "more", "returned"} :
        l = (IF it # Null THEN "advance" ELSE IF draining THEN "pop" ELSE "check")
  OBVIOUS
<1>2. /\ pc'[Loop] = l /\ Roles' /\ Accounts' /\ PendingOnce'
      /\ pc' \in [Threads -> {"idle", "push_load", "push_cas", "finished", "check", "wait", "pop",
                              "advance", "execute", "more", "returned"}]
  BY <1>1, ConsumerMoves DEF Pushing
<1>3. TypeOK'
  BY <1>2 DEF IInv, TypeOK
<1>4. l \in {"advance", "pop", "check"} /\ (it = Null <=> l # "advance")
  BY <1>1
<1>5. (\E k \in Nat : TakenUpTo(k))'
  BY <1>2, <1>4, SameLists DEF IInv, Reached
<1>6. Phases' /\ DrainedAtReturn'
  BY <1>2, <1>4 DEF IInv, Phases, DrainedAtReturn, Pushing
<1> QED
  BY <1>2, <1>3, <1>5, <1>6 DEF IInv

\* The end of the loop's life.
LEMMA DestroyStep == ASSUME IInv, Destroy PROVE IInv'
<1> USE DEF Destroy, queue, consumer, IInv
<1>1. TypeOK' /\ Roles'
  BY DEF TypeOK, Roles
<1>2. Accounts' /\ PendingOnce'
  BY DEF Accounts, PendingOnce, Pending, LastNode
<1>3. (\E k \in Nat : TakenUpTo(k))'
  BY SameLists DEF Reached
<1>4. Phases' /\ DrainedAtReturn'
  BY DEF Phases, DrainedAtReturn
<1> QED
  BY <1>1, <1>2, <1>3, <1>4

\* __execute_all: the iterator moves on to the node pushed next.
LEMMA AdvanceStep == ASSUME IInv, Advance PROVE IInv'
<1> USE DEF Advance, queue
<1>1. /\ pc'[Loop] = "execute" /\ Roles' /\ Accounts' /\ PendingOnce'
      /\ pc' \in [Threads -> {"idle", "push_load", "push_cas", "finished", "check", "wait", "pop",
                              "advance", "execute", "more", "returned"}]
  BY ConsumerMoves DEF Pushing
<1>2. PICK k \in Nat : TakenUpTo(k)
  BY DEF IInv
<1> DEFINE E == Len(executed)
<1>3. /\ E \in Nat /\ Len(pushed) \in Nat /\ Reached = E /\ Reached' = E + 1
      /\ it # Null /\ E < k /\ k <= Len(pushed) /\ it = pushed[E + 1]
  BY <1>1, <1>2 DEF IInv, TakenUpTo, Reached, Phases, TypeOK
<1>4. it \in Nodes /\ next[it] \in Nodes \union {Null}
  BY <1>3 DEF IInv, TypeOK
<1>5. TypeOK'
  BY <1>1, <1>4 DEF IInv, TypeOK
<1>6. next[it] = IF k = E + 1 THEN Null ELSE pushed[E + 2]
  <2>1. E + 1 \in Reached + 1 .. k
    BY <1>3
  <2>2. next[pushed[E + 1]] = IF E + 1 = k THEN Null ELSE pushed[(E + 1) + 1]
    BY <2>1, <1>2 DEF TakenUpTo
  <2>3. (E + 1) + 1 = E + 2
    BY <1>3
  <2> QED
    BY <2>2, <2>3, <1>3
<1>7. TakenUpTo(k)'
  <2>1. /\ E + 1 <= k /\ k <= Len(pushed)
        /\ it' = IF k = E + 1 THEN Null ELSE pushed[(E + 1) + 1]
    BY <1>3, <1>6
  <2>2. \A i \in (E + 1) + 1 .. k : i \in E + 1 .. k
    BY <1>3
  <2>3. \A i \in (E + 1) + 1 .. k : next[pushed[i]] = IF i = k THEN Null ELSE pushed[i + 1]
    BY <1>2, <1>3, <2>2 DEF TakenUpTo
  <2> QED
    BY <1>2, <1>3, <2>1, <2>3 DEF TakenUpTo
<1>8. Phases'
  BY <1>1, <1>3 DEF IInv, Phases, Pushing
<1>9. DrainedAtReturn'
  BY <1>1 DEF DrainedAtReturn
<1> QED
  BY <1>1, <1>5, <1>7, <1>8, <1>9 DEF IInv

\* __execute: the oldest pending push is executed, and its continuation may
\* begin to push.
LEMMA ExecuteStep == ASSUME IInv, Execute PROVE IInv'
<1> USE DEF IInv
<1> DEFINE E == Len(executed)
<1>1. PICK k \in Nat : TakenUpTo(k)
  OBVIOUS
<1>2. /\ E \in Nat /\ Len(pushed) \in Nat /\ Reached = E + 1 /\ E + 1 <= k /\ k <= Len(pushed)
      /\ prev = pushed[E + 1] /\ prev \in Nodes
  BY <1>1 DEF Execute, TakenUpTo, Reached, Phases, TypeOK
<1>3. /\ executed' \in Seq(Nodes) /\ Len(executed') = E + 1 /\ executed'[E + 1] = prev
      /\ \A i \in 1 .. E : executed'[i] = executed[i]
  BY <1>2 DEF Execute, TypeOK
<1>4. /\ Loop \in Threads /\ Loop \notin Producers /\ Loop \notin Finishers
      /\ Producers \subseteq Threads /\ Finishers \subseteq Threads
  BY RunLoopConstants DEF Threads
<1>5. /\ \A u \in Threads \ {Loop} : pc'[u] = pc[u] /\ node'[u] = node[u]
      /\ prev \in Chaining => pc'[Loop] = "push_load" /\ node'[Loop] = Then[prev]
      /\ prev \notin Chaining => pc'[Loop] = "more"
      /\ pc[Loop] = "execute"
      /\ UNCHANGED <<it, prev, draining, head, next, old_head, pushed,
                     finishing, started, destroyed, beforeFinish>>
  BY <1>4 DEF Execute, TypeOK
<1>6. Then[prev] \in Nodes \/ prev \notin Chaining
  BY DEF Nodes, Chained
<1>7. TypeOK'
  <2>1. CASE prev \in Chaining
    BY <2>1, <1>3, <1>6 DEF Execute, TypeOK
  <2>2. CASE prev \notin Chaining
    BY <2>2, <1>3 DEF Execute, TypeOK
  <2> QED
    BY <2>1, <2>2
<1>8. Roles'
  <2>1. /\ \A p \in Producers : /\ pc'[p] \in {"idle"} \union Pushing
                                /\ pc'[p] \in Pushing => node'[p] = p
        /\ \A f \in Finishers : /\ pc'[f] \in {"idle", "finished"} \union Pushing
                                /\ pc'[f] \in Pushing => node'[f] = Noop
    BY <1>4, <1>5 DEF Roles
  <2>2. /\ pc'[Loop] \notin {"idle", "finished"}
        /\ pc'[Loop] \in Pushing => prev' \in Chaining /\ node'[Loop] = Then[prev']
    BY <1>5 DEF Pushing
  <2>3. \A t \in Threads : pc'[t] = "push_cas" => next'[node'[t]] = old_head'[t]
    BY <1>5 DEF Roles
  <2> QED
    BY <2>1, <2>2, <2>3 DEF Roles
<1>9. \A n : /\ Times(n, executed) \in Nat
             /\ Times(n, executed') = IF prev = n THEN Times(n, executed) + 1 ELSE Times(n, executed)
  BY <1>2, TimesAppend DEF Execute, TypeOK
<1>10. Accounts'
  <2>1. ASSUME NEW p \in Producers
        PROVE  /\ Times(p, pushed) + (IF pc'[p] \in Pushing THEN 1 ELSE 0) = started[p]
               /\ started[p] <= Times(LastNode(p), executed') + 1
    <3>1. /\ Times(p, pushed) + (IF pc[p] \in Pushing THEN 1 ELSE 0) = started[p]
          /\ started[p] <= Times(LastNode(p), executed) + 1 /\ started[p] \in Nat
      BY DEF Accounts, TypeOK
    <3>2. pc'[p] = pc[p]
      BY <1>4, <1>5
    <3>3. Times(LastNode(p), executed) <= Times(LastNode(p), executed')
          /\ Times(LastNode(p), executed) \in Nat /\ Times(LastNode(p), executed') \in Nat
      BY <1>9
    <3> QED
      BY <3>1, <3>2, <3>3
  <2>2. ASSUME NEW p \in Chaining
        PROVE  Times(Then[p], pushed) + (IF pc'[Loop] \in Pushing /\ prev = p THEN 1 ELSE 0)
                 = Times(p, executed')
    <3>1. Times(Then[p], pushed) = Times(p, executed) /\ Times(Then[p], pushed) \in Nat
      BY <1>5, Counts DEF Accounts, Pushing
    <3> QED
      BY <3>1, <1>5, <1>9 DEF Pushing
  <2>3. \A f \in Finishers : pc'[f] = pc[f]
    BY <1>4, <1>5
  <2> QED
    BY <2>1, <2>2, <2>3, <1>5 DEF Accounts, LastNode
<1>11. PendingOnce'
  <2>1. Pending' \subseteq Pending
    BY <1>2, <1>3, <1>5 DEF Pending
  <2>2. \A i \in 1 .. E + 1 : executed'[i] = pushed[i]
    BY <1>2, <1>3 DEF PendingOnce
  <2>3. prev \in Chaining => \A i \in Pending : pushed[i] # Then[prev]
    BY <1>5, NextNotPending
  <2>4. \A t \in Threads : pc'[t] \in Pushing => \A i \in Pending : pushed[i] # node'[t]
    BY <2>3, <1>5 DEF PendingOnce, Pushing
  <2>5. Len(executed') <= Len(pushed) /\ Len(executed') = E + 1
    BY <1>2, <1>3
  <2> QED
    BY <2>1, <2>2, <2>4, <2>5, <1>5 DEF PendingOnce
<1>12. TakenUpTo(k)'
  <2>1. Reached' = Reached
    BY <1>2, <1>3, <1>5 DEF Reached
  <2> QED
    BY <2>1, <1>1, <1>5 DEF TakenUpTo
<1>13. Phases'
  <2>1. prev # Null
    BY <1>2, RunLoopConstants
  <2> QED
    BY <2>1, <1>5 DEF Phases, Pushing
<1>14. DrainedAtReturn'
  BY <1>5 DEF DrainedAtReturn
<1> QED
  BY <1>7, <1>8, <1>10, <1>11, <1>12, <1>13, <1>14

\* Taking the whole list and turning it round: the links of what was listed
\* now lead from each node to the one pushed after it.
LEMMA PopAllReverses ==
    ASSUME IInv, PopAll
    PROVE  /\ head = Null => it' = Null /\ next' = next /\ Len(executed) = Len(pushed)
           /\ head # Null =>
                /\ Len(executed) < Len(pushed) /\ it' = pushed[Len(executed) + 1]
                /\ \A i \in Pending :
                     next'[pushed[i]] = IF i = Len(pushed) THEN Null ELSE pushed[i + 1]
           /\ next' \in [Nodes -> Nodes \union {Null}]
           /\ \A n \in Nodes : (\A i \in Pending : pushed[i] # n) => next'[n] = next[n]
<1> DEFINE E == Len(executed)
           P == Len(pushed)
           taken == ListFrom(head)
           behind(n) == CHOOSE i \in DOMAIN taken : taken[i] = n
<1>1. PICK k \in Nat : TakenUpTo(k)
  BY DEF IInv
<1>2. Reached = E /\ it = Null
  BY DEF PopAll, Reached, IInv, Phases
<1>3. /\ k = E /\ E \in Nat /\ P \in Nat /\ E <= P /\ (head = Null <=> E = P)
      /\ taken = [j \in 1 .. P - E |-> pushed[P + 1 - j]]
  BY <1>1, <1>2, TheLists DEF IInv, TypeOK
<1>4. /\ it' = IF taken = <<>> THEN Null ELSE Last(taken)
      /\ next' = [n \in Nodes |->
                    IF ~Contains(taken, n) THEN next[n]
                    ELSE IF n = Head(taken) THEN Null ELSE taken[behind(n) - 1]]
  BY DEF PopAll
<1>5. \A i \in 1 .. P : pushed[i] \in Nodes
  BY DEF IInv, TypeOK
<1>6. /\ P - E \in Nat /\ taken \in Seq(Nodes) /\ Len(taken) = P - E /\ DOMAIN taken = 1 .. P - E
      /\ \A j \in 1 .. P - E : P + 1 - j \in E + 1 .. P /\ taken[j] = pushed[P + 1 - j]
  BY <1>3, <1>5
<1>7. \A i, j \in E + 1 .. P : pushed[i] = pushed[j] => i = j
  BY DEF IInv, PendingOnce, Pending
<1>8. next \in [Nodes -> Nodes \union {Null}]
  BY DEF IInv, TypeOK
<1> HIDE DEF taken, E, P
<1>9. \A n : Contains(taken, n) <=> \E j \in 1 .. P - E : taken[j] = n
  BY <1>6 DEF Contains
<1>10. ASSUME NEW n \in Nodes, \A i \in E + 1 .. P : pushed[i] # n
       PROVE  next'[n] = next[n]
  <2>1. ~Contains(taken, n)
    BY <1>6, <1>9, <1>10
  <2> QED
    BY <2>1, <1>4
<1>11. ASSUME NEW i \in E + 1 .. P
       PROVE  /\ pushed[i] \in Nodes
              /\ next'[pushed[i]] = IF i = P THEN Null ELSE pushed[i + 1]
  <2> DEFINE n == pushed[i]
             j == P + 1 - i
  <2>1. i \in 1 .. P /\ n \in Nodes /\ j \in 1 .. P - E /\ P + 1 - j = i
    BY <1>3, <1>5
  <2>2. taken[j] = n /\ Contains(taken, n)
    BY <2>1, <1>6, <1>9
  <2>3. \A h \in 1 .. P - E : taken[h] = n => h = j
    <3> SUFFICES ASSUME NEW h \in 1 .. P - E, taken[h] = n PROVE h = j
      OBVIOUS
    <3>1. pushed[P + 1 - h] = pushed[i] /\ P + 1 - h \in E + 1 .. P
      BY <1>6
    <3>2. P + 1 - h = i
      BY <3>1, <1>7
    <3> QED
      BY <3>2, <1>3
  <2>4. behind(n) = j
    BY <2>1, <2>2, <2>3, <1>6
  <2>5. Head(taken) = pushed[P]
    <3>1. taken # <<>> /\ 1 \in 1 .. P - E /\ P + 1 - 1 = P
      BY <2>1, <1>3, <1>6
    <3>2. Head(taken) = taken[1]
      BY <3>1, <1>6
    <3> QED
      BY <3>1, <3>2, <1>6
  <2>6. next'[n] = IF n = Head(taken) THEN Null ELSE taken[j - 1]
    BY <2>1, <2>2, <2>4, <1>4
  <2>7. n = Head(taken) <=> i = P
    BY <2>1, <2>5, <1>3, <1>7
  <2>8. i # P => taken[j - 1] = pushed[i + 1]
    <3>1. i # P => j - 1 \in 1 .. P - E /\ P + 1 - (j - 1) = i + 1
      BY <1>3
    <3> QED
      BY <3>1, <1>6
  <2> QED
    BY <2>1, <2>6, <2>7, <2>8
<1>12. ASSUME NEW n \in Nodes
       PROVE  next'[n] \in Nodes \union {Null}
  <2>1. CASE \E i \in E + 1 .. P : pushed[i] = n
    <3>1. PICK i \in E + 1 .. P : pushed[i] = n
      BY <2>1
    <3>2. i # P => i + 1 \in 1 .. P
      BY <1>3
    <3> QED
      BY <3>1, <3>2, <1>5, <1>11
  <2>2. CASE \A i \in E + 1 .. P : pushed[i] # n
    BY <2>2, <1>8, <1>10
  <2> QED
    BY <2>1, <2>2
<1>13. next' \in [Nodes -> Nodes \union {Null}]
  <2>1. next' = [n \in Nodes |-> next'[n]]
    BY <1>4
  <2> QED
    BY <2>1, <1>12
<1>14. ASSUME head = Null
       PROVE  it' = Null /\ next' = next /\ E = P
  <2>1. E = P /\ taken = <<>>
    BY <1>14, <1>3, <1>6
  <2>2. \A n \in Nodes : next'[n] = next[n]
    BY <2>1, <1>3, <1>10
  <2> QED
    BY <2>1, <2>2, <1>4, <1>8, <1>13
<1>15. ASSUME head # Null
       PROVE  E < P /\ it' = pushed[E + 1]
  <2>1. E < P /\ taken # <<>> /\ P - E \in 1 .. P - E
    BY <1>15, <1>3, <1>6
  <2>2. Last(taken) = taken[P - E]
    BY <1>6 DEF Last
  <2>3. P + 1 - (P - E) = E + 1
    BY <1>3
  <2> QED
    BY <2>1, <2>2, <2>3, <1>4, <1>6
<1> QED
  BY <1>10, <1>11, <1>13, <1>14, <1>15 DEF Pending, E, P

\* pop_all: the consumer has now taken every push.
LEMMA PopAllStep == ASSUME IInv, PopAll PROVE IInv'
<1> DEFINE E == Len(executed)
           P == Len(pushed)
<1>0. /\ pc[Loop] = "pop" /\ head' = Null
      /\ pc' = [pc EXCEPT ![Loop] = IF head # Null THEN "advance"
                                    ELSE IF draining THEN "returned" ELSE "check"]
      /\ UNCHANGED <<prev, executed, draining, node, old_head, pushed,
                     finishing, started, destroyed, beforeFinish>>
  BY DEF PopAll
<1>1. PICK l \in {"check", "wait", "pop", "advance", "execute", "more", "returned"} :
        l = (IF head # Null THEN "advance" ELSE IF draining THEN "returned" ELSE "check")
  OBVIOUS
<1>2. E \in Nat /\ P \in Nat /\ E <= P /\ \A i \in 1 .. P : pushed[i] \in Nodes /\ pushed[i] # Null
  BY RunLoopConstants DEF IInv, TypeOK, PendingOnce
<1>3. \A t \in Threads : pc[t] \in Pushing => next'[node[t]] = next[node[t]]
  BY PopAllReverses, PushesNode DEF IInv, PendingOnce
<1>4. /\ pc'[Loop] = l /\ Roles' /\ Accounts' /\ PendingOnce'
      /\ pc' \in [Threads -> {"idle", "push_load", "push_cas", "finished", "check", "wait", "pop",
                              "advance", "execute", "more", "returned"}]
  BY <1>0, <1>1, <1>3, ConsumerMoves DEF Pushing
<1>5. next' \in [Nodes -> Nodes \union {Null}] /\ it' \in Nodes \union {Null}
      /\ (it' = Null <=> head = Null)
  <2>1. head # Null => E + 1 \in 1 .. P
    BY <1>2, PopAllReverses
  <2> QED
    BY <2>1, <1>2, PopAllReverses
<1>6. TypeOK'
  BY <1>0, <1>4, <1>5 DEF IInv, TypeOK
<1>7. Reached' = E
  BY <1>0, <1>1, <1>4 DEF Reached
<1>8. TakenUpTo(P)'
  <2>1. \A i \in P + 1 .. P : FALSE
    BY <1>2
  <2>2. it' = IF P = E THEN Null ELSE pushed[E + 1]
    BY <1>2, PopAllReverses
  <2>3. \A i \in E + 1 .. P : next'[pushed[i]] = IF i = P THEN Null ELSE pushed[i + 1]
    <3>1. CASE head = Null
      BY <3>1, <1>2, PopAllReverses
    <3>2. CASE head # Null
      BY <3>2, PopAllReverses DEF Pending
    <3> QED
      BY <3>1, <3>2
  <2> QED
    BY <2>1, <2>2, <2>3, <1>0, <1>2, <1>7 DEF TakenUpTo
<1>9. Phases'
  <2>1. l \in {"advance", "returned", "check"} /\ (l = "advance" <=> head # Null)
        /\ (l = "returned" => draining)
    BY <1>1
  <2> QED
    BY <2>1, <1>0, <1>4, <1>5 DEF IInv, Phases, Pushing
<1>10. DrainedAtReturn'
  <2> SUFFICES ASSUME l = "returned"
               PROVE  /\ E >= beforeFinish
                      /\ \A p \in Chaining : Times(Then[p], executed) = Times(p, executed)
    BY <1>0, <1>4 DEF DrainedAtReturn
  <2>1. head = Null
    BY <1>1
  <2>2. E = P /\ beforeFinish <= P /\ beforeFinish \in Nat
    BY <2>1, PopAllReverses DEF IInv, Phases, TypeOK
  <2>3. executed = pushed
    <3>1. executed \in Seq(Nodes) /\ pushed \in Seq(Nodes)
          /\ \A i \in 1 .. Len(executed) : executed[i] = pushed[i]
      BY DEF IInv, TypeOK, PendingOnce
    <3> QED
      BY <3>1, <2>2, SeqEqual
  <2>4. ASSUME NEW p \in Chaining
        PROVE  Times(Then[p], executed) = Times(p, executed)
    <3>1. Times(Then[p], pushed) + (IF pc[Loop] \in Pushing /\ prev = p THEN 1 ELSE 0)
            = Times(p, executed) /\ Times(Then[p], pushed) \in Nat
      BY Counts DEF IInv, Accounts
    <3> QED
      BY <3>1, <2>3, <1>0 DEF Pushing
  <2> QED
    BY <2>2, <2>4, <1>2
<1> QED
  BY <1>2, <1>4, <1>6, <1>8, <1>9, <1>10 DEF IInv

-----------------------------------------------------------------------------
(* The theorems.                                                           *)

\* The invariant holds at the start.
LEMMA InitIInv == Init => IInv
<1> SUFFICES ASSUME Init PROVE IInv
  OBVIOUS
<1> USE DEF Init
<1>1. /\ Loop \in Threads /\ Loop \notin Producers /\ Loop \notin Finishers
      /\ Producers \subseteq Threads /\ Finishers \subseteq Threads
  BY RunLoopConstants DEF Threads
<1>2. TypeOK
  <2>1. pushed \in Seq(Nodes) /\ executed \in Seq(Nodes)
    OBVIOUS
  <2>2. /\ next \in [Nodes -> Nodes \union {Null}]
        /\ pc \in [Threads -> {"idle", "push_load", "push_cas", "finished", "check", "wait", "pop",
                               "advance", "execute", "more", "returned"}]
        /\ node \in [Threads -> Nodes \union {Null}]
        /\ old_head \in [Threads -> Nodes \union {Null}]
        /\ started \in [Producers -> Nat]
    OBVIOUS
  <2> QED
    BY <2>1, <2>2 DEF TypeOK
<1>3. Roles
  BY <1>1 DEF Roles, Pushing
<1>4. \A n : Times(n, <<>>) = 0
  <2>1. \A n : {i \in DOMAIN <<>> : <<>>[i] = n} = {}
    OBVIOUS
  <2> QED
    BY <2>1, FS_EmptySet DEF Times
<1>5. Accounts
  BY <1>1, <1>4 DEF Accounts, Pushing
<1>6. PendingOnce /\ Phases /\ DrainedAtReturn
  BY <1>1 DEF PendingOnce, Pending, Phases, DrainedAtReturn, Pushing
<1>7. TakenUpTo(0)
  BY <1>1 DEF TakenUpTo, Reached
<1> QED
  BY <1>2, <1>3, <1>5, <1>6, <1>7 DEF IInv

\* Every step preserves the invariant.
LEMMA NextIInv == IInv /\ [Next]_vars => IInv'
<1> SUFFICES ASSUME IInv, [Next]_vars PROVE IInv'
  OBVIOUS
<1>1. CASE Run
  BY <1>1, RunCheckStep, WaitForItemStep, PopAllStep, AdvanceStep, ExecuteStep, MoreStep,
     DestroyStep DEF Run
<1>2. ASSUME NEW t \in Threads, Push(t) PROVE IInv'
  BY <1>2, PushLoadStep, PushCasStep DEF Push
<1>3. ASSUME NEW p \in Producers, Start(p) PROVE IInv'
  BY <1>3, StartStep
<1>4. ASSUME NEW f \in Finishers, Finish(f) PROVE IInv'
  BY <1>4, FinishStep
<1>5. ASSUME UNCHANGED vars PROVE IInv'
  <2> USE <1>5 DEF vars, IInv
  <2>1. TypeOK' /\ Roles'
    BY DEF TypeOK, Roles
  <2>2. Accounts' /\ PendingOnce'
    BY DEF Accounts, PendingOnce, Pending, LastNode
  <2>3. (\E k \in Nat : TakenUpTo(k))'
    BY SameLists DEF Reached
  <2>4. Phases' /\ DrainedAtReturn'
    BY DEF Phases, DrainedAtReturn
  <2> QED
    BY <2>1, <2>2, <2>3, <2>4
<1> QED
  BY <1>1, <1>2, <1>3, <1>4, <1>5 DEF Next, Done

\* The invariant of the run loop: which pushes the consumer has taken and how
\* they are linked, and how often each node has been pushed.
THEOREM RunLoopInvariant == Spec => []IInv
BY InitIInv, NextIInv, PTL DEF Spec

\* The queue is first-in first-out and neither loses nor repeats an operation,
\* although the addresses of the operations come back.
THEOREM QueueIsFifoHolds == Spec => []QueueIsFifo
BY RunLoopInvariant, FifoFromIInv, PTL

\* run() returns only after it has executed every operation scheduled before
\* finish(), and everything these have scheduled in turn.
THEOREM DrainedAtReturnHolds == Spec => []DrainedAtReturn
<1>1. IInv => DrainedAtReturn
  BY DEF IInv
<1> QED
  BY <1>1, RunLoopInvariant, PTL
=============================================================================
