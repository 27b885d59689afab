--------------------------- MODULE Worker_proofs ---------------------------
(***************************************************************************)
(* Theorems about the start-up (Startup, with the queues of Affinity) and  *)
(* the loop of a worker.  What the recursive definitions compute is found  *)
(* first: a sum over a set of buffers counts the packets in them, and the  *)
(* queue that is dealt to the n-th worker is n modulo the queues.  StartInv *)
(* is inductive for the start-up: the CPUs given out ascend, and the next  *)
(* is as far from the first as there are workers.  LoopInv is, with it,    *)
(* for the loop: without a packet sent back to where it came from, the     *)
(* buffers are empty between rounds, so that a burst fits into each.       *)
(***************************************************************************)
EXTENDS Worker, FiniteSetTheorems, WellFoundedInduction, TLAPS

-----------------------------------------------------------------------------
(* Induction, and what the recursive definitions compute.                  *)

\* A set that has 0, and with a number the next one, has every number.
LEMMA AllNumbers ==
  ASSUME NEW S, 0 \in S, \A n \in Nat : n \in S => n + 1 \in S
  PROVE  Nat \subseteq S
<1> DEFINE T == Nat \ S
           R == {p \in Nat \X Nat : p[1] < p[2]}
<1>1. SUFFICES ASSUME T # {} PROVE FALSE
  OBVIOUS
<1>2. IsWellFoundedOn(R, Nat)
  BY NatLessThanWellFounded DEF OpToRel
<1>3. PICK x \in T : \A y \in T : ~(<<y, x>> \in R)
  <2>1. T \subseteq Nat OBVIOUS
  <2> HIDE DEF T, R
  <2> QED BY <1>1, <1>2, <2>1, WFMin
<1>4. x - 1 \in Nat /\ <<x - 1, x>> \in R
  OBVIOUS
<1> QED BY <1>3, <1>4

\* The packets in the buffers b of the ports P, one by one.
InBuffers(b, P) == {e \in P \X Nat : e[2] \in 1 .. Len(b[e[1]])}
Total(b, P) == FoldSet(LAMBDA p, n : n + Len(b[p]), 0, P)

\* The elements of two disjoint finite sets add up.
LEMMA Disjoint ==
  ASSUME NEW S, NEW T, IsFiniteSet(S), IsFiniteSet(T), S \intersect T = {}
  PROVE  /\ IsFiniteSet(S \union T) /\ Cardinality(S) \in Nat /\ Cardinality(T) \in Nat
         /\ Cardinality(S \union T) = Cardinality(S) + Cardinality(T)
<1>1. Cardinality(S) \in Nat /\ Cardinality(T) \in Nat
  BY FS_CardinalityType
<1>2. Cardinality(S \intersect T) = 0
  BY FS_EmptySet
<1>3. /\ IsFiniteSet(S \union T)
      /\ Cardinality(S \union T) = Cardinality(S) + Cardinality(T) - Cardinality(S \intersect T)
  BY FS_Union, Zenon
<1> QED BY <1>1, <1>2, <1>3

\* A port more, and its packets.
LEMMA OnePortMore ==
  ASSUME NEW b, NEW P, NEW x \in P, IsFiniteSet(InBuffers(b, P \ {x})), Len(b[x]) \in Nat
  PROVE  /\ IsFiniteSet(InBuffers(b, P)) /\ Cardinality(InBuffers(b, P \ {x})) \in Nat
         /\ Cardinality(InBuffers(b, P)) = Cardinality(InBuffers(b, P \ {x})) + Len(b[x])
<1> DEFINE n == Len(b[x])
           F == {x} \X (1 .. n)
<1>1. IsFiniteSet(1 .. n) /\ Cardinality(1 .. n) = n
  BY FS_Interval
<1>2. IsFiniteSet({x}) /\ Cardinality({x}) = 1
  BY FS_Singleton
<1>3. IsFiniteSet(F) /\ Cardinality(F) = n
  <2> DEFINE A == {x}
             B == 1 .. n
  <2> HIDE DEF A, B
  <2>1. IsFiniteSet(A \X B) /\ Cardinality(A \X B) = Cardinality(A) * Cardinality(B)
    BY <1>1, <1>2, FS_Product DEF A, B
  <2> QED BY <1>1, <1>2, <2>1 DEF A, B
<1>4. InBuffers(b, P) = InBuffers(b, P \ {x}) \union F
  BY DEF InBuffers
<1>5. InBuffers(b, P \ {x}) \intersect F = {}
  BY DEF InBuffers
<1> HIDE DEF F
<1> QED BY <1>3, <1>4, <1>5, Disjoint

\* The sum of their lengths is the number of packets in them.
LEMMA TotalCounts ==
  ASSUME NEW b, NEW P, IsFiniteSet(P), \A p \in P : Len(b[p]) \in Nat
  PROVE  /\ IsFiniteSet(InBuffers(b, P))
         /\ Total(b, P) = Cardinality(InBuffers(b, P))
<1> DEFINE AnyOf(s) == CHOOSE x \in s : TRUE
           Step(w, s) == IF s = {} THEN 0 ELSE w[s \ {AnyOf(s)}] + Len(b[AnyOf(s)])
           iter == CHOOSE w : w = [s \in SUBSET P |-> Step(w, s)]
           g == [s \in SUBSET P |-> Cardinality(InBuffers(b, s))]
           Counted == {n \in Nat : \A s \in SUBSET P : Cardinality(s) = n =>
                          IsFiniteSet(InBuffers(b, s)) /\ iter[s] = g[s]}
<1>1. Total(b, P) = iter[P]
  BY DEF Total, FoldSet, MapThenFoldSet
<1>2. \A s \in SUBSET P : IsFiniteSet(s) /\ Cardinality(s) \in Nat /\ (Cardinality(s) = 0 <=> s = {})
  BY FS_Subset, FS_CardinalityType, FS_EmptySet
<1>3. IsFiniteSet(InBuffers(b, {})) /\ Cardinality(InBuffers(b, {})) = 0
  <2>1. InBuffers(b, {}) = {}
    BY DEF InBuffers
  <2> QED BY <2>1, FS_EmptySet
<1>4. ASSUME NEW s \in SUBSET P, s # {}
      PROVE  /\ AnyOf(s) \in s /\ s \ {AnyOf(s)} \in SUBSET P /\ Len(b[AnyOf(s)]) \in Nat
             /\ Cardinality(s \ {AnyOf(s)}) = Cardinality(s) - 1
  BY <1>2, <1>4, FS_RemoveElement
<1> HIDE DEF AnyOf
<1>5. \A s \in SUBSET P : IsFiniteSet(InBuffers(b, s))
  <2> DEFINE S == {n \in Nat : \A s \in SUBSET P :
                      Cardinality(s) = n => IsFiniteSet(InBuffers(b, s))}
  <2>1. 0 \in S
    BY <1>2, <1>3
  <2>2. ASSUME NEW n \in Nat, n \in S PROVE n + 1 \in S
    <3>1. ASSUME NEW s \in SUBSET P, Cardinality(s) = n + 1
          PROVE  IsFiniteSet(InBuffers(b, s))
      <4>1. s # {}
        BY <1>2, <3>1
      <4>2. IsFiniteSet(InBuffers(b, s \ {AnyOf(s)}))
        BY <1>4, <2>2, <3>1, <4>1
      <4> QED BY <1>4, <4>1, <4>2, OnePortMore
    <3> QED BY <3>1
  <2> HIDE DEF S
  <2>3. Nat \subseteq S
    BY <2>1, <2>2, AllNumbers
  <2> QED BY <1>2, <2>3 DEF S
<1>6. \A s \in SUBSET P : g[s] = Step(g, s)
  <2>1. ASSUME NEW s \in SUBSET P, s # {}
        PROVE  Cardinality(InBuffers(b, s)) = Cardinality(InBuffers(b, s \ {AnyOf(s)})) + Len(b[AnyOf(s)])
    <3>1. PICK x \in s : x = AnyOf(s) /\ s \ {x} \in SUBSET P /\ Len(b[x]) \in Nat
      BY <1>4, <2>1
    <3>2. IsFiniteSet(InBuffers(b, s \ {x}))
      BY <1>5, <3>1
    <3> QED BY <3>1, <3>2, OnePortMore
  <2> QED BY <1>3, <1>4, <2>1
<1>7. iter = [s \in SUBSET P |-> Step(iter, s)]
  <2>1. g = [s \in SUBSET P |-> Step(g, s)]
    BY <1>6
  <2> HIDE DEF g, Step
  <2> QED BY <2>1
<1> HIDE DEF iter, g
<1>8. \A s \in SUBSET P : iter[s] = g[s]
  <2> DEFINE S == {n \in Nat : \A s \in SUBSET P : Cardinality(s) = n => iter[s] = g[s]}
  <2>1. 0 \in S
    BY <1>2, <1>6, <1>7
  <2>2. ASSUME NEW n \in Nat, n \in S PROVE n + 1 \in S
    <3>1. ASSUME NEW s \in SUBSET P, Cardinality(s) = n + 1
          PROVE  iter[s] = g[s]
      <4>1. s # {}
        BY <1>2, <3>1
      <4>2. s \ {AnyOf(s)} \in SUBSET P /\ Cardinality(s \ {AnyOf(s)}) = n
        BY <1>4, <3>1, <4>1
      <4>3. iter[s \ {AnyOf(s)}] = g[s \ {AnyOf(s)}]
        BY <2>2, <4>2
      <4> QED BY <1>6, <1>7, <4>1, <4>3
    <3> QED BY <3>1
  <2> HIDE DEF S
  <2>3. Nat \subseteq S
    BY <2>1, <2>2, AllNumbers
  <2> QED BY <1>2, <2>3 DEF S
<1> QED BY <1>1, <1>5, <1>8 DEF g

\* One packet more in each of the buffers of the ports Q.
LEMMA OnePacketEach ==
  ASSUME NEW b, NEW c, NEW P, NEW Q \in SUBSET P, IsFiniteSet(P),
         \A p \in P : Len(b[p]) \in Nat /\ Len(c[p]) = IF p \in Q THEN Len(b[p]) + 1 ELSE Len(b[p])
  PROVE  Total(c, P) = Total(b, P) + Cardinality(Q) /\ Total(b, P) \in Nat /\ Cardinality(Q) \in Nat
<1> DEFINE F == {e \in Q \X Nat : e[2] = Len(b[e[1]]) + 1}
           g == [p \in Q |-> <<p, Len(b[p]) + 1>>]
<1>1. /\ IsFiniteSet(InBuffers(b, P)) /\ Total(b, P) = Cardinality(InBuffers(b, P))
      /\ Total(c, P) = Cardinality(InBuffers(c, P)) /\ IsFiniteSet(Q)
  BY TotalCounts, FS_Subset
<1>2. IsFiniteSet(F) /\ Cardinality(F) = Cardinality(Q)
  <2>1. g \in [Q -> F] /\ (\A p, q \in Q : g[p] = g[q] => p = q) /\ \A e \in F : \E p \in Q : g[p] = e
    OBVIOUS
  <2> HIDE DEF F, g
  <2>2. g \in Bijection(Q, F)
    BY <2>1 DEF Bijection, Injection, Surjection, IsInjective
  <2> QED BY <1>1, <2>2, FS_Bijection DEF ExistsBijection
<1>3. InBuffers(c, P) = InBuffers(b, P) \union F
  BY DEF InBuffers
<1>4. InBuffers(b, P) \intersect F = {}
  BY DEF InBuffers
<1> HIDE DEF F
<1>5. /\ Cardinality(InBuffers(b, P)) \in Nat /\ Cardinality(F) \in Nat
      /\ Cardinality(InBuffers(b, P) \union F) = Cardinality(InBuffers(b, P)) + Cardinality(F)
  BY <1>1, <1>2, <1>4, Disjoint
<1> QED BY <1>1, <1>2, <1>3, <1>5

\* The buffers of the ports Q emptied.
LEMMA Emptied ==
  ASSUME NEW b, NEW c, NEW P, NEW Q \in SUBSET P, IsFiniteSet(P),
         \A p \in P : Len(b[p]) \in Nat /\ Len(c[p]) = IF p \in Q THEN 0 ELSE Len(b[p])
  PROVE  Total(b, P) = Total(c, P) + Total(b, Q) /\ Total(c, P) \in Nat /\ Total(b, Q) \in Nat
<1>1. /\ IsFiniteSet(InBuffers(b, Q)) /\ Total(b, Q) = Cardinality(InBuffers(b, Q))
      /\ IsFiniteSet(InBuffers(c, P)) /\ Total(c, P) = Cardinality(InBuffers(c, P))
      /\ Total(b, P) = Cardinality(InBuffers(b, P))
  BY TotalCounts, FS_Subset
<1>2. InBuffers(b, P) = InBuffers(c, P) \union InBuffers(b, Q)
  BY DEF InBuffers
<1>3. InBuffers(c, P) \intersect InBuffers(b, Q) = {}
  BY DEF InBuffers
<1>4. PICK S, T : S = InBuffers(c, P) /\ T = InBuffers(b, Q)
  OBVIOUS
<1>5. IsFiniteSet(S) /\ IsFiniteSet(T) /\ S \intersect T = {}
  BY <1>1, <1>3, <1>4, Zenon
<1>6. /\ Cardinality(S) \in Nat /\ Cardinality(T) \in Nat
      /\ Cardinality(S \union T) = Cardinality(S) + Cardinality(T)
  BY <1>5, Disjoint, Zenon
<1>7. /\ Total(c, P) = Cardinality(S) /\ Total(b, Q) = Cardinality(T)
      /\ Total(b, P) = Cardinality(S \union T)
  BY <1>1, <1>2, <1>4, Zenon
<1> QED BY <1>6, <1>7, Zenon

-----------------------------------------------------------------------------
(* Queues.                                                                 *)

\* Quotient and remainder of a number.
LEMMA Division ==
  ASSUME NEW q \in Nat \ {0}, NEW n \in Nat
  PROVE  n = q * (n \div q) + (n % q) /\ n % q \in 0 .. q - 1 /\ n \div q \in Nat
  OBVIOUS

\* The remainder of a number that was put together from both.
LEMMA Remainder ==
  ASSUME NEW q \in Nat \ {0}, NEW d \in Nat, NEW r \in 0 .. q - 1
  PROVE  (q * d + r) % q = r
  OBVIOUS

\* The remainder of a number below the divisor.
LEMMA SmallRemainder ==
  ASSUME NEW q \in Nat \ {0}, NEW n \in 0 .. q - 1
  PROVE  n % q = n
  OBVIOUS

\* NextQueue counts in a circle.
LEMMA NextRemainder ==
  ASSUME NEW q \in Nat \ {0}, NEW n \in Nat
  PROVE  (n + 1) % q = NextQueue(n % q, q)
<1> DEFINE d == n \div q
           r == n % q
<1>1. n = q * d + r /\ r \in 0 .. q - 1 /\ d \in Nat
  BY Division
<1> HIDE DEF d, r
<1>2. CASE r + 1 < q
  <2>1. n + 1 = q * d + (r + 1) /\ r + 1 \in 0 .. q - 1
    BY <1>1, <1>2
  <2>2. (n + 1) % q = r + 1
    BY <1>1, <2>1, Remainder
  <2> QED BY <1>1, <1>2, <2>2 DEF NextQueue, r
<1>3. CASE r + 1 >= q
  <2>1. n + 1 = q * (d + 1) + 0 /\ d + 1 \in Nat
    BY <1>1, <1>3
  <2>2. (n + 1) % q = 0
    <3>1. PICK e \in Nat : e = d + 1
      BY <2>1
    <3>2. (q * e + 0) % q = 0
      BY Remainder
    <3> QED BY <2>1, <3>1, <3>2
  <2> QED BY <1>1, <1>3, <2>2 DEF NextQueue, r
<1> QED BY <1>1, <1>2, <1>3

\* The queue dealt to the n-th worker is n modulo the number of queues.
LEMMA QueueOfIs ==
  ASSUME NEW n \in Nat, NEW q \in Nat \ {0}
  PROVE  QueueOf(n, q) = n % q
<1> DEFINE Step(w, k) == IF k = 0 THEN 0 ELSE NextQueue(w[k - 1], q)
           next == CHOOSE w : w = [k \in 0 .. n |-> Step(w, k)]
           g == [k \in 0 .. n |-> k % q]
<1>1. QueueOf(n, q) = next[n]
  BY DEF QueueOf
<1>2. \A k \in 0 .. n : g[k] = Step(g, k)
  <2>1. ASSUME NEW k \in 0 .. n, k # 0
        PROVE  k % q = NextQueue((k - 1) % q, q)
    <3>1. k - 1 \in Nat /\ k - 1 + 1 = k
      BY <2>1
    <3> QED BY <3>1, NextRemainder
  <2>2. 0 % q = 0
    BY SmallRemainder
  <2>3. ASSUME NEW k \in 0 .. n PROVE g[k] = Step(g, k)
    <3>1. CASE k = 0
      BY <2>2, <3>1
    <3>2. CASE k # 0
      <4>1. k - 1 \in 0 .. n /\ g[k - 1] = (k - 1) % q
        BY <3>2
      <4>2. g[k] = NextQueue((k - 1) % q, q)
        BY <2>1, <3>2
      <4> HIDE DEF g
      <4> QED BY <3>2, <4>1, <4>2
    <3> QED BY <3>1, <3>2
  <2> QED BY <2>3
<1>3. next = [k \in 0 .. n |-> Step(next, k)]
  <2>1. g = [k \in 0 .. n |-> Step(g, k)]
    BY <1>2
  <2> HIDE DEF g, Step
  <2> QED BY <2>1
<1> HIDE DEF next, g
<1>4. \A k \in 0 .. n : next[k] = g[k]
  <2> DEFINE S == {k \in Nat : k <= n => next[k] = g[k]}
  <2>1. 0 \in S
    BY <1>2, <1>3
  <2>2. ASSUME NEW k \in Nat, k \in S PROVE k + 1 \in S
    BY <1>2, <1>3, <2>2
  <2> HIDE DEF S
  <2>3. Nat \subseteq S
    BY <2>1, <2>2, AllNumbers
  <2> QED BY <2>3 DEF S
<1> QED BY <1>1, <1>4 DEF g

-----------------------------------------------------------------------------
(* The place of a number among others, from 0.                             *)

Before(v, w) == v < w
Rank(R, w) == Cardinality({v \in R : Before(v, w)})

\* Before orders any set of numbers.
LEMMA Ordered ==
  ASSUME NEW R, \A v \in R : v \in Nat
  PROVE  /\ \A v, w \in R : v = w \/ Before(v, w) \/ Before(w, v)
         /\ \A v, w \in R : Before(v, w) => ~Before(w, v) /\ v # w
         /\ \A u, v, w \in R : Before(u, v) /\ Before(v, w) => Before(u, w)
         /\ \A v, w \in R : (v <= w <=> ~Before(w, v)) /\ (v > w <=> Before(w, v))
<1>1. \A v, w \in Nat : /\ v = w \/ Before(v, w) \/ Before(w, v)
                        /\ Before(v, w) => ~Before(w, v) /\ v # w
                        /\ (v <= w <=> ~Before(w, v)) /\ (v > w <=> Before(w, v))
  BY DEF Before
<1>2. \A u, v, w \in Nat : Before(u, v) /\ Before(v, w) => Before(u, w)
  BY DEF Before
<1> QED BY <1>1, <1>2, Zenon

\* The first of a set of numbers is the least.
LEMMA FirstIsLeast ==
  ASSUME NEW R, \A v \in R : v \in Nat, R # {}
  PROVE  First(R) \in R /\ \A d \in R : First(R) <= d
<1> DEFINE L == {p \in Nat \X Nat : p[1] < p[2]}
<1>1. IsWellFoundedOn(L, Nat)
  BY NatLessThanWellFounded DEF OpToRel
<1>2. PICK x \in R : \A y \in R : ~(<<y, x>> \in L)
  <2>1. R \subseteq Nat
    OBVIOUS
  <2> HIDE DEF L
  <2> QED BY <1>1, <2>1, WFMin
<1>3. \A v, w \in Nat : ~(<<v, w>> \in L) => w <= v
  OBVIOUS
<1> HIDE DEF L
<1>4. \A y \in R : x <= y
  BY <1>2, <1>3, Zenon
<1>5. First(R) \in R /\ \A d \in R : First(R) <= d
  BY <1>4, Zenon DEF First
<1> QED BY <1>5, Zenon

\* Who is next has one more before it.
LEMMA RankNext ==
  ASSUME NEW R, \A v \in R : v \in Nat, IsFiniteSet(R), NEW w \in R
  PROVE  /\ Rank(R, w) \in Nat /\ Rank(R, w) < Cardinality(R) /\ Cardinality(R) \in Nat
         /\ (\A d \in R : ~Before(w, d)) <=> Rank(R, w) + 1 = Cardinality(R)
         /\ \A u \in R : Before(w, u) /\ (\A d \in R : Before(w, d) => ~Before(d, u)) =>
              Rank(R, u) = Rank(R, w) + 1
         /\ \A u \in R : Before(w, u) => Rank(R, u) > Rank(R, w)
<1> DEFINE B == {v \in R : Before(v, w)}
           A == {v \in R : Before(w, v)}
<1>0. /\ \A v, x \in R : v = x \/ Before(v, x) \/ Before(x, v)
      /\ \A v, x \in R : Before(v, x) => ~Before(x, v) /\ v # x
      /\ \A v, x, y \in R : Before(v, x) /\ Before(x, y) => Before(v, y)
  BY Ordered, Zenon
<1>1. /\ IsFiniteSet(B) /\ IsFiniteSet(A) /\ IsFiniteSet(B \union {w})
      /\ Cardinality(B) \in Nat /\ Cardinality(A) \in Nat /\ Cardinality(R) \in Nat
      /\ Cardinality(B \union {w}) = Cardinality(B) + 1
  <2>1. B \in SUBSET R /\ A \in SUBSET R /\ w \notin B
    BY <1>0
  <2> HIDE DEF A, B
  <2> QED BY <2>1, FS_Subset, FS_AddElement, FS_CardinalityType
<1>2. R = (B \union {w}) \union A /\ (B \union {w}) \intersect A = {}
  BY <1>0
<1>3. Cardinality(R) = Cardinality(B) + 1 + Cardinality(A) /\ (Cardinality(A) = 0 <=> A = {})
  <2> HIDE DEF A, B
  <2>1. Cardinality((B \union {w}) \union A) = Cardinality(B \union {w}) + Cardinality(A)
    BY <1>1, <1>2, Disjoint
  <2> QED BY <1>1, <1>2, <2>1, FS_EmptySet
<1>4. A = {} <=> \A d \in R : ~Before(w, d)
  OBVIOUS
<1>5. ASSUME NEW u \in R, Before(w, u), \A d \in R : Before(w, d) => ~Before(d, u)
      PROVE  Rank(R, u) = Cardinality(B) + 1
  <2>1. {v \in R : Before(v, u)} = B \union {w}
    BY <1>0, <1>5
  <2> HIDE DEF B
  <2> QED BY <1>1, <2>1 DEF Rank
<1>6. ASSUME NEW u \in R, Before(w, u)
      PROVE  Rank(R, u) > Cardinality(B)
  <2> DEFINE C == {v \in R : Before(v, u)}
  <2>1. B \union {w} \in SUBSET C /\ C \in SUBSET R
    BY <1>0, <1>6
  <2> HIDE DEF B, C
  <2>2. IsFiniteSet(C) /\ Cardinality(C) \in Nat /\ Cardinality(B \union {w}) <= Cardinality(C)
    <3>1. IsFiniteSet(C)
      BY <2>1, FS_Subset
    <3> QED BY <2>1, <3>1, FS_Subset, FS_CardinalityType
  <2>3. Rank(R, u) = Cardinality(C)
    BY DEF Rank, C
  <2> QED BY <1>1, <2>2, <2>3
<1>7. Rank(R, w) = Cardinality(B)
  BY DEF Rank
<1> HIDE DEF A, B
<1>8. (\A d \in R : ~Before(w, d)) <=> Rank(R, w) + 1 = Cardinality(R)
  BY <1>1, <1>3, <1>4, <1>7
<1> QED BY <1>1, <1>3, <1>5, <1>6, <1>7, <1>8

\* Every place is somebody's.
LEMMA RankOnto ==
  ASSUME NEW R, \A v \in R : v \in Nat, IsFiniteSet(R), NEW k \in 0 .. Cardinality(R) - 1
  PROVE  \E w \in R : Rank(R, w) = k
<1>0. Cardinality(R) \in Nat
  BY FS_CardinalityType
<1> DEFINE S == {n \in Nat : n < Cardinality(R) => \E w \in R : Rank(R, w) = n}
<1>1. 0 \in S
  <2>1. SUFFICES ASSUME 0 < Cardinality(R) PROVE \E w \in R : Rank(R, w) = 0
    OBVIOUS
  <2>2. R # {}
    BY <2>1, FS_EmptySet
  <2>3. First(R) \in R /\ \A d \in R : First(R) <= d
    BY <2>2, FirstIsLeast
  <2>4. {v \in R : Before(v, First(R))} = {}
    BY <2>3, Ordered, Zenon
  <2> QED BY <2>3, <2>4, FS_EmptySet DEF Rank
<1>2. ASSUME NEW n \in Nat, n \in S PROVE n + 1 \in S
  <2>1. SUFFICES ASSUME n + 1 < Cardinality(R) PROVE \E w \in R : Rank(R, w) = n + 1
    OBVIOUS
  <2>2. PICK w \in R : Rank(R, w) = n
    BY <1>0, <1>2, <2>1
  <2> DEFINE A == {d \in R : Before(w, d)}
             u == First(A)
  <2>3. A # {} /\ \A v \in A : v \in Nat
    <3>1. ~ \A d \in R : ~Before(w, d)
      BY <1>0, <2>1, <2>2, RankNext
    <3> QED BY <3>1
  <2>4. u \in A /\ \A d \in A : u <= d
    <3> HIDE DEF A
    <3> QED BY <2>3, FirstIsLeast
  <2>5. u \in R /\ Before(w, u) /\ \A d \in R : Before(w, d) => u <= d
    BY <2>4
  <2> HIDE DEF u
  <2>6. \A d \in R : Before(w, d) => ~Before(d, u)
    BY <2>5, Ordered, Zenon
  <2> QED BY <2>2, <2>5, <2>6, RankNext
<1> HIDE DEF S
<1>3. Nat \subseteq S
  BY <1>1, <1>2, AllNumbers
<1> QED BY <1>0, <1>3 DEF S

\* The workers of an interface, each from its place on, or in a circle.
LEMMA Dealt ==
  ASSUME NEW R, \A v \in R : v \in Nat, IsFiniteSet(R), R # {}, NEW m \in Nat \ {0},
         NEW q, q = Least(Cardinality(R), m)
  PROVE  /\ q \in Nat \ {0} /\ Cardinality(R) \in Nat
         /\ \A w \in R : QueueOf(Rank(R, w), q) \in 0 .. q - 1
         /\ \A k \in 0 .. q - 1 : \E w \in R : QueueOf(Rank(R, w), q) = k
         /\ Cardinality(R) <= m =>
              \A v, w \in R : v # w => QueueOf(Rank(R, v), q) # QueueOf(Rank(R, w), q)
<1>1. /\ q \in Nat \ {0} /\ Cardinality(R) \in Nat /\ q <= Cardinality(R)
      /\ Cardinality(R) <= m => q = Cardinality(R)
  BY FS_EmptySet, FS_CardinalityType DEF Least
<1>2. ASSUME NEW w \in R
      PROVE  /\ Rank(R, w) \in Nat /\ Rank(R, w) < Cardinality(R)
             /\ QueueOf(Rank(R, w), q) = Rank(R, w) % q
             /\ QueueOf(Rank(R, w), q) \in 0 .. q - 1
  <2>1. Rank(R, w) \in Nat /\ Rank(R, w) < Cardinality(R)
    BY <1>1, RankNext
  <2>2. PICK n \in Nat : n = Rank(R, w)
    BY <2>1
  <2>3. QueueOf(n, q) = n % q /\ n % q \in 0 .. q - 1
    BY <1>1, QueueOfIs, Division
  <2> QED BY <2>1, <2>2, <2>3
<1>3. ASSUME NEW k \in 0 .. q - 1
      PROVE  \E w \in R : QueueOf(Rank(R, w), q) = k
  <2>1. k \in 0 .. Cardinality(R) - 1 /\ k % q = k
    BY <1>1, SmallRemainder
  <2>2. PICK w \in R : Rank(R, w) = k
    BY <2>1, RankOnto
  <2> QED BY <1>2, <2>1, <2>2
<1>4. ASSUME Cardinality(R) <= m, NEW v \in R, NEW w \in R, v # w
      PROVE  QueueOf(Rank(R, v), q) # QueueOf(Rank(R, w), q)
  <2>1. \A u \in R : QueueOf(Rank(R, u), q) = Rank(R, u)
    BY <1>1, <1>2, <1>4, SmallRemainder
  <2>2. Before(v, w) \/ Before(w, v)
    BY <1>4, Ordered, Zenon
  <2>3. Rank(R, v) # Rank(R, w)
    BY <1>2, <2>2, RankNext
  <2> QED BY <2>1, <2>3
<1> QED BY <1>1, <1>2, <1>3, <1>4

\* QueuesServed holds of every configuration.
Configured(c) ==
  /\ c.if_count \in Nat \ {0} /\ c.num_workers \in Nat \ {0}
  /\ c.max_input_queues \in Nat \ {0} /\ c.max_output_queues \in Nat \ {0}

\* Every interface has a worker that receives from it.
LEMMA SomebodyReceives ==
  ASSUME NEW c, Configured(c), NEW i \in Interfaces(c)
  PROVE  /\ Receivers(c, i) # {} /\ IsFiniteSet(Receivers(c, i))
         /\ \A w \in Receivers(c, i) : w \in Nat
<1>1. /\ IsFiniteSet(Workers(c)) /\ Receivers(c, i) \in SUBSET Workers(c)
      /\ \A w \in Workers(c) : w \in Nat
  <2>1. 0 \in Int /\ c.num_workers - 1 \in Int
    BY DEF Configured
  <2>2. IsFiniteSet(0 .. c.num_workers - 1)
    BY <2>1, FS_Interval
  <2> QED BY <2>2 DEF Workers, Receivers
<1>2. i \in 0 .. c.if_count - 1
  BY DEF Interfaces
<1>3. CASE c.if_count > c.num_workers
  <2>1. i % c.num_workers \in 0 .. c.num_workers - 1
    <3>1. PICK n \in Nat \ {0} : n = c.num_workers
      BY DEF Configured
    <3>2. PICK f \in Nat \ {0} : f = c.if_count
      BY DEF Configured
    <3>3. i \in Nat
      BY <1>2, <3>2
    <3> QED BY <3>1, <3>3, Division
  <2>2. i % c.num_workers \in Receivers(c, i)
    BY <1>3, <2>1 DEF Receivers, Polls, Workers
  <2> QED BY <1>1, <2>2, FS_Subset
<1>4. CASE ~(c.if_count > c.num_workers)
  <2>1. i \in 0 .. c.num_workers - 1 /\ i % c.if_count = i
    BY <1>2, <1>4, SmallRemainder DEF Configured
  <2>2. i \in Receivers(c, i)
    BY <1>4, <2>1 DEF Receivers, Polls, Workers
  <2> QED BY <1>1, <2>2, FS_Subset
<1> QED BY <1>3, <1>4

\* Every queue that is opened has a worker, and only one unless there are more workers
\* than queues.
LEMMA Served ==
  ASSUME NEW c, Configured(c)
  PROVE  QueuesServed(c)
<1> SUFFICES ASSUME NEW i \in Interfaces(c)
             PROVE  /\ \A v, w \in Receivers(c, i) :
                         v # w /\ RxQueue(c, v, i) = RxQueue(c, w, i) => RxShared(c, i)
                    /\ \A v, w \in Workers(c) :
                         v # w /\ TxQueue(c, v, i) = TxQueue(c, w, i) => TxShared(c, i)
                    /\ Receivers(c, i) # {}
                    /\ {RxQueue(c, w, i) : w \in Receivers(c, i)}
                         = 0 .. num_rx_queue(c, i) - 1
  BY DEF QueuesServed
<1>1. PICK R : R = Receivers(c, i)
  OBVIOUS
<1>2. R # {} /\ IsFiniteSet(R) /\ \A w \in R : w \in Nat
  BY <1>1, SomebodyReceives
<1>3. PICK q : q = Least(Cardinality(R), c.max_input_queues)
  OBVIOUS
<1>4. q = num_rx_queue(c, i) /\ (RxShared(c, i) <=> Cardinality(R) > c.max_input_queues)
  BY <1>1, <1>3 DEF num_rx_queue, RxShared
<1>5. \A w \in R : RxQueue(c, w, i) = QueueOf(Rank(R, w), q)
  BY <1>1, <1>4 DEF RxQueue, Rank, Before
<1>6. PICK m \in Nat \ {0} : m = c.max_input_queues
  BY DEF Configured
<1>7. /\ q \in Nat \ {0} /\ Cardinality(R) \in Nat
      /\ \A w \in R : QueueOf(Rank(R, w), q) \in 0 .. q - 1
      /\ \A k \in 0 .. q - 1 : \E w \in R : QueueOf(Rank(R, w), q) = k
      /\ Cardinality(R) <= m =>
           \A v, w \in R : v # w => QueueOf(Rank(R, v), q) # QueueOf(Rank(R, w), q)
  BY <1>2, <1>3, <1>6, Dealt
<1>8. ASSUME NEW v \in R, NEW w \in R, v # w, RxQueue(c, v, i) = RxQueue(c, w, i)
      PROVE  RxShared(c, i)
  <2>1. ~(Cardinality(R) <= m)
    BY <1>5, <1>7, <1>8
  <2> QED BY <1>4, <1>6, <1>7, <2>1
<1>9. {RxQueue(c, w, i) : w \in R} = 0 .. q - 1
  <2>1. \A w \in R : RxQueue(c, w, i) \in 0 .. q - 1
    BY <1>5, <1>7
  <2>2. \A k \in 0 .. q - 1 : \E w \in R : RxQueue(c, w, i) = k
    BY <1>5, <1>7
  <2> QED BY <2>1, <2>2
<1>10. ASSUME NEW v \in Workers(c), NEW w \in Workers(c), v # w,
              TxQueue(c, v, i) = TxQueue(c, w, i), ~TxShared(c, i)
       PROVE  FALSE
  <2>1. PICK n \in Nat \ {0} : n = c.num_workers
    BY DEF Configured
  <2>2. num_tx_queue(c, i) = n
    BY <1>10, <2>1 DEF TxShared, num_tx_queue, Least, Configured
  <2>3. v \in 0 .. n - 1 /\ w \in 0 .. n - 1
    BY <2>1 DEF Workers
  <2>4. TxQueue(c, v, i) = v /\ TxQueue(c, w, i) = w
    BY <2>2, <2>3, QueueOfIs, SmallRemainder DEF TxQueue
  <2> QED BY <1>10, <2>4
<1> QED BY <1>1, <1>2, <1>4, <1>8, <1>9, <1>10

-----------------------------------------------------------------------------
(* The start-up.                                                           *)

Chosen == [if_count |-> args.if_count, num_workers |-> Cardinality(cpumask),
           cpu_count |-> args.cpu_count]
Nothing == [if_count |-> 0, num_workers |-> 0, cpu_count |-> 0]

\* What was read, and what became of it.
ArgsInv ==
  /\ args \in Arguments /\ capa \in Capabilities
  /\ stage \in {"parse_args", "cpus", "create_pktio", "queues", "start", "join"}
  /\ stage # "parse_args" => Acceptable
ApplInv ==
  /\ stage = "parse_args" => appl = Nothing
  /\ stage = "cpus" =>
       appl = [if_count |-> args.if_count, num_workers |-> 0, cpu_count |-> args.cpu_count]
  /\ stage = "create_pktio" => appl = Chosen
  /\ stage \in {"queues", "start", "join"} =>
       appl = Chosen \/ (appl = Nothing /\ args.if_count = MAX_PKTIOS)

\* The CPUs of the workers.
MaskInv ==
  stage \in {"create_pktio", "queues", "start", "join"} =>
    /\ cpumask # {} /\ cpumask \subseteq WorkerCpus
    /\ args.cpu_mask = None => control \intersect cpumask = {}

\* The interfaces.
OpenInv ==
  /\ opened \in Nat /\ started \in Nat
  /\ stage \in {"parse_args", "cpus", "create_pktio", "queues"} => started = 0
  /\ stage \in {"parse_args", "cpus"} => opened = 0
  /\ stage = "create_pktio" => opened <= args.if_count
  /\ stage \in {"queues", "start", "join"} => opened = args.if_count
  /\ stage = "start" => started <= args.if_count
  /\ stage = "join" => started = args.if_count
  /\ stage \in {"start", "join"} =>
       bound = [workers |-> 0 .. appl.num_workers - 1,
                ports |-> IF appl.num_workers = 0 THEN {} ELSE 0 .. appl.if_count - 1]

\* The CPUs given out, in ascending order when there is one for each.
CpuInv ==
  /\ stage \notin {"start", "join"} => cpu_of = <<>>
  /\ stage \in {"start", "join"} => cpu_of \in Seq(cpumask)
  /\ stage = "start" => Len(cpu_of) < Cardinality(cpumask) /\ cpu \in cpumask
  /\ stage = "join" => Len(cpu_of) = Cardinality(cpumask)
  /\ stage \in {"start", "join"} /\ appl.cpu_count > 0 =>
       \A v, w \in DOMAIN cpu_of : v < w => Before(cpu_of[v], cpu_of[w])
  /\ stage = "start" /\ appl.cpu_count > 0 =>
       /\ \A v \in DOMAIN cpu_of : Before(cpu_of[v], cpu)
       /\ Rank(cpumask, cpu) = Len(cpu_of)

StartInv == ArgsInv /\ ApplInv /\ MaskInv /\ OpenInv /\ CpuInv

\* ODP's choice: some of the CPUs for workers, at least one.
LEMMA SomeCpus ==
  ASSUME args.cpus \in Nat \ {0}, NEW num \in Nat
  PROVE  /\ odp_cpumask_default_worker(num) \subseteq WorkerCpus
         /\ odp_cpumask_default_worker(num) # {}
<1>1. PICK n \in Nat : n = args.cpus - 1
  OBVIOUS
<1>2. PICK W : W = WorkerCpus
  OBVIOUS
<1>3. /\ Cardinality(W) \in Nat \ {0}
      /\ \A k \in 1 .. Cardinality(W) : \E S \in SUBSET W : Cardinality(S) = k
  <2>1. CASE n = 0
    <3>1. W = {0}
      BY <1>1, <1>2, <2>1 DEF WorkerCpus
    <3>2. Cardinality(W) = 1
      BY <3>1, FS_Singleton
    <3> QED BY <3>2
  <2>2. CASE n # 0
    <3>1. W = 1 .. n
      BY <1>1, <1>2, <2>2 DEF WorkerCpus
    <3>2. \A k \in 0 .. n : Cardinality(1 .. k) = k
      BY FS_Interval
    <3>3. Cardinality(W) = n
      BY <3>1, <3>2
    <3>4. \A k \in 1 .. n : 1 .. k \in SUBSET W
      BY <3>1
    <3> QED BY <2>2, <3>2, <3>3, <3>4
  <2> QED BY <2>1, <2>2
<1>4. PICK count : count = IF num = 0 THEN Cardinality(W) ELSE Least(num, Cardinality(W))
  OBVIOUS
<1>5. count \in 1 .. Cardinality(W)
  BY <1>3, <1>4 DEF Least
<1>6. odp_cpumask_default_worker(num) = CHOOSE S \in SUBSET W : Cardinality(S) = count
  BY <1>2, <1>4 DEF odp_cpumask_default_worker
<1>7. PICK T \in SUBSET W : Cardinality(T) = count
  BY <1>3, <1>5
<1>8. PICK S : S = odp_cpumask_default_worker(num)
  OBVIOUS
<1>9. S \in SUBSET W /\ Cardinality(S) = count
  BY <1>6, <1>7, <1>8
<1>10. S # {}
  BY <1>3, <1>5, <1>9, FS_EmptySet
<1> QED BY <1>2, <1>8, <1>9, <1>10

\* They are numbers, and finitely many.
LEMMA CpusAreNumbers ==
  ASSUME args.cpus \in Nat \ {0}
  PROVE  IsFiniteSet(WorkerCpus) /\ (\A d \in WorkerCpus : d \in Nat)
         /\ (args.cpus > 2 => 0 \notin WorkerCpus)
<1>1. PICK n \in Nat : n = args.cpus - 1
  OBVIOUS
<1>2. IsFiniteSet(1 .. n)
  BY FS_Interval
<1>3. IsFiniteSet({0})
  BY FS_Singleton
<1> QED BY <1>1, <1>2, <1>3 DEF WorkerCpus

\* After the CPU at one place of a mask comes that at the next.
LEMMA AfterIsNext ==
  ASSUME NEW R, \A v \in R : v \in Nat, IsFiniteSet(R), R # {}, NEW w \in R
  PROVE  /\ After(R, w) \in R
         /\ Rank(R, w) + 1 # Cardinality(R) =>
              Before(w, After(R, w)) /\ Rank(R, After(R, w)) = Rank(R, w) + 1
<1>1. \A v, x \in R : (v <= x <=> ~Before(x, v)) /\ (v > x <=> Before(x, v))
  BY Ordered, Zenon
<1>2. CASE \A d \in R : d <= w
  <2>1. After(R, w) = First(R)
    BY <1>2 DEF After
  <2>2. First(R) \in R
    BY FirstIsLeast
  <2>3. Rank(R, w) + 1 = Cardinality(R)
    BY <1>1, <1>2, RankNext
  <2> QED BY <2>1, <2>2, <2>3
<1>3. CASE ~\A d \in R : d <= w
  <2>1. PICK A : A = {d \in R : d > w}
    OBVIOUS
  <2>2. After(R, w) = First(A)
    BY <1>3, <2>1 DEF After
  <2>3. A # {} /\ \A v \in A : v \in Nat
    BY <1>1, <1>3, <2>1, Zenon
  <2>4. First(A) \in A /\ \A d \in A : First(A) <= d
    BY <2>3, FirstIsLeast
  <2>5. PICK u : u = First(A)
    OBVIOUS
  <2>6. u \in R /\ Before(w, u) /\ \A d \in R : Before(w, d) => ~Before(d, u)
    BY <1>1, <2>1, <2>4, <2>5, Zenon
  <2>7. Rank(R, u) = Rank(R, w) + 1
    BY <2>6, RankNext
  <2> QED BY <2>2, <2>5, <2>6, <2>7
<1> QED BY <1>2, <1>3

\* StartInv holds at the beginning.
LEMMA StartInit == Init => StartInv
BY DEF Init, StartInv, ArgsInv, ApplInv, MaskInv, OpenInv, CpuInv, Nothing

\* A configuration the program accepts, and its CPUs.
LEMMA Accepted ==
  ASSUME ArgsInv, stage # "parse_args"
  PROVE  /\ args.if_count \in 1 .. MAX_PKTIOS /\ args.if_count \in Nat \ {0} /\ args.cpu_count \in Nat
         /\ args.cpus \in Nat \ {0}
         /\ capa.max_input_queues \in Nat \ {0} /\ capa.max_output_queues \in Nat \ {0}
         /\ args.cpu_mask # None => args.cpu_mask \subseteq WorkerCpus
BY StartupAssumption DEF ArgsInv, Acceptable

\* The mask of CPUs that was chosen is not empty.
LEMMA Masked ==
  ASSUME ArgsInv, MaskInv, stage \in {"create_pktio", "queues", "start", "join"}
  PROVE  /\ IsFiniteSet(cpumask) /\ cpumask # {} /\ Cardinality(cpumask) \in Nat \ {0}
         /\ \A d \in cpumask : d \in Nat
<1>1. /\ cpumask \subseteq WorkerCpus /\ cpumask # {}
      /\ IsFiniteSet(WorkerCpus) /\ \A d \in WorkerCpus : d \in Nat
  BY Accepted, CpusAreNumbers DEF MaskInv
<1>2. IsFiniteSet(cpumask)
  BY <1>1, FS_Subset
<1> QED BY <1>1, <1>2, FS_EmptySet, FS_CardinalityType

\* parse_args keeps StartInv.
LEMMA ParseStep ==
  ASSUME StartInv, parse_args
  PROVE  StartInv'
<1>1. appl' = [if_count |-> args.if_count, num_workers |-> 0, cpu_count |-> args.cpu_count]
  <2>1. appl = Nothing
    BY DEF StartInv, parse_args, ApplInv
  <2>2. PICK a : a = args
    OBVIOUS
  <2>3. appl' = [Nothing EXCEPT !.if_count = a.if_count, !.cpu_count = a.cpu_count]
    BY <2>1, <2>2 DEF parse_args
  <2> QED BY <2>2, <2>3 DEF Nothing
<1>2. ArgsInv' /\ ApplInv' /\ MaskInv'
  BY <1>1 DEF StartInv, parse_args, ArgsInv, ApplInv, MaskInv, Acceptable, WorkerCpus
<1>3. OpenInv' /\ CpuInv'
  BY DEF StartInv, parse_args, OpenInv, CpuInv
<1> QED BY <1>2, <1>3 DEF StartInv

\* So does the choice of CPUs and of the number of workers, ...
LEMMA ChooseStep ==
  ASSUME StartInv, ChooseCpus
  PROVE  StartInv'
<1> USE DEF ChooseCpus
<1>1. /\ args.cpus \in Nat \ {0} /\ args.if_count \in Nat \ {0} /\ args.cpu_count \in Nat
      /\ args.cpu_mask # None => args.cpu_mask \subseteq WorkerCpus
  BY Accepted DEF StartInv
<1>2. /\ cpumask' \subseteq WorkerCpus /\ cpumask' # {}
      /\ args.cpu_mask = None => control' \intersect cpumask' = {}
  <2>1. CASE args.cpu_mask # None
    <3>1. /\ args.cpu_mask # {} /\ args.cpu_mask \subseteq WorkerCpus
          /\ cpumask' = odp_cpumask_default_worker(Cardinality(args.cpu_mask) - 1)
      BY <1>1, <2>1 DEF Pin
    <3>2. PICK n \in Nat : n = Cardinality(args.cpu_mask) - 1
      <4>1. IsFiniteSet(args.cpu_mask)
        BY <1>1, <3>1, CpusAreNumbers, FS_Subset
      <4> QED BY <3>1, <4>1, FS_EmptySet, FS_CardinalityType
    <3>3. cpumask' = odp_cpumask_default_worker(n)
      BY <3>1, <3>2
    <3> QED BY <1>1, <2>1, <3>3, SomeCpus
  <2>2. CASE args.cpu_mask = None
    <3>1. /\ control' = IF args.cpus > 2 THEN {0} ELSE {}
          /\ cpumask' = odp_cpumask_default_worker(Wanted)
      BY <2>2 DEF PinNot, odp_cpumask_default_control
    <3>2. PICK n \in Nat : n = Wanted
      BY <1>1, StartupAssumption DEF Wanted, StartInv, ApplInv
    <3>3. cpumask' \subseteq WorkerCpus /\ cpumask' # {}
      BY <1>1, <3>1, <3>2, SomeCpus
    <3>4. args.cpus > 2 => 0 \notin WorkerCpus
      BY <1>1, CpusAreNumbers
    <3> QED BY <3>1, <3>3, <3>4
  <2> QED BY <2>1, <2>2
<1>3. MaskInv'
  <2>1. WorkerCpus' = WorkerCpus /\ args' = args
    BY DEF WorkerCpus
  <2> QED BY <1>2, <2>1 DEF MaskInv
<1>4. ArgsInv'
  BY DEF StartInv, ArgsInv, Acceptable, WorkerCpus
<1>5. ApplInv'
  BY DEF StartInv, ApplInv, Chosen
<1>6. OpenInv' /\ CpuInv'
  BY <1>1 DEF StartInv, OpenInv, CpuInv
<1> QED BY <1>3, <1>4, <1>5, <1>6 DEF StartInv

\* ... the opening of an interface, ...
LEMMA OpenStep ==
  ASSUME StartInv, create_pktio
  PROVE  StartInv'
<1> USE DEF create_pktio
<1>1. args.if_count \in Nat
  BY Accepted DEF StartInv
<1>2. ArgsInv' /\ ApplInv' /\ MaskInv' /\ CpuInv'
  BY DEF StartInv, ArgsInv, ApplInv, MaskInv, CpuInv, Chosen, Nothing, Acceptable, WorkerCpus
<1>3. OpenInv'
  BY <1>1 DEF StartInv, OpenInv
<1> QED BY <1>2, <1>3 DEF StartInv

\* ... the mark behind the last one, ...
LEMMA EndStep ==
  ASSUME StartInv, MarkEnd
  PROVE  StartInv'
<1> USE DEF MarkEnd
<1>1. args.if_count \in 1 .. MAX_PKTIOS /\ MAX_PKTIOS \in Nat
  BY Accepted, StartupAssumption DEF StartInv
<1>2. ArgsInv' /\ MaskInv' /\ OpenInv' /\ CpuInv'
  BY DEF StartInv, ArgsInv, MaskInv, OpenInv, CpuInv, Acceptable, WorkerCpus
<1>3. ApplInv'
  <2>1. appl = Chosen /\ Chosen' = Chosen
    BY DEF StartInv, ApplInv, Chosen
  <2>2. stage' = "queues" /\ args' = args /\ (appl' = appl \/ (appl' = Nothing /\ ~(opened < MAX_PKTIOS)))
    BY DEF Nothing
  <2>3. ~(opened < MAX_PKTIOS) => args.if_count = MAX_PKTIOS
    BY <1>1
  <2> HIDE DEF MarkEnd
  <2> QED BY <2>1, <2>2, <2>3 DEF ApplInv, Nothing
<1> QED BY <1>2, <1>3 DEF StartInv

\* ... macs_set_queue_afinity, which deals interfaces and queues to workers, ...
LEMMA QueuesStep ==
  ASSUME StartInv, macs_set_queue_afinity
  PROVE  StartInv'
<1> USE DEF macs_set_queue_afinity
<1>1. args.if_count \in Nat
  BY Accepted DEF StartInv
<1>2. /\ IsFiniteSet(cpumask) /\ cpumask # {} /\ Cardinality(cpumask) \in Nat \ {0}
      /\ \A d \in cpumask : d \in Nat
  BY Masked DEF StartInv
<1>3. ArgsInv' /\ MaskInv' /\ ApplInv'
  BY DEF StartInv, ArgsInv, MaskInv, ApplInv, Acceptable, WorkerCpus, Chosen, Nothing
<1>4. OpenInv'
  BY <1>1 DEF StartInv, OpenInv
<1>5. CpuInv'
  <2>1. First(cpumask) \in cpumask /\ \A d \in cpumask : First(cpumask) <= d
    BY <1>2, FirstIsLeast
  <2>2. Rank(cpumask, First(cpumask)) = 0
    <3>1. {v \in cpumask : Before(v, First(cpumask))} = {}
      BY <1>2, <2>1, Ordered, Zenon
    <3> QED BY <3>1, FS_EmptySet DEF Rank
  <2>3. cpu_of = <<>>
    BY DEF StartInv, CpuInv
  <2>4. cpu' = First(cpumask) /\ cpu_of' = <<>> /\ cpumask' = cpumask /\ stage' = "start"
    BY <2>3
  <2>5. Rank(cpumask, cpu)' = 0
    BY <2>2, <2>4 DEF Rank, Before
  <2> QED BY <1>2, <2>1, <2>4, <2>5 DEF CpuInv
<1> QED BY <1>3, <1>4, <1>5 DEF StartInv

\* ... the start of an interface, ...
LEMMA PortStep ==
  ASSUME StartInv, odp_pktio_start
  PROVE  StartInv'
<1> USE DEF odp_pktio_start
<1>1. args.if_count \in Nat
  BY Accepted DEF StartInv
<1>2. ArgsInv' /\ MaskInv' /\ ApplInv'
  BY DEF StartInv, ArgsInv, MaskInv, ApplInv, Acceptable, WorkerCpus, Chosen, Nothing
<1>3. OpenInv'
  BY <1>1 DEF StartInv, OpenInv
<1>4. CpuInv'
  BY DEF StartInv, CpuInv, Rank, Before
<1> QED BY <1>2, <1>3, <1>4 DEF StartInv

\* The next worker on the next CPU.
LEMMA CreateStep ==
  ASSUME StartInv, CreateWorker
  PROVE  StartInv'
<1> USE DEF CreateWorker
<1>1. PICK R : R = cpumask
  OBVIOUS
<1>2. IsFiniteSet(R) /\ R # {} /\ Cardinality(R) \in Nat \ {0} /\ \A d \in R : d \in Nat
  BY <1>1, Masked DEF StartInv
<1>3. PICK w \in R : w = cpu
  BY <1>1 DEF StartInv, CpuInv
<1>4. PICK old \in Seq(R) : old = cpu_of
  BY <1>1 DEF StartInv, CpuInv
<1>5. PICK new \in Seq(R) : new = Append(old, w)
  <2>1. Append(old, w) \in Seq(R)
    OBVIOUS
  <2> QED BY <2>1
<1>6. /\ Len(new) = Len(old) + 1 /\ DOMAIN new = 1 .. Len(new) /\ DOMAIN old = 1 .. Len(old)
      /\ Len(old) \in Nat /\ new[Len(new)] = w
      /\ \A v \in DOMAIN old : new[v] = old[v]
  BY <1>5
<1>7. /\ cpu_of' = new /\ cpumask' = R /\ appl' = appl /\ args' = args
      /\ cpu' = IF appl.cpu_count > 0 THEN After(R, w) ELSE w
      /\ stage = "start" /\ stage' = IF Len(new) = Cardinality(R) THEN "join" ELSE "start"
      /\ Len(old) < Cardinality(R)
  BY <1>1, <1>3, <1>4, <1>5 DEF maco_get_next_cpu, StartInv, CpuInv
<1>8. /\ After(R, w) \in R
      /\ Rank(R, w) + 1 # Cardinality(R) =>
           Before(w, After(R, w)) /\ Rank(R, After(R, w)) = Rank(R, w) + 1
  BY <1>2, AfterIsNext
<1>9. ArgsInv' /\ MaskInv' /\ ApplInv' /\ OpenInv'
  BY <1>7 DEF StartInv, ArgsInv, MaskInv, ApplInv, OpenInv, Acceptable, WorkerCpus, Chosen, Nothing
<1>10. /\ stage' = "start" => Len(new) < Cardinality(R) /\ cpu' \in R
       /\ stage' = "join" => Len(new) = Cardinality(R)
  BY <1>2, <1>6, <1>7, <1>8
<1>11. ASSUME appl.cpu_count > 0
       PROVE  /\ \A v, x \in DOMAIN new : v < x => Before(new[v], new[x])
              /\ stage' = "start" =>
                   /\ \A v \in DOMAIN new : Before(new[v], cpu')
                   /\ Rank(R, cpu') = Len(new)
  <2>1. /\ \A v, x \in DOMAIN old : v < x => Before(old[v], old[x])
        /\ \A v \in DOMAIN old : Before(old[v], w)
        /\ Rank(R, w) = Len(old)
    BY <1>1, <1>3, <1>4, <1>7, <1>11 DEF StartInv, CpuInv
  <2>2. \A v, x \in DOMAIN new : v < x => Before(new[v], new[x])
    <3> SUFFICES ASSUME NEW v \in DOMAIN new, NEW x \in DOMAIN new, v < x
                 PROVE  Before(new[v], new[x])
      OBVIOUS
    <3>1. v \in DOMAIN old
      BY <1>6
    <3>2. CASE x = Len(new)
      BY <1>6, <2>1, <3>1, <3>2
    <3>3. CASE x # Len(new)
      <4>1. x \in DOMAIN old
        BY <1>6, <3>3
      <4> QED BY <1>6, <2>1, <3>1, <4>1
    <3> QED BY <3>2, <3>3
  <2>3. ASSUME stage' = "start"
        PROVE  (\A v \in DOMAIN new : Before(new[v], cpu')) /\ Rank(R, cpu') = Len(new)
    <3>1. cpu' = After(R, w) /\ Rank(R, w) + 1 # Cardinality(R)
      BY <1>6, <1>7, <1>11, <2>1, <2>3
    <3>2. PICK u \in R : u = cpu'
      BY <1>8, <3>1
    <3>3. Before(w, u) /\ Rank(R, u) = Len(new)
      BY <1>6, <1>8, <2>1, <3>1, <3>2
    <3>4. ASSUME NEW v \in DOMAIN new PROVE Before(new[v], u)
      <4>1. CASE v = Len(new)
        BY <1>6, <3>3, <4>1
      <4>2. CASE v # Len(new)
        <5>1. v \in DOMAIN old /\ new[v] = old[v] /\ old[v] \in R
          BY <1>6, <4>2
        <5>2. Before(old[v], w)
          BY <2>1, <5>1
        <5>3. \A x, y, z \in R : Before(x, y) /\ Before(y, z) => Before(x, z)
          BY <1>2, Ordered, Zenon
        <5> QED BY <3>3, <5>1, <5>2, <5>3
      <4> QED BY <4>1, <4>2
    <3> QED BY <3>2, <3>3, <3>4
  <2> QED BY <2>2, <2>3
<1>12. CpuInv'
  <2>1. stage' \in {"start", "join"} /\ cpu_of' \in Seq(cpumask')
    BY <1>7
  <2> HIDE DEF CreateWorker
  <2> QED BY <1>7, <1>10, <1>11, <2>1 DEF CpuInv, Rank, Before
<1> QED BY <1>9, <1>12 DEF StartInv

\* ... and what leaves the start-up as it is.
LEMMA StartStutters ==
  ASSUME StartInv, UNCHANGED startup
  PROVE  StartInv'
BY DEF StartInv, startup, ArgsInv, MaskInv, ApplInv, OpenInv, CpuInv, Acceptable, WorkerCpus,
       Chosen, Nothing, Rank, Before

\* Every step keeps StartInv.
LEMMA StartStep ==
  ASSUME StartInv, [Next]_vars
  PROVE  StartInv'
<1>1. CASE maco_initialize
  <2>1. parse_args \/ ChooseCpus \/ create_pktio \/ MarkEnd \/ macs_set_queue_afinity
          \/ odp_pktio_start \/ CreateWorker \/ UNCHANGED startup
    BY <1>1 DEF maco_initialize, usage, Fails
  <2> QED BY <2>1, ParseStep, ChooseStep, OpenStep, EndStep, QueuesStep, PortStep, CreateStep,
             StartStutters
<1>2. CASE UNCHANGED startup
  BY <1>2, StartStutters
<1>3. maco_initialize \/ UNCHANGED startup
  BY DEF Next, vars, startup, Enter, Receive, Exit, Broadcast, BroadcastFails, Flush, SendFails,
         Unicast, Forwarded, Join
<1> QED BY <1>1, <1>2, <1>3

\* StartInv holds in every state.
LEMMA Starts == Spec => []StartInv
<1>1. WorkerInit => StartInv
  BY StartInit DEF WorkerInit
<1>2. StartInv /\ [Next]_vars => StartInv'
  BY StartStep
<1> QED BY <1>1, <1>2, PTL DEF Spec

\* When the last worker has been created, each has its queues, no queue is shared
\* that may not be, and none is left out (odp_lib.c:766-1121), for every number of
\* interfaces below the limit, of CPUs, of workers and of queues.
THEOREM QueuesServedAtStart == Spec => []QueuesAreServed
<1>1. ASSUME StartInv PROVE QueuesAreServed
  <2> SUFFICES ASSUME stage = "join", args.if_count < MAX_PKTIOS
               PROVE  /\ bound = [workers |-> Workers(config), ports |-> Interfaces(config)]
                      /\ opened = args.if_count /\ started = args.if_count
                      /\ DOMAIN cpu_of = 1 .. Cardinality(cpumask)
                      /\ QueuesServed(config)
    BY DEF QueuesAreServed
  <2>1. /\ args.if_count \in Nat \ {0}
        /\ capa.max_input_queues \in Nat \ {0} /\ capa.max_output_queues \in Nat \ {0}
        /\ Cardinality(cpumask) \in Nat \ {0}
    BY <1>1, Accepted, Masked DEF StartInv
  <2>2. appl = Chosen
    BY <1>1, <2>1, StartupAssumption DEF StartInv, ApplInv
  <2>3. opened = args.if_count /\ started = args.if_count
    BY <1>1 DEF StartInv, OpenInv
  <2>4. bound = [workers |-> 0 .. appl.num_workers - 1,
                 ports |-> IF appl.num_workers = 0 THEN {} ELSE 0 .. appl.if_count - 1]
    BY <1>1 DEF StartInv, OpenInv
  <2>5. bound = [workers |-> Workers(config), ports |-> Interfaces(config)]
    BY <2>1, <2>2, <2>4 DEF Chosen, Workers, Interfaces, config
  <2>6. DOMAIN cpu_of = 1 .. Cardinality(cpumask)
    BY <1>1 DEF StartInv, CpuInv
  <2>7. Configured(config)
    BY <2>1 DEF Configured, config
  <2> QED BY <2>3, <2>5, <2>6, <2>7, Served
<1> QED BY <1>1, Starts, PTL

\* No two workers are pinned to one CPU when -c asks for CPUs of their own, and none
\* to that of the main thread unless -C names it (odp_lib.c:933-995, 1145-1187),
\* however many CPUs there are.
THEOREM OwnCpus == Spec => []WorkersHaveOwnCpu
<1>1. ASSUME StartInv PROVE WorkersHaveOwnCpu
  <2>1. CASE stage \notin {"start", "join"}
    <3>1. cpu_of = <<>>
      BY <1>1, <2>1 DEF StartInv, CpuInv
    <3> QED BY <3>1 DEF WorkersHaveOwnCpu
  <2>2. CASE stage \in {"start", "join"}
    <3>1. /\ cpu_of \in Seq(cpumask)
          /\ appl.cpu_count > 0 =>
               \A v, w \in DOMAIN cpu_of : v < w => Before(cpu_of[v], cpu_of[w])
      BY <1>1, <2>2 DEF StartInv, CpuInv
    <3>2. args.cpu_mask = None => control \intersect cpumask = {}
      BY <1>1, <2>2 DEF StartInv, MaskInv
    <3>3. \A d \in cpumask : d \in Nat
      BY <1>1, <2>2, Masked DEF StartInv
    <3>4. appl.cpu_count > 0 \/ args.cpu_count = 0 \/ args.if_count = MAX_PKTIOS
      <4>1. args.cpu_count \in Nat
        BY <1>1, <2>2, Accepted DEF StartInv
      <4> QED BY <1>1, <2>2, <4>1 DEF StartInv, ApplInv, Chosen
    <3>5. ASSUME NEW v \in DOMAIN cpu_of, NEW w \in DOMAIN cpu_of, v # w,
                 cpu_of[v] = cpu_of[w], appl.cpu_count > 0
          PROVE  FALSE
      <4>1. v \in Nat /\ w \in Nat /\ cpu_of[v] \in cpumask
        BY <3>1
      <4>2. Before(cpu_of[v], cpu_of[v])
        BY <3>1, <3>5, <4>1
      <4> QED BY <3>3, <4>1, <4>2, Ordered, Zenon
    <3>6. \A w \in DOMAIN cpu_of : cpu_of[w] \in cpumask
      BY <3>1
    <3> QED BY <3>2, <3>4, <3>5, <3>6 DEF WorkersHaveOwnCpu
  <2> QED BY <2>1, <2>2
<1> QED BY <1>1, Starts, PTL

-----------------------------------------------------------------------------
(* The loop.                                                               *)

IsBuffers(b, P) == \E S : b \in [P -> Seq(S)]

AtInv ==
  /\ at \in {"none", "receive", "forward", "flush", "exit"}
  /\ at # "none" => stage \in {"start", "join"} /\ IsBuffers(buf, Entries)
                    /\ Ports \subseteq Entries
  /\ received \in 0 .. MaxPackets /\ pkt_tbl \in Nat /\ allocated \in Int
  /\ at = "none" => allocated = 0
  /\ pkt_tbl # 0 <=> at = "forward"

\* What waits in a buffer came from its own port, or is of the burst being handled.
BufInv ==
  at # "none" =>
    \A p \in Ports : \A i \in DOMAIN buf[p] :
      buf[p][i] = p \/ (at \in {"forward", "flush"} /\ buf[p][i] = port_in)

\* In every buffer there is room for the rest of the burst, because between two
\* rounds they are empty, as is always that of the port the burst came from.
RoomInv ==
  at # "none" /\ "hairpin" \notin mishaps =>
    \A p \in Ports : /\ p = port_in \/ at \in {"receive", "exit"} => buf[p] = <<>>
                     /\ Len(buf[p]) + pkt_tbl <= MAX_PKT_BURST

\* The other buffers are empty until a controller names a port of theirs.
SpareInv ==
  at # "none" /\ "unserved" \notin mishaps =>
    \A p \in Entries \ Ports : buf[p] = <<>>
SafeInv ==
  at # "none" /\ process = "undefined" =>
    mishaps \intersect {"hairpin", "unserved", "outside", "send"} # {}

\* The packets in use are in pkt_tbl or in a buffer.
BalanceInv ==
  at # "none" /\ process = "running" /\ mishaps \intersect {"copy", "alone"} = {} =>
    allocated = pkt_tbl + Total(buf, Entries)

LoopInv == AtInv /\ BufInv /\ RoomInv /\ SpareInv /\ SafeInv /\ BalanceInv

\* LoopInv holds when the worker starts.
LEMMA LoopInit == WorkerInit => LoopInv
BY WorkerAssumption
   DEF WorkerInit, Init, LoopInv, AtInv, BufInv, RoomInv, SpareInv, SafeInv, BalanceInv

\* What a buffer is.
LEMMA Lengths ==
  ASSUME NEW P, NEW b, IsBuffers(b, P)
  PROVE  \A p \in P : Len(b[p]) \in Nat /\ DOMAIN b[p] = 1 .. Len(b[p]) /\ (Len(b[p]) = 0 => b[p] = <<>>)
BY DEF IsBuffers

\* There are finitely many buffers.
LEMMA EntriesFinite == IsFiniteSet(Entries)
<1>1. PICK n \in Nat : n = MAX_PKTIOS
  BY StartupAssumption
<1>2. IsFiniteSet(0 .. n - 1)
  BY FS_Interval
<1> QED BY <1>1, <1>2 DEF Entries

\* When workers are started, every interface has one.
LEMMA PortsHaveBuffers ==
  ASSUME StartInv, stage \in {"start", "join"}
  PROVE  Ports \subseteq Entries
<1>1. appl.if_count \in Nat /\ appl.if_count <= MAX_PKTIOS
  BY Accepted, StartupAssumption DEF StartInv, ApplInv, Chosen, Nothing
<1>2. MAX_PKTIOS \in Nat
  BY StartupAssumption
<1> QED BY <1>1, <1>2 DEF Ports, Entries

\* A worker that enters its loop has empty buffers.
LEMMA EnterStep ==
  ASSUME StartInv, LoopInv, Enter, process = "running"
  PROVE  LoopInv'
<1>1. /\ at = "none" /\ at' = "receive" /\ buf' = [p \in Entries |-> <<>>] /\ Ports' = Ports
      /\ stage' = stage /\ UNCHANGED <<received, pkt_tbl, allocated, mishaps, process>>
  BY DEF Enter, startup, Ports, Entries
<1>2. stage \in {"start", "join"}
  BY DEF Enter, StartInv, CpuInv
<1>3. IsBuffers(buf', Entries)
  <2>1. buf' \in [Entries -> Seq({})]
    BY <1>1
  <2> QED BY <2>1 DEF IsBuffers
<1>4. AtInv'
  <2>1. IsBuffers(buf, Entries)'
    BY <1>1, <1>3 DEF IsBuffers, Entries
  <2>2. (Ports \subseteq Entries)'
    BY <1>1, <1>2, PortsHaveBuffers DEF Entries
  <2> QED BY <1>1, <1>2, <2>1, <2>2 DEF LoopInv, AtInv
<1>5. BufInv'
  BY <1>1, <1>2, PortsHaveBuffers DEF BufInv
<1>6. RoomInv' /\ SpareInv'
  BY <1>1, <1>2, PortsHaveBuffers, WorkerAssumption DEF RoomInv, SpareInv, LoopInv, AtInv
<1>7. SafeInv'
  BY <1>1 DEF SafeInv
<1>8. BalanceInv'
  <2>1. PICK b : b = buf' /\ b = [p \in Entries |-> <<>>]
    BY <1>1
  <2>2. IsFiniteSet(Entries) /\ \A p \in Ports : Len(b[p]) \in Nat
    BY <2>1, EntriesFinite
  <2>3. Total(b, Entries) = Cardinality(InBuffers(b, Entries))
    BY <2>2, TotalCounts
  <2>4. InBuffers(b, Entries) = {}
    BY <2>1 DEF InBuffers
  <2>5. Total(b, Entries) = 0
    BY <2>3, <2>4, FS_EmptySet
  <2>6. allocated' = 0 /\ pkt_tbl' = 0
    BY <1>1 DEF LoopInv, AtInv
  <2>7. Total(buf, Entries)' = Total(b, Entries)
    BY <1>1, <2>1
  <2> QED BY <2>5, <2>6, <2>7 DEF BalanceInv
<1> QED BY <1>4, <1>5, <1>6, <1>7, <1>8 DEF LoopInv

\* A burst is taken from the pool into the worker's hands.
LEMMA ReceiveStep ==
  ASSUME StartInv, LoopInv, Receive, process = "running"
  PROVE  LoopInv'
<1>1. /\ at = "receive" /\ stage' = stage /\ Ports' = Ports
      /\ UNCHANGED <<buf, mishaps, process>>
  BY DEF Receive, startup, Ports
<1>2. PICK n \in 0 .. Available :
        /\ pkt_tbl' = n /\ received' = received + n /\ allocated' = allocated + n
        /\ at' = IF n = 0 THEN "receive" ELSE "forward"
  BY DEF Receive
<1>3. /\ n \in Nat /\ n <= MAX_PKT_BURST /\ received + n \in 0 .. MaxPackets
      /\ MAX_PKT_BURST \in Nat
  BY <1>2, WorkerAssumption DEF Available, Least, LoopInv, AtInv
<1>4. AtInv'
  <2>1. IsBuffers(buf, Entries)' <=> IsBuffers(buf, Entries)
    BY <1>1 DEF IsBuffers, Entries
  <2> QED BY <1>1, <1>2, <1>3, <2>1 DEF LoopInv, AtInv, Entries
<1>5. \A p \in Ports : \A i \in DOMAIN buf[p] : buf[p][i] = p
  BY <1>1 DEF LoopInv, BufInv
<1>6. BufInv'
  BY <1>1, <1>5 DEF BufInv
<1>10. SpareInv'
  BY <1>1, <1>2 DEF LoopInv, SpareInv, Entries
<1>7. RoomInv'
  <2>1. "hairpin" \notin mishaps => \A p \in Ports : buf[p] = <<>>
    BY <1>1 DEF LoopInv, RoomInv
  <2>2. Len(<<>>) = 0
    OBVIOUS
  <2> QED BY <1>1, <1>2, <1>3, <2>1, <2>2 DEF RoomInv
<1>8. SafeInv'
  BY <1>1 DEF SafeInv
<1>9. BalanceInv'
  <2>1. mishaps \intersect {"copy", "alone"} = {} => allocated = pkt_tbl + Total(buf, Entries)
    BY <1>1 DEF LoopInv, BalanceInv
  <2>2. pkt_tbl = 0 /\ allocated \in Int
    BY <1>1 DEF LoopInv, AtInv
  <2>3. Total(buf, Entries) \in Nat
    <3>1. \A p \in Ports : Len(buf[p]) \in Nat
      BY <1>1, Lengths DEF LoopInv, AtInv
    <3> QED BY <3>1, EntriesFinite, TotalCounts, FS_CardinalityType
  <2>4. Total(buf, Entries)' = Total(buf, Entries)
    BY <1>1
  <2>5. pkt_tbl' = n /\ allocated' = allocated + n /\ mishaps' = mishaps
    BY <1>1, <1>2
  <2>6. ASSUME allocated = pkt_tbl + Total(buf, Entries)
        PROVE  allocated + n = n + Total(buf, Entries)
    BY <1>3, <2>2, <2>3, <2>6
  <2> QED BY <2>1, <2>4, <2>5, <2>6 DEF BalanceInv
<1> QED BY <1>4, <1>6, <1>7, <1>8, <1>9, <1>10 DEF LoopInv

\* A worker that leaves its loop leaves the buffers as they are.
LEMMA ExitStep ==
  ASSUME LoopInv, Exit
  PROVE  LoopInv'
<1>1. /\ at = "receive" /\ at' = "exit" /\ stage' = stage /\ Ports' = Ports
      /\ UNCHANGED <<port_in, pkt_tbl, buf, received, allocated, mishaps, process>>
  BY DEF Exit, startup, Ports
<1>2. AtInv'
  BY <1>1 DEF LoopInv, AtInv, IsBuffers, Entries
<1>3. BufInv' /\ SpareInv' /\ SafeInv' /\ BalanceInv'
  BY <1>1 DEF LoopInv, BufInv, SpareInv, SafeInv, BalanceInv, Entries
<1>4. RoomInv'
  BY <1>1 DEF LoopInv, RoomInv
<1> QED BY <1>2, <1>3, <1>4 DEF LoopInv

\* A packet of the burst put into the buffers of the ports Q, in whichever way.
LEMMA BufferStep ==
  ASSUME StartInv, LoopInv, process = "running", at = "forward", Forwarded,
         NEW Q \in SUBSET Entries, Buffer(Q), mishaps \subseteq mishaps',
         port_in \in Q \intersect Ports => "hairpin" \in mishaps',
         ~(Q \subseteq Ports) => "unserved" \in mishaps'
  PROVE  /\ stage' \in {"start", "join"} /\ IsBuffers(buf, Entries)'
         /\ (Ports \subseteq Entries)' /\ BufInv' /\ RoomInv' /\ SpareInv' /\ SafeInv'
         /\ Total(buf, Entries)' = Total(buf, Entries) + Cardinality(Q)
         /\ Total(buf, Entries) \in Nat /\ Cardinality(Q) \in Nat
         /\ pkt_tbl' = pkt_tbl - 1 /\ pkt_tbl' \in Nat /\ received' = received
         /\ at' \in {"forward", "flush"} /\ (pkt_tbl' # 0 <=> at' = "forward")
<1>1. /\ pkt_tbl' = pkt_tbl - 1 /\ at' = IF pkt_tbl = 1 THEN "flush" ELSE "forward"
      /\ Ports' = Ports /\ Entries' = Entries /\ stage' = stage /\ UNCHANGED <<port_in, received>>
  BY DEF Forwarded, startup, Ports, Entries
<1>2. PICK b : b = buf
  OBVIOUS
<1>3. PICK c : c = buf'
  OBVIOUS
<1>4. PICK x : x = port_in
  OBVIOUS
<1>5. c = [p \in Entries |-> IF p \in Q THEN Append(b[p], x) ELSE b[p]]
  BY <1>2, <1>3, <1>4 DEF Buffer
<1>0. process' = IF \E p \in Q : Len(b[p]) >= MAX_PKT_BURST THEN "undefined" ELSE "running"
  BY <1>2 DEF Buffer, Slots
<1>16. Ports \subseteq Entries
  BY DEF LoopInv, AtInv
<1>6. IsBuffers(b, Entries)
  BY <1>2 DEF LoopInv, AtInv
<1>7. /\ IsBuffers(c, Entries)
      /\ \A p \in Entries : Len(b[p]) \in Nat /\ Len(c[p]) = IF p \in Q THEN Len(b[p]) + 1 ELSE Len(b[p])
      /\ \A p \in Entries : \A i \in DOMAIN c[p] :
           c[p][i] = x \/ (i \in DOMAIN b[p] /\ c[p][i] = b[p][i])
      /\ \A p \in Entries : p \notin Q => c[p] = b[p]
  <2>1. PICK S : b \in [Entries -> Seq(S)]
    BY <1>6 DEF IsBuffers
  <2>2. PICK T : T = S \union {x}
    OBVIOUS
  <2>3. ASSUME NEW p \in Entries
        PROVE  /\ c[p] \in Seq(T)
               /\ Len(b[p]) \in Nat /\ Len(c[p]) = IF p \in Q THEN Len(b[p]) + 1 ELSE Len(b[p])
               /\ \A i \in DOMAIN c[p] : c[p][i] = x \/ (i \in DOMAIN b[p] /\ c[p][i] = b[p][i])
    <3>1. PICK s \in Seq(S) : s = b[p]
      BY <2>1
    <3>2. s \in Seq(T) /\ x \in T /\ Len(s) \in Nat
      BY <2>2
    <3>3. PICK a : a = Append(s, x)
      OBVIOUS
    <3>4. /\ a \in Seq(T) /\ Len(a) = Len(s) + 1 /\ DOMAIN s = 1 .. Len(s)
          /\ \A i \in DOMAIN a : a[i] = x \/ (i \in DOMAIN s /\ a[i] = s[i])
      BY <3>2, <3>3
    <3> QED BY <1>5, <3>1, <3>2, <3>3, <3>4
  <2>4. c \in [Entries -> Seq(T)]
    BY <1>5, <2>3
  <2>5. \A p \in Entries : p \notin Q => c[p] = b[p]
    BY <1>5
  <2> QED BY <2>3, <2>4, <2>5 DEF IsBuffers
<1>8. pkt_tbl \in Nat \ {0} /\ MAX_PKT_BURST \in Nat
  BY WorkerAssumption DEF LoopInv, AtInv
<1>9. stage' \in {"start", "join"} /\ IsBuffers(buf, Entries)'
  <2>1. IsBuffers(buf, Entries)'
    BY <1>1, <1>3, <1>7 DEF IsBuffers
  <2> QED BY <1>1, <2>1 DEF LoopInv, AtInv
<1>10. BufInv'
  <2>1. \A p \in Ports : \A i \in DOMAIN b[p] : b[p][i] = p \/ b[p][i] = x
    BY <1>2, <1>4 DEF LoopInv, BufInv
  <2>2. \A p \in Ports : \A i \in DOMAIN c[p] : c[p][i] = p \/ c[p][i] = x
    BY <1>7, <1>16, <2>1
  <2>3. at' \in {"forward", "flush"}
    BY <1>1
  <2> QED BY <1>1, <1>3, <1>4, <2>2, <2>3 DEF BufInv
<1>11. ASSUME "hairpin" \notin mishaps'
       PROVE  /\ x \in Q => x \notin Ports
              /\ \A p \in Ports : /\ p = x => b[p] = <<>>
                                  /\ Len(b[p]) + pkt_tbl <= MAX_PKT_BURST
  BY <1>2, <1>4, <1>11 DEF LoopInv, RoomInv
<1>12. RoomInv'
  <2>1. SUFFICES ASSUME "hairpin" \notin mishaps', NEW p \in Ports
                 PROVE  /\ p = x => c[p] = <<>>
                        /\ Len(c[p]) + (pkt_tbl - 1) <= MAX_PKT_BURST
    BY <1>1, <1>3, <1>4 DEF RoomInv
  <2>2. p = x => c[p] = <<>>
    BY <1>7, <1>11, <1>16, <2>1
  <2>3. Len(c[p]) + (pkt_tbl - 1) <= MAX_PKT_BURST
    BY <1>7, <1>8, <1>11, <1>16, <2>1
  <2> QED BY <2>2, <2>3
<1>13. SafeInv'
  <2>1. ASSUME process' = "undefined", "hairpin" \notin mishaps', "unserved" \notin mishaps'
        PROVE  FALSE
    <3>1. PICK p \in Q : Len(b[p]) >= MAX_PKT_BURST
      BY <1>0, <2>1
    <3>2. p \in Ports
      BY <2>1, <3>1
    <3> QED BY <1>7, <1>8, <1>11, <1>16, <2>1, <3>1, <3>2
  <2> QED BY <2>1 DEF SafeInv
<1>17. SpareInv'
  <2>1. SUFFICES ASSUME "unserved" \notin mishaps', NEW p \in Entries, p \notin Ports
                 PROVE  c[p] = <<>>
    BY <1>1, <1>3 DEF SpareInv
  <2>2. b[p] = <<>> /\ p \notin Q
    BY <1>2, <2>1 DEF LoopInv, SpareInv
  <2> QED BY <1>7, <2>2
<1>18. (Ports \subseteq Entries)'
  BY <1>1, <1>16
<1>14. /\ Total(buf, Entries)' = Total(buf, Entries) + Cardinality(Q)
       /\ Total(buf, Entries) \in Nat /\ Cardinality(Q) \in Nat
  <2>1. IsFiniteSet(Entries)
    BY EntriesFinite
  <2>2. Total(c, Entries) = Total(b, Entries) + Cardinality(Q) /\ Total(b, Entries) \in Nat /\ Cardinality(Q) \in Nat
    BY <1>7, <2>1, OnePacketEach
  <2>3. Total(buf, Entries)' = Total(c, Entries) /\ Total(buf, Entries) = Total(b, Entries)
    BY <1>1, <1>2, <1>3
  <2> QED BY <2>2, <2>3
<1>15. /\ pkt_tbl - 1 \in Nat /\ at' \in {"forward", "flush"}
       /\ pkt_tbl - 1 # 0 <=> at' = "forward"
  BY <1>1, <1>8
<1> QED BY <1>1, <1>9, <1>10, <1>12, <1>13, <1>14, <1>15, <1>17, <1>18

\* With it the packets in use may change, by as many as were added.
LEMMA BufferedStep ==
  ASSUME StartInv, LoopInv, process = "running", at = "forward", Forwarded,
         NEW Q \in SUBSET Entries, Buffer(Q), mishaps \subseteq mishaps',
         port_in \in Q \intersect Ports => "hairpin" \in mishaps',
         ~(Q \subseteq Ports) => "unserved" \in mishaps',
         allocated' \in Int,
         mishaps' \intersect {"copy", "alone"} = {} => allocated' = allocated + Cardinality(Q) - 1
  PROVE  LoopInv'
<1>1. /\ stage' \in {"start", "join"} /\ IsBuffers(buf, Entries)'
      /\ (Ports \subseteq Entries)' /\ BufInv' /\ RoomInv' /\ SpareInv' /\ SafeInv'
      /\ Total(buf, Entries)' = Total(buf, Entries) + Cardinality(Q)
      /\ Total(buf, Entries) \in Nat /\ Cardinality(Q) \in Nat
      /\ pkt_tbl' = pkt_tbl - 1 /\ pkt_tbl' \in Nat /\ received' = received
      /\ at' \in {"forward", "flush"} /\ (pkt_tbl' # 0 <=> at' = "forward")
  BY BufferStep
<1>2. AtInv'
  <2>1. received \in 0 .. MaxPackets /\ at' # "none"
    BY <1>1 DEF LoopInv, AtInv
  <2>2. at' \in {"none", "receive", "forward", "flush", "exit"}
    BY <1>1
  <2> QED BY <1>1, <2>1, <2>2 DEF AtInv
<1>3. ASSUME mishaps' \intersect {"copy", "alone"} = {}
      PROVE  allocated' = pkt_tbl' + (Total(buf, Entries) + Cardinality(Q))
  <2>1. mishaps \intersect {"copy", "alone"} = {}
    BY <1>3
  <2>2. allocated = pkt_tbl + Total(buf, Entries) /\ pkt_tbl \in Nat
    BY <2>1 DEF LoopInv, BalanceInv, AtInv
  <2>3. allocated' = allocated + Cardinality(Q) - 1
    BY <1>3
  <2> QED BY <1>1, <2>2, <2>3
<1>4. BalanceInv'
  BY <1>1, <1>3 DEF BalanceInv
<1> QED BY <1>1, <1>2, <1>4 DEF LoopInv

\* A packet goes into the buffer of one port, with an interface or without.
LEMMA UnicastStep ==
  ASSUME StartInv, LoopInv, process = "running", NEW port \in Entries, Unicast(port)
  PROVE  LoopInv'
<1>1. PICK Q \in SUBSET Entries : Q = {port}
  OBVIOUS
<1>2. at = "forward" /\ Buffer(Q) /\ Forwarded /\ allocated' = allocated
  BY <1>1 DEF Unicast
<1>3. /\ mishaps \subseteq mishaps' /\ (port_in \in Q \intersect Ports => "hairpin" \in mishaps')
      /\ ~(Q \subseteq Ports) => "unserved" \in mishaps'
  BY <1>1 DEF Unicast, Mishap
<1>4. allocated \in Int
  BY DEF LoopInv, AtInv
<1>5. Cardinality(Q) = 1
  BY <1>1, FS_Singleton
<1>6. allocated' = allocated + Cardinality(Q) - 1
  BY <1>2, <1>4, <1>5
<1> QED BY <1>2, <1>3, <1>4, <1>6, BufferedStep

\* A packet for a port outside the array ends what is defined.
LEMMA OutsideStep ==
  ASSUME LoopInv, process = "running", NEW port, port \notin Entries, Unicast(port)
  PROVE  LoopInv'
<1>0. Ports \subseteq Entries /\ pkt_tbl \in Nat \ {0} /\ at = "forward"
  BY DEF Unicast, LoopInv, AtInv
<1>1. /\ Ports' = Ports /\ Entries' = Entries /\ stage' = stage
      /\ pkt_tbl' = pkt_tbl - 1 /\ at' = IF pkt_tbl = 1 THEN "flush" ELSE at
      /\ UNCHANGED <<port_in, buf, received, allocated>> /\ process' = "undefined"
  BY DEF Unicast, Forwarded, startup, Ports, Entries
<1>2. mishaps' = mishaps \union {"outside"}
  BY <1>0 DEF Unicast, Mishap
<1>4. AtInv'
  <2>1. IsBuffers(buf, Entries)'
    BY <1>0, <1>1 DEF LoopInv, AtInv, IsBuffers
  <2>2. pkt_tbl' \in Nat /\ (pkt_tbl' # 0 <=> at' = "forward") /\ at' \in {"forward", "flush"}
    BY <1>0, <1>1
  <2> QED BY <1>0, <1>1, <2>1, <2>2 DEF LoopInv, AtInv
<1>5. BufInv' /\ SpareInv'
  BY <1>0, <1>1, <1>2 DEF LoopInv, BufInv, SpareInv
<1>6. RoomInv'
  <2>1. \A p \in Ports : Len(buf[p]) \in Nat
    BY <1>0, Lengths DEF LoopInv, AtInv
  <2>2. MAX_PKT_BURST \in Nat /\ at' \in {"forward", "flush"}
    BY <1>0, <1>1, WorkerAssumption
  <2>3. "hairpin" \notin mishaps => \A p \in Ports : /\ p = port_in => buf[p] = <<>>
                                                  /\ Len(buf[p]) + pkt_tbl <= MAX_PKT_BURST
    BY <1>0 DEF LoopInv, RoomInv
  <2>4. "hairpin" \notin mishaps => \A p \in Ports : Len(buf[p]) + (pkt_tbl - 1) <= MAX_PKT_BURST
    BY <1>0, <2>1, <2>2, <2>3
  <2> QED BY <1>1, <1>2, <2>2, <2>3, <2>4 DEF RoomInv
<1>7. SafeInv' /\ BalanceInv'
  BY <1>1, <1>2 DEF SafeInv, BalanceInv
<1> QED BY <1>4, <1>5, <1>6, <1>7 DEF LoopInv

\* A copy goes into the buffer of every other port, if there is a packet left for it.
LEMMA BroadcastStep ==
  ASSUME StartInv, LoopInv, process = "running", Broadcast
  PROVE  LoopInv'
<1>1. at = "forward" /\ Forwarded
  BY DEF Broadcast
<1>2. allocated \in Int
  BY DEF LoopInv, AtInv
<1>3. PICK others : others = Ports \ {port_in}
  OBVIOUS
<1>6. Ports \subseteq Entries
  BY <1>1 DEF LoopInv, AtInv
<1>4. CASE others # {}
  <2>1. PICK failing : /\ Buffer(others \ failing)
                       /\ allocated' = allocated + Cardinality(others \ failing) - Freed
    BY <1>3, <1>4 DEF Broadcast
  <2>2. mishaps' = mishaps
    BY <1>3, <1>4 DEF Broadcast
  <2>3. PICK Q \in SUBSET Entries : Q = others \ failing /\ Q \subseteq Ports
    BY <1>3, <1>6
  <2>4. Buffer(Q) /\ allocated' = allocated + Cardinality(Q) - 1 /\ port_in \notin Q
    BY <1>3, <2>1, <2>3 DEF Freed
  <2>5. Cardinality(Q) \in Nat
    BY EntriesFinite, FS_Subset, FS_CardinalityType
  <2>6. allocated' \in Int
    BY <1>2, <2>4, <2>5
  <2> QED BY <1>1, <2>2, <2>3, <2>4, <2>6, BufferedStep
<1>5. CASE others = {}
  <2>1. /\ Buffer({}) /\ allocated' = allocated + 1 - Freed
        /\ mishaps' = mishaps \union {"alone"}
    BY <1>3, <1>5 DEF Broadcast
  <2>2. PICK Q \in SUBSET Entries : Q = {}
    OBVIOUS
  <2>5. Q \subseteq Ports
    BY <2>2
  <2>3. Buffer(Q) /\ allocated' \in Int /\ port_in \notin Q
    BY <1>2, <2>1, <2>2 DEF Freed
  <2>4. mishaps \subseteq mishaps' /\ mishaps' \intersect {"copy", "alone"} # {}
    BY <2>1
  <2> QED BY <1>1, <2>3, <2>4, <2>5, BufferedStep
<1> QED BY <1>4, <1>5

\* A broadcast whose first copy fails puts nothing into a buffer, and is remembered.
LEMMA FailsStep ==
  ASSUME StartInv, LoopInv, process = "running", BroadcastFails
  PROVE  LoopInv'
<1>1. PICK Q \in SUBSET Entries : Q = {}
  OBVIOUS
<1>4. Q \subseteq Ports
  BY <1>1
<1>2. at = "forward" /\ Forwarded /\ Buffer(Q) /\ allocated' \in Int /\ port_in \notin Q
  BY <1>1 DEF BroadcastFails, LoopInv, AtInv
<1>3. mishaps \subseteq mishaps' /\ mishaps' \intersect {"copy", "alone"} # {}
  BY DEF BroadcastFails
<1> QED BY <1>2, <1>3, <1>4, BufferedStep

\* The buffers of the other ports are sent, and empty again.
LEMMA FlushStep ==
  ASSUME StartInv, LoopInv, process = "running", Flush
  PROVE  LoopInv'
<1>1. /\ at = "flush" /\ at' = "receive" /\ Ports' = Ports /\ stage' = stage /\ Entries' = Entries
      /\ UNCHANGED <<port_in, pkt_tbl, received, mishaps, process>>
  BY DEF Flush, startup, Ports, Entries
<1>2. PICK b : b = buf
  OBVIOUS
<1>3. PICK c : c = buf'
  OBVIOUS
<1>18. Ports \subseteq Entries
  BY <1>1 DEF LoopInv, AtInv
<1>4. PICK Q \in SUBSET Entries : Q = Sending
  BY <1>18 DEF Sending
<1>5. c = [p \in Entries |-> IF p \in Q THEN <<>> ELSE b[p]]
  BY <1>2, <1>3, <1>4 DEF Flush
<1>6. allocated' = allocated - Total(b, Q)
  <2>1. allocated' = allocated - Total(buf, Sending)
    BY Zenon DEF Flush, Total, Waiting
  <2> QED BY <1>2, <1>4, <2>1
<1>7. IsBuffers(b, Entries)
  BY <1>1, <1>2 DEF LoopInv, AtInv
<1>8. \A p \in Entries : Len(b[p]) \in Nat /\ Len(c[p]) = IF p \in Q THEN 0 ELSE Len(b[p])
  <2>1. Len(<<>>) = 0
    OBVIOUS
  <2> QED BY <1>5, <1>7, <2>1, Lengths
<1>9. IsBuffers(c, Entries)
  <2>1. PICK S : b \in [Entries -> Seq(S)]
    BY <1>7 DEF IsBuffers
  <2>2. c \in [Entries -> Seq(S)]
    BY <1>5, <2>1
  <2> QED BY <2>2 DEF IsBuffers
<1>10. \A p \in Ports : c[p] = <<>> \/ (p = port_in /\ c[p] = b[p])
  BY <1>2, <1>4, <1>5, <1>18 DEF Sending
<1>11. pkt_tbl = 0 /\ allocated \in Int /\ received \in 0 .. MaxPackets
  BY <1>1 DEF LoopInv, AtInv
<1>12. Total(b, Entries) = Total(c, Entries) + Total(b, Q) /\ Total(c, Entries) \in Nat /\ Total(b, Q) \in Nat
  BY <1>8, EntriesFinite, Emptied
<1>13. AtInv'
  <2>1. IsBuffers(buf, Entries)'
    BY <1>1, <1>3, <1>9 DEF IsBuffers
  <2>2. allocated' \in Int
    BY <1>6, <1>11, <1>12
  <2>3. stage \in {"start", "join"}
    BY <1>1 DEF LoopInv, AtInv
  <2> QED BY <1>1, <1>11, <1>18, <2>1, <2>2, <2>3 DEF AtInv
<1>14. BufInv'
  <2>1. \A p \in Ports : \A i \in DOMAIN b[p] : b[p][i] = p \/ b[p][i] = port_in
    <3>1. at # "none"
      BY <1>1
    <3>2. \A p \in Ports : \A i \in DOMAIN buf[p] : buf[p][i] = p \/ buf[p][i] = port_in
      BY <3>1 DEF LoopInv, BufInv
    <3> QED BY <1>2, <3>2
  <2>2. \A p \in Ports : \A i \in DOMAIN c[p] : c[p][i] = p
    BY <1>10, <2>1
  <2> QED BY <1>1, <1>3, <2>2 DEF BufInv
<1>15. RoomInv'
  <2>1. "hairpin" \notin mishaps => \A p \in Ports : c[p] = <<>>
    BY <1>1, <1>2, <1>10 DEF LoopInv, RoomInv
  <2>2. Len(<<>>) + 0 <= MAX_PKT_BURST
    BY WorkerAssumption
  <2> QED BY <1>1, <1>3, <1>11, <2>1, <2>2 DEF RoomInv
<1>16. SafeInv'
  BY <1>1 DEF SafeInv
<1>19. SpareInv'
  <2>1. \A p \in Entries \ Ports : c[p] = b[p]
    BY <1>4, <1>5 DEF Sending
  <2> QED BY <1>1, <1>2, <1>3, <2>1 DEF LoopInv, SpareInv
<1>17. BalanceInv'
  <2>1. mishaps \intersect {"copy", "alone"} = {} => allocated = pkt_tbl + Total(b, Entries)
    BY <1>1, <1>2 DEF LoopInv, BalanceInv
  <2>2. mishaps \intersect {"copy", "alone"} = {} => allocated' = pkt_tbl + Total(c, Entries)
    <3>1. allocated = pkt_tbl + Total(b, Entries) => allocated' = pkt_tbl + Total(c, Entries)
      BY <1>6, <1>11, <1>12
    <3> QED BY <2>1, <3>1
  <2>3. Total(buf, Entries)' = Total(c, Entries)
    BY <1>1, <1>3
  <2> QED BY <1>1, <2>2, <2>3 DEF BalanceInv
<1> QED BY <1>13, <1>14, <1>15, <1>16, <1>17, <1>19 DEF LoopInv

\* What the main thread does meanwhile leaves appl alone.
LEMMA MainStep ==
  ASSUME StartInv, LoopInv, process = "running", maco_initialize, UNCHANGED loop
  PROVE  LoopInv'
<1>1. CASE at = "none"
  <2>1. at' = "none" /\ UNCHANGED <<received, pkt_tbl, allocated>>
    BY <1>1 DEF loop
  <2>2. AtInv'
    BY <1>1, <2>1 DEF LoopInv, AtInv
  <2>3. BufInv' /\ RoomInv' /\ SpareInv' /\ SafeInv' /\ BalanceInv'
    BY <2>1 DEF BufInv, RoomInv, SpareInv, SafeInv, BalanceInv
  <2> QED BY <2>2, <2>3 DEF LoopInv
<1>2. CASE at # "none"
  <2>1. stage \in {"start", "join"}
    BY <1>2 DEF LoopInv, AtInv
  <2>2. appl' = appl /\ stage' \in {"start", "join"} /\ process' # "undefined"
    BY <2>1 DEF maco_initialize, parse_args, usage, ChooseCpus, create_pktio, MarkEnd,
                macs_set_queue_afinity, odp_pktio_start, CreateWorker, Fails, startup
  <2>3. Ports' = Ports /\ Entries' = Entries /\ UNCHANGED <<at, port_in, pkt_tbl, buf, received, allocated, mishaps>>
    BY <2>2 DEF Ports, Entries, loop
  <2>4. AtInv'
    BY <2>2, <2>3 DEF LoopInv, AtInv, IsBuffers
  <2>5. BufInv' /\ RoomInv' /\ SpareInv' /\ BalanceInv'
    BY <2>3 DEF LoopInv, BufInv, RoomInv, SpareInv, BalanceInv
  <2>6. SafeInv'
    BY <2>2 DEF SafeInv
  <2> QED BY <2>4, <2>5, <2>6 DEF LoopInv
<1> QED BY <1>1, <1>2

\* What leaves the loop as it is keeps LoopInv.
LEMMA LoopStutters ==
  ASSUME LoopInv, UNCHANGED <<startup, loop>>, process' \in {process, "exited"}
  PROVE  LoopInv'
<1>1. /\ Ports' = Ports /\ Entries' = Entries /\ stage' = stage
      /\ UNCHANGED <<at, port_in, pkt_tbl, buf, received, allocated, mishaps>>
  BY DEF Ports, Entries, loop, startup
<1>2. AtInv'
  BY <1>1 DEF LoopInv, AtInv, IsBuffers
<1>3. BufInv' /\ RoomInv' /\ SpareInv' /\ BalanceInv'
  BY <1>1 DEF LoopInv, BufInv, RoomInv, SpareInv, BalanceInv
<1>4. SafeInv'
  BY <1>1 DEF LoopInv, SafeInv
<1> QED BY <1>2, <1>3, <1>4 DEF LoopInv

\* So does a call of odp_pktout_send that fails, after which nothing is defined.
LEMMA SendFailsStep ==
  ASSUME LoopInv, SendFails, process = "running"
  PROVE  LoopInv'
<1>1. /\ Ports' = Ports /\ Entries' = Entries /\ stage' = stage /\ mishaps' = mishaps \union {"send"}
      /\ UNCHANGED <<at, port_in, pkt_tbl, buf, received, allocated>>
  BY DEF Ports, Entries, SendFails, startup
<1>2. AtInv'
  BY <1>1 DEF LoopInv, AtInv, IsBuffers
<1>3. BufInv' /\ RoomInv' /\ SpareInv' /\ BalanceInv'
  BY <1>1 DEF LoopInv, BufInv, RoomInv, SpareInv, BalanceInv
<1>4. SafeInv'
  BY <1>1 DEF SafeInv
<1> QED BY <1>2, <1>3, <1>4 DEF LoopInv

\* Every step keeps LoopInv.
LEMMA LoopStep ==
  ASSUME StartInv, LoopInv, [Next]_vars
  PROVE  LoopInv'
<1>1. CASE Next
  <2>1. CASE maco_initialize /\ UNCHANGED loop
    BY <1>1, <2>1, MainStep DEF Next
  <2>2. CASE \E p \in EgressPort \ {BroadcastPort} : Unicast(p)
    BY <1>1, <2>2, UnicastStep, OutsideStep DEF Next
  <2>3. CASE Join
    BY <2>3, LoopStutters DEF Join
  <2> QED BY <1>1, <2>1, <2>2, <2>3, EnterStep, ReceiveStep, ExitStep, BroadcastStep, FailsStep,
             FlushStep, SendFailsStep DEF Next
<1>2. CASE UNCHANGED vars
  BY <1>2, LoopStutters DEF vars
<1> QED BY <1>1, <1>2

\* LoopInv holds in every state.
LEMMA Loops == Spec => []LoopInv
<1>1. WorkerInit => LoopInv
  BY LoopInit
<1>2. StartInv /\ LoopInv /\ [Next]_vars => LoopInv'
  BY LoopStep
<1> QED BY <1>1, <1>2, Starts, PTL DEF Spec

\* Every round begins with empty buffers and none overflows, as long as no packet was
\* sent back to the port it came from, nor to one without an interface
\* (main_odp.c:122-331), for bursts of every size, any number of packets and of
\* interfaces, and whatever ports a controller names.
THEOREM NoPacketWaits == Spec => []NothingWaits
<1>1. ASSUME LoopInv PROVE NothingWaits
  BY <1>1 DEF LoopInv, BufInv, SpareInv, SafeInv, NothingWaits
<1> QED BY <1>1, Loops, PTL

\* The packets in use are those that wait to be sent or handled, those for ports
\* without an interface included: the worker loses none otherwise and frees none
\* twice (main_odp.c:122-331), unless a first copy failed or there was no port to send
\* one to.
THEOREM PoolBalances == Spec => []PoolBalance
<1>1. ASSUME LoopInv PROVE PoolBalance
  <2>1. SUFFICES ASSUME at # "none", process = "running", mishaps \intersect {"copy", "alone"} = {}
                 PROVE  allocated = pkt_tbl + Waiting(Entries)
    BY DEF PoolBalance
  <2>2. allocated = pkt_tbl + Total(buf, Entries)
    BY <1>1, <2>1 DEF LoopInv, BalanceInv
  <2> QED BY <2>2, Zenon DEF Total, Waiting
<1> QED BY <1>1, Loops, PTL
=============================================================================
