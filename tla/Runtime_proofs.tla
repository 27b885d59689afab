-------------------------- MODULE Runtime_proofs ---------------------------
(***************************************************************************)
(* Theorems about what the threads of the control plane share.             *)
(*                                                                         *)
(* Fifo, for every ring size, set of messages and finite set of consumers: *)
(* type correctness, the geometry of the ring, no lost wakeup, and the     *)
(* refinement of BoundedQueue.                                             *)
(*                                                                         *)
(* MemPool, for every number of cells: both lists end and part the cells   *)
(* between them, a cell that is handed out can be unlinked through its     *)
(* prev, and the two lists implement CellPool.  The properties speak of    *)
(* what one finds in following the links; the inductive invariant Linked   *)
(* says which cells that are: there are two enumerations of the cells,     *)
(* without repetitions, along which the links run.  Each operation changes *)
(* an enumeration at one place.  That Walk, which is recursive, follows an *)
(* enumeration is shown by induction on the steps, in the form that the    *)
(* set of steps it is true of is all of Nat.                               *)
(***************************************************************************)
EXTENDS Fifo, MemPool, FiniteSetTheorems, SequenceTheorems, WellFoundedInduction, TLAPS

-----------------------------------------------------------------------------
(* Arithmetic of the ring: with at most N slots after head, an index wraps *)
(* at most once.                                                           *)

\* Below N nothing wraps round.
LEMMA ModSmall ==
  ASSUME NEW N \in Nat \ {0}, NEW a \in 0 .. N - 1
  PROVE  a % N = a
  OBVIOUS

\* An index that passed the end of the ring once restarts at its beginning.
LEMMA ModWrap ==
  ASSUME NEW N \in Nat \ {0}, NEW a \in N .. 2 * N - 1
  PROVE  a % N = a - N
  OBVIOUS

\* Every index taken modulo the ring's size is a slot of the ring.
LEMMA ModRange ==
  ASSUME NEW N \in Nat \ {0}, NEW a \in Int
  PROVE  a % N \in 0 .. N - 1
  OBVIOUS

\* Two offsets below N from the same slot are two different slots.
LEMMA ModInjective ==
  ASSUME NEW N \in Nat \ {0}, NEW a \in 0 .. N - 1,
         NEW i \in 0 .. N - 1, NEW j \in 0 .. N - 1, i # j
  PROVE  (a + i) % N # (a + j) % N
<1>1. ASSUME NEW k \in 0 .. N - 1
      PROVE  (a + k) % N = IF a + k < N THEN a + k ELSE a + k - N
  <2>1. CASE a + k < N BY <2>1, ModSmall
  <2>2. CASE a + k >= N BY <2>2, ModWrap
  <2> QED BY <2>1, <2>2
<1>2. (a + i) % N = IF a + i < N THEN a + i ELSE a + i - N
  BY <1>1
<1>3. (a + j) % N = IF a + j < N THEN a + j ELSE a + j - N
  BY <1>1
<1> QED BY <1>2, <1>3

\* Moving the start one slot on and taking one step less.
LEMMA ModShift ==
  ASSUME NEW N \in Nat \ {0}, NEW a \in 0 .. N - 1, NEW k \in 0 .. N - 1
  PROVE  (((a + 1) % N) + k) % N = (a + 1 + k) % N
<1>1. CASE a + 1 < N
  BY <1>1, ModSmall
<1>2. CASE a + 1 = N
  <2>1. (a + 1) % N = 0 BY <1>2, ModWrap
  <2>2. (a + 1 + k) % N = k BY <1>2, ModWrap
  <2>3. k % N = k BY ModSmall
  <2> QED BY <2>1, <2>2, <2>3
<1> QED BY <1>1, <1>2

\* One slot after the end of a run of k elements that starts at a.
LEMMA ModSucc ==
  ASSUME NEW N \in Nat \ {0}, NEW a \in 0 .. N - 1, NEW k \in 0 .. N - 1
  PROVE  (((a + k) % N) + 1) % N = (a + k + 1) % N
<1>1. CASE a + k < N
  BY <1>1, ModSmall
<1>2. CASE a + k >= N
  <2>1. (a + k) % N = a + k - N BY <1>2, ModWrap
  <2>2. (a + k - N + 1) % N = a + k - N + 1 BY <1>2, ModSmall
  <2>3. (a + k + 1) % N = a + k + 1 - N BY <1>2, ModWrap
  <2> QED BY <2>1, <2>2, <2>3
<1> QED BY <1>1, <1>2

-----------------------------------------------------------------------------
\* Every variable of fifo_t and of its consumers keeps its type: in
\* particular head stays inside the ring and size never passes its bound.
THEOREM TypeCorrect == Spec => []TypeOK
<1> USE FifoAssumption DEF TypeOK, Slot, Location
<1>1. Init => TypeOK
  BY DEF Init
<1>2. TypeOK /\ [Next]_vars => TypeOK'
  <2> SUFFICES ASSUME TypeOK, [Next]_vars PROVE TypeOK'
    OBVIOUS
  <2>1. ASSUME NEW e \in Element, fifo_add_msg(e) PROVE TypeOK'
    <3>1. Following(tail) \in Slot BY ModRange DEF Following
    <3>2. asleep' \subseteq Consumer
      BY <2>1 DEF fifo_add_msg, SignalNotEmpty
    <3>3. CASE Store(e)
      BY <2>1, <3>1, <3>2, <3>3 DEF fifo_add_msg, Store, Room
    <3>4. CASE UNCHANGED ring
      BY <2>1, <3>2, <3>4 DEF fifo_add_msg, ring
    <3> QED BY <2>1, <3>3, <3>4 DEF fifo_add_msg, ring
  <2>2. ASSUME NEW c \in Consumer, fifo_wait(c) PROVE TypeOK'
    BY <2>2 DEF fifo_wait, ring
  <2>3. ASSUME NEW c \in Consumer, ReturnFromWait(c) PROVE TypeOK'
    BY <2>3 DEF ReturnFromWait, ring
  <2>4. ASSUME NEW c \in Consumer, fifo_remove_msg(c) PROVE TypeOK'
    <3>1. Following(head) \in Slot BY ModRange DEF Following
    <3>2. CASE size > 0
      BY <2>4, <3>1, <3>2 DEF fifo_remove_msg, Oldest
    <3>3. CASE ~(size > 0)
      BY <2>4, <3>3 DEF fifo_remove_msg, ring
    <3> QED BY <3>2, <3>3
  <2>5. ASSUME NEW c \in Consumer, Use(c) PROVE TypeOK'
    BY <2>5 DEF Use, ring
  <2>6. ASSUME NEW c \in Consumer, SpuriousWakeup(c) PROVE TypeOK'
    BY <2>6 DEF SpuriousWakeup, ring
  <2>7. CASE UNCHANGED vars
    BY <2>7 DEF vars
  <2> QED BY <2>1, <2>2, <2>3, <2>4, <2>5, <2>6, <2>7 DEF Next, Step
<1> QED BY <1>1, <1>2, PTL DEF Spec

-----------------------------------------------------------------------------
\* The slot of the ith oldest element.
SlotOf(i) == (head + i - 1) % P4_BG_QUEUE_SIZE

\* The ith oldest element lies in one of the ring's slots.
LEMMA SlotOfInRing ==
  ASSUME TypeOK, NEW i \in Int
  PROVE  SlotOf(i) \in Slot
BY FifoAssumption, ModRange DEF SlotOf, TypeOK, Slot

\* An add writes the slot behind the youngest element and no queued one.
LEMMA StoreSlot ==
  ASSUME TypeOK, IndicesAgree, size < P4_BG_QUEUE_SIZE
  PROVE  /\ Following(tail) \in Slot
         /\ Following(tail) = SlotOf(size + 1)
         /\ \A i \in 1..size : SlotOf(i) # Following(tail)
<1> USE FifoAssumption DEF TypeOK, Slot, SlotOf
<1>1. Following(tail) \in Slot
  BY ModRange DEF Following
<1>2. Following(tail) = SlotOf(size + 1)
  BY DEF IndicesAgree
<1>3. ASSUME NEW i \in 1..size PROVE SlotOf(i) # Following(tail)
  <2>1. i - 1 \in 0 .. P4_BG_QUEUE_SIZE - 1 /\ size \in 0 .. P4_BG_QUEUE_SIZE - 1
        /\ i - 1 # size
    OBVIOUS
  <2>2. (head + (i - 1)) % P4_BG_QUEUE_SIZE # (head + size) % P4_BG_QUEUE_SIZE
    BY <2>1, ModInjective
  <2>3. head + (i - 1) = head + i - 1 /\ head + (size + 1) - 1 = head + size
    OBVIOUS
  <2> QED BY <1>2, <2>2, <2>3
<1> QED BY <1>1, <1>2, <1>3

\* A removal renumbers the elements and leaves them where they are.
LEMMA RemoveSlots ==
  ASSUME TypeOK, size > 0, head' = Following(head)
  PROVE  /\ \A i \in 1 .. size - 1 : SlotOf(i)' = SlotOf(i + 1)
         /\ (head' + (size - 1)) % P4_BG_QUEUE_SIZE = (head + size) % P4_BG_QUEUE_SIZE
<1> USE FifoAssumption DEF TypeOK, Slot, SlotOf, Following
<1>1. ASSUME NEW k \in 0 .. size - 1
      PROVE  (Following(head) + k) % P4_BG_QUEUE_SIZE = (head + 1 + k) % P4_BG_QUEUE_SIZE
  BY ModShift
<1>2. ASSUME NEW i \in 1 .. size - 1 PROVE SlotOf(i)' = SlotOf(i + 1)
  <2>1. i - 1 \in 0 .. size - 1 OBVIOUS
  <2>2. (Following(head) + (i - 1)) % P4_BG_QUEUE_SIZE
          = (head + 1 + (i - 1)) % P4_BG_QUEUE_SIZE
    BY <1>1, <2>1
  <2>3. Following(head) \in Int BY ModRange
  <2>4. /\ Following(head) + (i - 1) = Following(head) + i - 1
        /\ head + 1 + (i - 1) = head + (i + 1) - 1
    BY <2>3
  <2> QED BY <2>2, <2>4
<1>3. (head' + (size - 1)) % P4_BG_QUEUE_SIZE = (head + size) % P4_BG_QUEUE_SIZE
  <2>0. size - 1 \in 0 .. size - 1 OBVIOUS
  <2>1. (Following(head) + (size - 1)) % P4_BG_QUEUE_SIZE
          = (head + 1 + (size - 1)) % P4_BG_QUEUE_SIZE
    BY ONLY <1>1, <2>0
  <2>2. head + 1 + (size - 1) = head + size OBVIOUS
  <2> QED BY <2>1, <2>2
<1> QED BY <1>2, <1>3

-----------------------------------------------------------------------------
\* head, size and tail agree in every reachable state, and the slots between
\* head and tail hold elements that were added.
THEOREM IndicesCorrect == Spec => []IndicesAgree
<1>1. Init => IndicesAgree
  <2> SUFFICES ASSUME Init PROVE IndicesAgree
    OBVIOUS
  <2>1. 0 % P4_BG_QUEUE_SIZE = 0 BY FifoAssumption, ModSmall
  <2> QED BY <2>1 DEF Init, IndicesAgree, Following
<1>2. TypeOK /\ IndicesAgree /\ [Next]_vars => IndicesAgree'
  <2> SUFFICES ASSUME TypeOK, IndicesAgree, [Next]_vars PROVE IndicesAgree'
    OBVIOUS
  <2>1. CASE UNCHANGED ring
    BY <2>1 DEF ring, IndicesAgree, Following
  <2>2. ASSUME NEW e \in Element, Store(e) PROVE IndicesAgree'
    <3> USE FifoAssumption
    <3>1. size < P4_BG_QUEUE_SIZE BY <2>2 DEF Store, Room
    <3>2. (head' + size') % P4_BG_QUEUE_SIZE = Following(tail')
      <4>1. Following(tail) = (head + size) % P4_BG_QUEUE_SIZE
        BY DEF IndicesAgree
      <4>2. (((head + size) % P4_BG_QUEUE_SIZE) + 1) % P4_BG_QUEUE_SIZE
              = (head + size + 1) % P4_BG_QUEUE_SIZE
        <5>1. /\ head \in 0 .. P4_BG_QUEUE_SIZE - 1
              /\ size \in 0 .. P4_BG_QUEUE_SIZE - 1
              /\ P4_BG_QUEUE_SIZE \in Nat \ {0}
          BY <3>1 DEF TypeOK, Slot
        <5> HIDE FifoAssumption
        <5> QED BY <5>1, ModSucc
      <4>3. head + (size + 1) = head + size + 1
        BY DEF TypeOK, Slot
      <4> QED BY <2>2, <4>1, <4>2, <4>3 DEF Store, Following
    <3>3. ASSUME NEW i \in 1 .. size'
          PROVE queue'[(head' + i - 1) % P4_BG_QUEUE_SIZE] \in Element
      <4>1. queue'[SlotOf(i)] \in Element
        <5>1. CASE i = size + 1
          BY <2>2, <3>1, <5>1, StoreSlot DEF Store, TypeOK
        <5>2. CASE i # size + 1
          <6>1. i \in 1..size BY <2>2, <5>2 DEF Store, TypeOK
          <6>2. SlotOf(i) \in Slot /\ SlotOf(i) # Following(tail)
            BY <3>1, <6>1, StoreSlot, SlotOfInRing
          <6>3. queue'[SlotOf(i)] = queue[SlotOf(i)]
            BY <2>2, <6>2 DEF Store, TypeOK
          <6> QED BY <6>1, <6>3 DEF IndicesAgree, SlotOf
        <5> QED BY <5>1, <5>2
      <4> QED BY <2>2, <4>1 DEF Store, SlotOf
    <3> QED BY <3>2, <3>3 DEF IndicesAgree, Following
  <2>3. ASSUME NEW c \in Consumer, fifo_remove_msg(c), size > 0 PROVE IndicesAgree'
    <3>1. /\ head' = Following(head) /\ size' = size - 1
          /\ queue' = queue /\ tail' = tail
      BY <2>3 DEF fifo_remove_msg
    <3>2. (head' + size') % P4_BG_QUEUE_SIZE = Following(tail')
      BY <2>3, <3>1, RemoveSlots DEF IndicesAgree, Following
    <3>3. ASSUME NEW i \in 1 .. size'
          PROVE queue'[(head' + i - 1) % P4_BG_QUEUE_SIZE] \in Element
      <4>1. i \in 1 .. size - 1 /\ i + 1 \in 1 .. size
        BY <3>1, <2>3 DEF TypeOK
      <4>2. SlotOf(i)' = SlotOf(i + 1)
        BY <2>3, <3>1, <4>1, RemoveSlots
      <4>3. queue[SlotOf(i + 1)] \in Element
        BY <4>1 DEF IndicesAgree, SlotOf
      <4> QED BY <3>1, <4>2, <4>3 DEF SlotOf
    <3> QED BY <3>2, <3>3 DEF IndicesAgree, Following
  <2>4. ASSUME NEW e \in Element, fifo_add_msg(e) PROVE IndicesAgree'
    BY <2>1, <2>2, <2>4 DEF fifo_add_msg, ring
  <2>5. ASSUME NEW c \in Consumer, Step(c) \/ SpuriousWakeup(c) PROVE IndicesAgree'
    <3>1. CASE fifo_remove_msg(c)
      BY <2>1, <2>3, <3>1 DEF fifo_remove_msg
    <3>2. CASE ~fifo_remove_msg(c)
      BY <2>1, <2>5, <3>2 DEF Step, fifo_wait, ReturnFromWait, Use, SpuriousWakeup
    <3> QED BY <3>1, <3>2
  <2> QED BY <2>1, <2>4, <2>5 DEF Next, vars, ring
<1> QED BY <1>1, <1>2, TypeCorrect, PTL DEF Spec

\* The ring is well formed in every reachable state: the types of its variables
\* and the agreement of its indices.
THEOREM RingCorrect == Spec => []RingInv
<1>1. TypeOK /\ IndicesAgree => RingInv
  BY DEF RingInv
<1> QED BY <1>1, TypeCorrect, IndicesCorrect, PTL

-----------------------------------------------------------------------------
\* One signal per add is enough: while anybody sleeps in fifo_wait there is a
\* consumer awake for every queued element, for any number of consumers.
THEOREM NoLostWakeup == Spec => []WakeupsKeepUp
<1>1. Init => WakeupsKeepUp
  BY DEF Init, WakeupsKeepUp
<1>2. TypeOK /\ WakeupsKeepUp /\ [Next]_vars => WakeupsKeepUp'
  <2> SUFFICES ASSUME TypeOK, WakeupsKeepUp, [Next]_vars PROVE WakeupsKeepUp'
    OBVIOUS
  <2> DEFINE Awake == Consumer \ asleep
  <2>1. IsFiniteSet(Awake) /\ Cardinality(Awake) \in Nat
    BY FifoAssumption, FS_Subset, FS_CardinalityType
  <2>2. ASSUME NEW c \in asleep, asleep' = asleep \ {c}
        PROVE  Cardinality(Awake') = Cardinality(Awake) + 1
    <3>1. Awake' = Awake \cup {c} /\ c \notin Awake
      BY <2>2 DEF TypeOK
    <3> HIDE DEF Awake
    <3> QED BY <2>1, <3>1, FS_AddElement
  <2>3. size \in Nat
    BY DEF TypeOK
  <2>4. CASE UNCHANGED asleep /\ size' <= size /\ size' \in Nat
    BY <2>1, <2>3, <2>4 DEF WakeupsKeepUp
  <2>5. ASSUME NEW e \in Element, fifo_add_msg(e) PROVE WakeupsKeepUp'
    <3>1. CASE Store(e) /\ asleep = {} /\ UNCHANGED asleep
      BY <3>1 DEF WakeupsKeepUp
    <3>2. ASSUME Store(e), NEW c \in asleep, asleep' = asleep \ {c}
          PROVE  WakeupsKeepUp'
      <4>1. size <= Cardinality(Awake) BY DEF WakeupsKeepUp
      <4>2. size' = size + 1 BY <3>2 DEF Store
      <4>3. Cardinality(Awake') = Cardinality(Awake) + 1 BY <2>2, <3>2
      <4>4. size' <= Cardinality(Awake') BY <2>1, <2>3, <4>1, <4>2, <4>3
      <4> QED BY <4>4 DEF WakeupsKeepUp
    <3>3. CASE UNCHANGED <<ring, asleep>>
      BY <2>3, <2>4, <3>3 DEF ring
    <3> QED BY <2>5, <3>1, <3>2, <3>3 DEF fifo_add_msg, SignalNotEmpty
  <2>6. ASSUME NEW c \in Consumer, fifo_wait(c) PROVE WakeupsKeepUp'
    <3>1. CASE size = 0
      <4>1. size' = 0 BY <2>6, <3>1 DEF fifo_wait, ring
      <4>2. IsFiniteSet(Consumer \ asleep') /\ Cardinality(Consumer \ asleep') \in Nat
        BY FifoAssumption, FS_Subset, FS_CardinalityType
      <4> QED BY <4>1, <4>2 DEF WakeupsKeepUp
    <3>2. CASE size # 0
      BY <2>3, <2>4, <2>6, <3>2 DEF fifo_wait, ring
    <3> QED BY <3>1, <3>2
  <2>7. ASSUME NEW c \in Consumer, SpuriousWakeup(c) PROVE WakeupsKeepUp'
    <3>1. c \in asleep /\ asleep' = asleep \ {c} /\ size' = size
      BY <2>7 DEF SpuriousWakeup, ring
    <3>2. size <= Cardinality(Awake) BY <3>1 DEF WakeupsKeepUp
    <3>3. Cardinality(Awake') = Cardinality(Awake) + 1 BY <2>2, <3>1
    <3>4. size' <= Cardinality(Awake') BY <2>1, <2>3, <3>1, <3>2, <3>3
    <3> QED BY <3>4 DEF WakeupsKeepUp
  <2>8. ASSUME NEW c \in Consumer, ReturnFromWait(c) \/ fifo_remove_msg(c) \/ Use(c)
        PROVE  WakeupsKeepUp'
    BY <2>3, <2>4, <2>8 DEF ReturnFromWait, fifo_remove_msg, Use, ring
  <2>9. CASE UNCHANGED vars
    BY <2>3, <2>4, <2>9 DEF vars
  <2> QED BY <2>5, <2>6, <2>7, <2>8, <2>9 DEF Next, Step
<1> QED BY <1>1, <1>2, TypeCorrect, PTL DEF Spec

-----------------------------------------------------------------------------
(* The refinement of BoundedQueue.                                         *)

\* What the ring holds, read from head to tail, is a sequence of elements.
LEMMA ContentsType ==
  ASSUME TypeOK, IndicesAgree
  PROVE  /\ Contents \in Seq(Element)
         /\ Len(Contents) = size
         /\ \A i \in 1..size : Contents[i] = queue[SlotOf(i)]
BY DEF Contents, IndicesAgree, TypeOK, SlotOf

\* An add of fifo.c appends to the contents of the ring.
LEMMA StoreAppends ==
  ASSUME TypeOK, IndicesAgree, TypeOK', IndicesAgree', NEW e \in Element, Store(e)
  PROVE  Contents' = Append(Contents, e)
<1>1. size < P4_BG_QUEUE_SIZE /\ size' = size + 1 /\ head' = head
      /\ queue' = [queue EXCEPT ![Following(tail)] = e]
  BY DEF Store, Room
<1>2. /\ Contents \in Seq(Element) /\ Len(Contents) = size
      /\ \A i \in 1..size : Contents[i] = queue[SlotOf(i)]
  BY ContentsType
<1>3. /\ Contents' \in Seq(Element) /\ Len(Contents') = size + 1
      /\ \A i \in 1 .. size + 1 : Contents'[i] = queue'[SlotOf(i)]
  BY <1>1, ContentsType DEF Contents, IndicesAgree, TypeOK, SlotOf
<1>4. /\ Append(Contents, e) \in Seq(Element)
      /\ Len(Append(Contents, e)) = size + 1
      /\ \A i \in 1..size : Append(Contents, e)[i] = Contents[i]
      /\ Append(Contents, e)[size + 1] = e
  BY <1>2, AppendProperties
<1>5. ASSUME NEW i \in 1 .. size + 1
      PROVE  Contents'[i] = Append(Contents, e)[i]
  <2>1. CASE i = size + 1
    BY <1>1, <1>3, <1>4, <2>1, StoreSlot DEF TypeOK
  <2>2. CASE i # size + 1
    <3>1. i \in 1..size BY <2>2 DEF TypeOK
    <3>2. SlotOf(i) \in Slot /\ SlotOf(i) # Following(tail)
      BY <1>1, <3>1, StoreSlot, SlotOfInRing
    <3>3. queue'[SlotOf(i)] = queue[SlotOf(i)]
      BY <1>1, <3>2 DEF TypeOK
    <3> QED BY <1>2, <1>3, <1>4, <3>1, <3>3
  <2> QED BY <2>1, <2>2
<1> QED BY <1>3, <1>4, <1>5, SeqEqual

\* A removal of fifo.c takes the first of the ring's contents and keeps the rest.
LEMMA RemoveTakesHead ==
  ASSUME TypeOK, IndicesAgree, TypeOK', IndicesAgree', NEW c \in Consumer,
         fifo_remove_msg(c), size > 0
  PROVE  /\ Contents # <<>>
         /\ queue[head] = Head(Contents)
         /\ Contents' = Tail(Contents)
<1>1. size' = size - 1 /\ head' = Following(head) /\ queue' = queue
  BY DEF fifo_remove_msg
<1>2. /\ Contents \in Seq(Element) /\ Len(Contents) = size
      /\ \A i \in 1..size : Contents[i] = queue[SlotOf(i)]
  BY ContentsType
<1>3. Contents # <<>>
  BY <1>2, EmptySeq
<1>4. queue[head] = Head(Contents)
  <2>1. SlotOf(1) = head
    <3>1. head + 1 - 1 = head /\ head \in 0 .. P4_BG_QUEUE_SIZE - 1
      BY DEF TypeOK, Slot
    <3>2. head % P4_BG_QUEUE_SIZE = head
      BY <3>1, FifoAssumption, ModSmall
    <3> QED BY <3>1, <3>2 DEF SlotOf
  <2>2. Contents[1] = queue[head]
    BY <1>2, <2>1 DEF TypeOK
  <2> QED BY <1>2, <1>3, <2>2
<1>5. /\ Contents' \in Seq(Element) /\ Len(Contents') = size - 1
      /\ \A i \in 1 .. size - 1 : Contents'[i] = queue[SlotOf(i)']
  BY <1>1 DEF Contents, IndicesAgree, TypeOK, SlotOf
<1>6. /\ Tail(Contents) \in Seq(Element) /\ Len(Tail(Contents)) = size - 1
      /\ \A i \in 1 .. size - 1 : Tail(Contents)[i] = Contents[i + 1]
  BY <1>2, <1>3, HeadTailProperties
<1>7. ASSUME NEW i \in 1 .. size - 1
      PROVE  Contents'[i] = Tail(Contents)[i]
  <2>1. i + 1 \in 1..size BY DEF TypeOK
  <2>2. SlotOf(i)' = SlotOf(i + 1) BY <1>1, RemoveSlots
  <2> QED BY <1>2, <1>5, <1>6, <2>1, <2>2
<1>8. Contents' = Tail(Contents)
  BY <1>5, <1>6, <1>7, SeqEqual
<1> QED BY <1>3, <1>4, <1>8

\* The ring implements the bounded queue: what a consumer gets is what the
\* abstract queue would have given it, for every ring size and any number of
\* producers and consumers.
THEOREM RefinesBoundedQueue == Spec => ImplementsBoundedQueue
<1>1. Init => Queue!Init
  <2> SUFFICES ASSUME Init PROVE Queue!Init
    OBVIOUS
  <2> QED BY DEF Init, Contents, Queue!Init
<1>2. TypeOK /\ IndicesAgree /\ TypeOK' /\ IndicesAgree' /\ [Next]_vars
        => [Queue!Next]_<<Contents, result>>
  <2> SUFFICES ASSUME TypeOK, IndicesAgree, TypeOK', IndicesAgree', [Next]_vars
               PROVE  Queue!Next \/ UNCHANGED <<Contents, result>>
    OBVIOUS
  <2>1. Contents \in Seq(Element) /\ Len(Contents) = size
    BY ContentsType
  <2>2. UNCHANGED ring => UNCHANGED Contents
    BY DEF ring, Contents
  <2>3. ASSUME NEW e \in Element, fifo_add_msg(e) PROVE Queue!Next
    <3>1. CASE Store(e)
      <4>1. Contents' = Append(Contents, e) BY <3>1, StoreAppends
      <4>2. Len(Contents) < P4_BG_QUEUE_SIZE BY <2>1, <3>1 DEF Store, Room
      <4>3. Queue!Add(e)
        BY <2>3, <4>1, <4>2 DEF Queue!Add, Queue!Put, fifo_add_msg
      <4> QED BY <4>3 DEF Queue!Next
    <3>2. CASE ~Room /\ UNCHANGED ring
      <4>1. ~(Len(Contents) < P4_BG_QUEUE_SIZE) BY <2>1, <3>2 DEF Room
      <4>2. Queue!Add(e)
        BY <2>2, <2>3, <3>2, <4>1 DEF Queue!Add, Queue!Put, fifo_add_msg
      <4> QED BY <4>2 DEF Queue!Next
    <3> QED BY <2>3, <3>1, <3>2 DEF fifo_add_msg, ring
  <2>4. ASSUME NEW c \in Consumer, fifo_remove_msg(c) PROVE Queue!Next
    <3>1. CASE size > 0
      <4>1. /\ Contents # <<>> /\ queue[head] = Head(Contents)
            /\ Contents' = Tail(Contents)
        BY <2>4, <3>1, RemoveTakesHead
      <4>2. result' = [result EXCEPT ![c] = Head(Contents)]
        BY <2>4, <3>1, <4>1 DEF fifo_remove_msg, Oldest
      <4>3. Queue!RemoveOldest(c)
        BY <4>1, <4>2 DEF Queue!RemoveOldest, Queue!Take
      <4> QED BY <4>3 DEF Queue!Next
    <3>2. CASE ~(size > 0)
      <4>1. Contents = <<>> BY <2>1, <3>2, EmptySeq DEF TypeOK
      <4>2. UNCHANGED Contents /\ result' = [result EXCEPT ![c] = None]
        BY <2>2, <2>4, <3>2 DEF fifo_remove_msg
      <4>3. Queue!RemoveNothing(c)
        BY <4>1, <4>2 DEF Queue!RemoveNothing
      <4> QED BY <4>3 DEF Queue!Next
    <3> QED BY <3>1, <3>2
  <2>5. ASSUME NEW c \in Consumer, Use(c) PROVE Queue!Next
    <3>1. Queue!Release(c) BY <2>2, <2>5 DEF Use, Queue!Release
    <3> QED BY <3>1 DEF Queue!Next
  <2>6. ASSUME NEW c \in Consumer,
               fifo_wait(c) \/ ReturnFromWait(c) \/ SpuriousWakeup(c)
        PROVE  UNCHANGED <<Contents, result>>
    BY <2>2, <2>6 DEF fifo_wait, ReturnFromWait, SpuriousWakeup
  <2>7. CASE UNCHANGED vars
    BY <2>2, <2>7 DEF vars, ring
  <2> QED BY <2>3, <2>4, <2>5, <2>6, <2>7 DEF Next, Step
<1> QED BY <1>1, <1>2, TypeCorrect, IndicesCorrect, PTL
     DEF Spec, ImplementsBoundedQueue, Queue!Spec

-----------------------------------------------------------------------------
(* The memory pool: the enumerations its links run along.                  *)

\* next leads from h through s[1], ..., s[n] and ends there.
Chain(h, n, s) ==
  /\ s \in [1..n -> Cell]
  /\ \A i, j \in 1..n : s[i] = s[j] => i = j
  /\ h = IF n = 0 THEN NULL ELSE s[1]
  /\ \A i \in 1..n : next[s[i]] = IF i = n THEN NULL ELSE s[i + 1]

\* prev leads back to s[1].
Back(n, s) == \A i \in 2..n : prev[s[i]] = s[i - 1]

Members(n, s) == {s[i] : i \in 1..n}

\* m cells u are on the used list, and n cells f on the unused one.
Lists(m, u, n, f) ==
  /\ Chain(used_head, m, u) /\ Members(m, u) = held /\ Back(m, u)
  /\ Chain(unused_head, n, f) /\ Members(n, f) = Cell \ held

Linked ==
  \E m, n \in Nat : \E u \in [1..m -> Cell], f \in [1..n -> Cell] : Lists(m, u, n, f)

PoolInv == LinksTyped /\ Linked

\* s with the cell c in front, and s without its k-th cell.
Before(c, n, s) == [i \in 1..n + 1 |-> IF i = 1 THEN c ELSE s[i - 1]]
Without(k, n, s) == [i \in 1..n - 1 |-> IF i < k THEN s[i] ELSE s[i + 1]]

-----------------------------------------------------------------------------
(* Induction, and what Walk finds.                                         *)

\* A set that has 0, and with a number the next one, has every number.
LEMMA NatSetInduction ==
  ASSUME NEW S, 0 \in S, \A n \in Nat : n \in S => n + 1 \in S
  PROVE  Nat \subseteq S
<1> DEFINE T == Nat \ S
           R == {p \in Nat \X Nat : p[1] < p[2]}
<1>1. SUFFICES ASSUME T # {} PROVE FALSE
  OBVIOUS
<1>2. IsWellFoundedOn(R, Nat)
  BY NatLessThanWellFounded DEF OpToRel
<1>3. PICK x \in T : \A y \in T : ~(<<y, x>> \in R)
  <2>1. T \subseteq Nat OBVIOUS
  <2> HIDE DEF T, R
  <2> QED BY <1>1, <1>2, <2>1, WFMin
<1>4. x - 1 \in Nat /\ <<x - 1, x>> \in R
  OBVIOUS
<1> QED BY <1>3, <1>4

\* An enumeration without repetitions is not longer than the pool is large.
LEMMA ChainLength ==
  ASSUME NEW h, NEW n \in Nat, NEW s, Chain(h, n, s)
  PROVE  n <= queue_size
<1>1. /\ IsFiniteSet(1..n) /\ Cardinality(1..n) = n
      /\ IsFiniteSet(Cell) /\ Cardinality(Cell) = queue_size
  BY MemPoolAssumption, FS_Interval DEF Cell
<1>2. s \in Injection(1..n, Cell)
  BY DEF Chain, Injection, IsInjective
<1> QED BY <1>1, <1>2, FS_Injection

\* After k steps along a chain one is at its cell k + 1, or past its end.
LEMMA WalkChain ==
  ASSUME NEW h, NEW n \in Nat, NEW s, Chain(h, n, s)
  PROVE  /\ \A k \in 0..queue_size : Walk(h)[k] = IF k < n THEN s[k + 1] ELSE NULL
         /\ Walk(h)[queue_size] = NULL
         /\ CellsOf(h) = Members(n, s)
<1>1. n <= queue_size /\ queue_size \in Nat /\ NULL \notin Cell
  BY ChainLength, MemPoolAssumption DEF Cell, NULL
<1> DEFINE at(k) == IF k < n THEN s[k + 1] ELSE NULL
           g == [k \in 0..queue_size |-> at(k)]
           Onward(w, k) == IF k = 0 THEN h
                         ELSE IF w[k - 1] = NULL THEN NULL ELSE next[w[k - 1]]
<1>2. ASSUME NEW k \in 0..queue_size
      PROVE  at(k) = Onward(g, k)
  <2>1. CASE k = 0
    BY <2>1 DEF Chain
  <2>2. CASE k # 0
    <3>1. k - 1 \in 0..queue_size /\ g[k - 1] = at(k - 1)
      BY <1>1, <2>2
    <3>2. CASE k - 1 < n
      BY <1>1, <2>2, <3>1, <3>2 DEF Chain
    <3> QED BY <1>1, <2>2, <3>1, <3>2
  <2> QED BY <2>1, <2>2
<1>3. Walk(h) = [k \in 0..queue_size |-> Onward(Walk(h), k)]
  <2>1. g = [k \in 0..queue_size |-> Onward(g, k)]
    BY <1>2
  <2> HIDE DEF g
  <2> QED BY <2>1 DEF Walk
<1>4. \A k \in 0..queue_size : Walk(h)[k] = at(k)
  <2> DEFINE S == {k \in Nat : k <= queue_size => Walk(h)[k] = at(k)}
  <2> HIDE DEF g
  <2>1. 0 \in S
    BY <1>1, <1>2, <1>3
  <2>2. ASSUME NEW k \in Nat, k \in S
        PROVE  k + 1 \in S
    <3>1. SUFFICES ASSUME k + 1 <= queue_size
                   PROVE  Walk(h)[k + 1] = at(k + 1)
      OBVIOUS
    <3>2. k \in 0..queue_size /\ k + 1 \in 0..queue_size /\ Walk(h)[k] = at(k)
      BY <1>1, <2>2, <3>1
    <3>3. Walk(h)[k + 1] = IF at(k) = NULL THEN NULL ELSE next[at(k)]
      BY <1>3, <3>2
    <3>4. at(k + 1) = IF at(k) = NULL THEN NULL ELSE next[at(k)]
      <4>1. k + 1 - 1 = k /\ k + 1 # 0 /\ g[k] = at(k)
        BY <3>2 DEF g
      <4> HIDE DEF at
      <4> QED BY <1>2, <3>2, <4>1
    <3> QED BY <3>3, <3>4
  <2> HIDE DEF S
  <2>3. Nat \subseteq S
    BY <2>1, <2>2, NatSetInduction
  <2> QED BY <1>1, <2>3 DEF S
<1>5. CellsOf(h) = Members(n, s)
  <2>1. ASSUME NEW c \in CellsOf(h) PROVE c \in Members(n, s)
    BY <1>1, <1>4, <2>1 DEF CellsOf, Members
  <2>2. ASSUME NEW i \in 1..n PROVE s[i] \in CellsOf(h)
    <3>1. i - 1 \in 0..queue_size /\ at(i - 1) = s[i] /\ s[i] # NULL
      BY <1>1 DEF Chain
    <3> QED BY <1>4, <3>1 DEF CellsOf
  <2> QED BY <2>1, <2>2 DEF Members
<1> QED BY <1>1, <1>4, <1>5
-----------------------------------------------------------------------------
(* What the operations do to the two chains.                               *)

\* Every link names a cell or none.
LEMMA LinksStep ==
  ASSUME LinksTyped, [PoolNext]_links
  PROVE  LinksTyped'
<1> USE DEF LinksTyped, Pointer
<1>1. ASSUME NEW c \in Cell, Touch(c)
      PROVE  LinksTyped'
  BY <1>1 DEF Touch, RestOfUnused, TouchPrev, Assign
<1>2. ASSUME NEW c \in Cell, Detouch(c)
      PROVE  LinksTyped'
  BY <1>2 DEF Detouch, Unlink, DetouchPrev, Assign
<1> QED BY <1>1, <1>2 DEF PoolNext, TouchNothing, links

\* No cell is on both lists.
LEMMA Apart ==
  ASSUME NEW m \in Nat, NEW n \in Nat, NEW u, NEW f, Lists(m, u, n, f)
  PROVE  /\ \A i \in 1..m : u[i] \in held
         /\ \A j \in 1..n : f[j] \in Cell \ held
  BY DEF Lists, Members

\* touch_mem_cell: the first unused cell becomes the first used one.
LEMMA TouchLists ==
  ASSUME LinksTyped, NEW m \in Nat, NEW n \in Nat, NEW u, NEW f, Lists(m, u, n, f),
         NEW c \in Cell, Touch(c)
  PROVE  /\ n # 0
         /\ Lists(m + 1, Before(c, m, u), n - 1, Without(1, n, f))'
<1> DEFINE uu == [i \in 1..m + 1 |-> IF i = 1 THEN c ELSE u[i - 1]]
           ff == [i \in 1..n - 1 |-> f[i + 1]]
<1>0. uu = Before(c, m, u) /\ ff = Without(1, n, f)
  BY DEF Before, Without
<1>1. /\ u \in [1..m -> Cell] /\ f \in [1..n -> Cell]
      /\ next \in [Cell -> Pointer] /\ prev \in [Cell -> Pointer]
      /\ NULL \notin Cell
  BY MemPoolAssumption DEF Lists, Chain, LinksTyped, Cell, NULL
<1>2. n # 0 /\ c = f[1]
  BY DEF Touch, Lists, Chain
<1>3. /\ n - 1 \in Nat /\ m + 1 \in Nat
      /\ uu \in [1..m + 1 -> Cell] /\ ff \in [1..n - 1 -> Cell]
  BY <1>1, <1>2
<1>4. /\ \A i \in 1..m : u[i] # c
      /\ \A i \in 2..n : f[i] # c
  <2>1. 1 \in 1..n /\ \A i \in 2..n : i \in 1..n /\ i # 1
    BY <1>2
  <2>2. \A i, j \in 1..n : f[i] = f[j] => i = j
    BY DEF Lists, Chain
  <2> QED BY <1>2, <2>1, <2>2, Apart
<1>5. /\ next' = [next EXCEPT ![c] = used_head] /\ used_head' = c
      /\ unused_head' = next[c] /\ held' = held \cup {c}
      /\ prev' = Assign(Assign(prev, next[c], NULL), used_head, c)
  BY DEF Touch, RestOfUnused, TouchPrev
<1>6. Chain(used_head, m + 1, uu)'
  BY <1>1, <1>3, <1>4, <1>5 DEF Chain, Lists
<1>7. Chain(unused_head, n - 1, ff)'
  BY <1>1, <1>2, <1>3, <1>4, <1>5 DEF Chain, Lists
<1>8. Back(m + 1, uu)'
  <2>1. ASSUME NEW i \in 2..m
        PROVE  prev'[u[i]] = prev[u[i]]
    <3>1. i \in 1..m /\ 1 \in 1..m /\ m # 0 /\ i # 1
      OBVIOUS
    <3>2. used_head = u[1] /\ u[i] # u[1]
      BY <3>1 DEF Lists, Chain
    <3>3. next[c] = NULL \/ \E j \in 1..n : next[c] = f[j]
      BY <1>2 DEF Lists, Chain
    <3>4. next[c] # u[i]
      BY <1>1, <3>1, <3>3, Apart
    <3> QED BY <1>1, <1>5, <3>1, <3>2, <3>4 DEF Assign
  <2>2. m # 0 => prev'[u[1]] = c
    BY <1>1, <1>5 DEF Assign, Lists, Chain
  <2>3. SUFFICES ASSUME NEW i \in 2..m + 1
                 PROVE  prev'[uu[i]] = uu[i - 1]
    BY DEF Back
  <2>4. CASE i = 2
    BY <2>2, <2>4
  <2>5. CASE i # 2
    <3>1. i - 1 \in 2..m /\ i - 1 - 1 \in 1..m
      BY <2>5
    <3>2. uu[i] = u[i - 1] /\ uu[i - 1] = u[i - 1 - 1]
      BY <3>1
    <3>3. prev'[u[i - 1]] = u[i - 1 - 1]
      BY <2>1, <3>1 DEF Lists, Back
    <3> QED BY <3>2, <3>3
  <2> QED BY <2>4, <2>5
<1>9. Members(m + 1, uu)' = held'
  <2>1. Members(m + 1, uu) = Members(m, u) \cup {c}
    <3>1. \A i \in 1..m : i + 1 \in 1..m + 1 /\ uu[i + 1] = u[i]
      OBVIOUS
    <3>2. uu[1] = c /\ 1 \in 1..m + 1 /\ \A i \in 2..m + 1 : uu[i] = u[i - 1]
      OBVIOUS
    <3> HIDE DEF uu
    <3> QED BY <3>1, <3>2 DEF Members
  <2> QED BY <1>5, <2>1 DEF Lists, Members
<1>10. Members(n - 1, ff)' = (Cell \ held)'
  <2>1. Members(n - 1, ff) = Members(n, f) \ {c}
    <3>1. \A i \in 2..n : i - 1 \in 1..n - 1 /\ ff[i - 1] = f[i]
      BY <1>2
    <3>2. \A i \in 1..n - 1 : i + 1 \in 2..n /\ ff[i] = f[i + 1]
      BY <1>2
    <3> HIDE DEF ff
    <3> QED BY <1>2, <1>4, <3>1, <3>2 DEF Members
  <2> QED BY <1>5, <2>1 DEF Lists, Members
<1> HIDE DEF uu, ff
<1>11. Lists(m + 1, uu, n - 1, ff)'
  BY <1>6, <1>7, <1>8, <1>9, <1>10 DEF Lists
<1> QED BY <1>0, <1>2, <1>11 DEF Lists

\* detouch_mem_cell: the k-th used cell leaves its list and becomes the first unused one.
LEMMA DetouchLists ==
  ASSUME LinksTyped, NEW m \in Nat, NEW n \in Nat, NEW u, NEW f, Lists(m, u, n, f),
         NEW c \in Cell, Detouch(c), NEW k \in 1..m, c = u[k]
  PROVE  Lists(m - 1, Without(k, m, u), n + 1, Before(c, n, f))'
<1> DEFINE uu == [i \in 1..m - 1 |-> IF i < k THEN u[i] ELSE u[i + 1]]
           ff == [i \in 1..n + 1 |-> IF i = 1 THEN c ELSE f[i - 1]]
<1>0. uu = Without(k, m, u) /\ ff = Before(c, n, f)
  BY DEF Before, Without
<1>1. /\ u \in [1..m -> Cell] /\ f \in [1..n -> Cell]
      /\ next \in [Cell -> Pointer] /\ prev \in [Cell -> Pointer]
      /\ NULL \notin Cell
  BY MemPoolAssumption DEF Lists, Chain, LinksTyped, Cell, NULL
<1>2. /\ m - 1 \in Nat /\ n + 1 \in Nat /\ c \in Cell
      /\ uu \in [1..m - 1 -> Cell] /\ ff \in [1..n + 1 -> Cell]
  BY <1>1
<1>3. \A i, j \in 1..m : u[i] = u[j] => i = j
  BY DEF Lists, Chain
<1>4. \A i \in 1..n : f[i] \in Cell /\ \A j \in 1..m : f[i] # u[j]
  BY Apart
<1>5. /\ next[c] = IF k = m THEN NULL ELSE u[k + 1]
      /\ used_head = u[1]
      /\ k # 1 => prev[c] = u[k - 1]
  BY DEF Lists, Chain, Back
<1>6. /\ used_head' = IF k = 1 THEN next[c] ELSE used_head
      /\ next' = IF k = 1 THEN [next EXCEPT ![c] = unused_head]
                 ELSE [next EXCEPT ![u[k - 1]] = next[c], ![c] = unused_head]
      /\ unused_head' = c /\ held' = held \ {c}
      /\ prev' = [Assign(Assign(prev, next[c], prev[c]), unused_head, c) EXCEPT ![c] = NULL]
  <2>1. used_head # c <=> k # 1
    BY <1>3, <1>5
  <2> QED BY <1>5, <2>1 DEF Detouch, Unlink, DetouchPrev
<1>7. Chain(used_head, m - 1, uu)'
  <2>1. next'[c] = unused_head
    BY <1>1, <1>2, <1>6
  <2>2. \A i \in 1..m : i # k /\ i # k - 1 => next'[u[i]] = next[u[i]]
    BY <1>1, <1>3, <1>6
  <2>3. k # 1 => next'[u[k - 1]] = next[c]
    <3>1. k # 1 => u[k - 1] # c
      BY <1>3
    <3> QED BY <1>1, <1>2, <1>6, <3>1
  <2>4. ASSUME NEW i \in 1..m - 1
        PROVE  next'[uu[i]] = IF i = m - 1 THEN NULL ELSE uu[i + 1]
    <3>1. \A j \in 1..m : next[u[j]] = IF j = m THEN NULL ELSE u[j + 1]
      BY DEF Lists, Chain
    <3>2. CASE i < k - 1
      BY <2>2, <3>1, <3>2
    <3>3. CASE i = k - 1
      <4>1. uu[i] = u[k - 1] /\ k # 1 /\ (i = m - 1 <=> k = m) /\ (k # m => uu[i + 1] = u[k + 1])
        BY <3>3
      <4> QED BY <1>5, <2>3, <4>1
    <3>4. CASE i >= k
      <4>1. /\ uu[i] = u[i + 1] /\ i + 1 \in 1..m /\ i + 1 # k /\ i + 1 # k - 1
            /\ (i = m - 1 <=> i + 1 = m) /\ (i # m - 1 => uu[i + 1] = u[i + 1 + 1])
        BY <3>4
      <4> HIDE DEF uu
      <4> QED BY <2>2, <3>1, <4>1
    <3> QED BY <3>2, <3>3, <3>4
  <2>5. used_head' = IF m - 1 = 0 THEN NULL ELSE uu[1]
    BY <1>5, <1>6
  <2>6. \A i, j \in 1..m - 1 : uu[i] = uu[j] => i = j
    BY <1>3
  <2> QED BY <1>2, <2>4, <2>5, <2>6 DEF Chain
<1>8. Chain(unused_head, n + 1, ff)'
  <2>1. /\ \A i \in 1..n : next'[f[i]] = next[f[i]]
        /\ next'[c] = unused_head
    BY <1>1, <1>2, <1>4, <1>6
  <2>2. ASSUME NEW i \in 1..n + 1
        PROVE  next'[ff[i]] = IF i = n + 1 THEN NULL ELSE ff[i + 1]
    <3>1. \A j \in 1..n : next[f[j]] = IF j = n THEN NULL ELSE f[j + 1]
      BY DEF Lists, Chain
    <3>2. unused_head = IF n = 0 THEN NULL ELSE f[1]
      BY DEF Lists, Chain
    <3>3. CASE i = 1
      BY <2>1, <3>2, <3>3
    <3>4. CASE i # 1
      <4>1. i - 1 \in 1..n /\ ff[i] = f[i - 1] /\ (i = n + 1 <=> i - 1 = n)
        BY <3>4
      <4>2. i # n + 1 => ff[i + 1] = f[i - 1 + 1]
        BY <3>4
      <4> HIDE DEF ff
      <4> QED BY <2>1, <3>1, <4>1, <4>2
    <3> QED BY <3>3, <3>4
  <2>3. \A i, j \in 1..n + 1 : ff[i] = ff[j] => i = j
    BY <1>4 DEF Lists, Chain
  <2>4. ff[1] = c /\ n + 1 # 0
    OBVIOUS
  <2> HIDE DEF ff
  <2> QED BY <1>2, <1>6, <2>2, <2>3, <2>4 DEF Chain
<1>9. Back(m - 1, uu)'
  <2>1. \A i \in 1..m : i # k /\ i # k + 1 => prev'[u[i]] = prev[u[i]]
    <3>1. unused_head = NULL \/ \E j \in 1..n : unused_head = f[j]
      BY DEF Lists, Chain
    <3>2. next[c] = NULL \/ (k + 1 \in 1..m /\ next[c] = u[k + 1])
      BY <1>5
    <3> QED BY <1>1, <1>2, <1>3, <1>4, <1>6, <3>1, <3>2 DEF Assign
  <2>2. k # m => prev'[u[k + 1]] = prev[c]
    <3>1. unused_head = NULL \/ \E j \in 1..n : unused_head = f[j]
      BY DEF Lists, Chain
    <3>2. k # m => k + 1 \in 1..m /\ next[c] = u[k + 1] /\ u[k + 1] # c
      BY <1>3, <1>5
    <3> QED BY <1>1, <1>2, <1>3, <1>4, <1>6, <3>1, <3>2 DEF Assign
  <2>3. SUFFICES ASSUME NEW i \in 2..m - 1
                 PROVE  prev'[uu[i]] = uu[i - 1]
    BY DEF Back
  <2>4. \A j \in 2..m : prev[u[j]] = u[j - 1]
    BY DEF Lists, Back
  <2>5. CASE i < k
    BY <2>1, <2>4, <2>5
  <2>6. CASE i = k
    BY <1>5, <2>2, <2>6
  <2>7. CASE i > k
    BY <2>1, <2>4, <2>7
  <2> QED BY <2>5, <2>6, <2>7
<1>10. Members(m - 1, uu)' = held'
  <2>1. Members(m - 1, uu) = Members(m, u) \ {c}
    <3>1. \A i \in 1..m - 1 : \E j \in 1..m : j # k /\ uu[i] = u[j]
      OBVIOUS
    <3>2. ASSUME NEW j \in 1..m, j # k
          PROVE  \E i \in 1..m - 1 : uu[i] = u[j]
      <4>1. CASE j < k
        BY <4>1
      <4>2. CASE j > k
        <5>1. j - 1 \in 1..m - 1 /\ ~(j - 1 < k) /\ j - 1 + 1 = j
          BY <4>2
        <5> QED BY <5>1
      <4> QED BY <3>2, <4>1, <4>2
    <3>3. \A j \in 1..m : j # k => u[j] # c
      BY <1>3
    <3> HIDE DEF uu
    <3>4. Members(m - 1, uu) \subseteq Members(m, u) \ {c}
      BY <3>1, <3>3 DEF Members
    <3>5. Members(m, u) \ {c} \subseteq Members(m - 1, uu)
      BY <3>2 DEF Members
    <3> QED BY <3>4, <3>5
  <2> QED BY <1>6, <2>1 DEF Lists, Members
<1>11. Members(n + 1, ff)' = (Cell \ held)'
  <2>1. Members(n + 1, ff) = Members(n, f) \cup {c}
    <3>1. \A i \in 1..n : i + 1 \in 1..n + 1 /\ ff[i + 1] = f[i]
      OBVIOUS
    <3>2. ff[1] = c /\ 1 \in 1..n + 1 /\ \A i \in 2..n + 1 : ff[i] = f[i - 1] /\ i - 1 \in 1..n
      OBVIOUS
    <3> HIDE DEF ff
    <3> QED BY <3>1, <3>2 DEF Members
  <2> QED BY <1>2, <1>6, <2>1 DEF Lists, Members
<1> HIDE DEF uu, ff
<1>12. Lists(m - 1, uu, n + 1, ff)'
  BY <1>7, <1>8, <1>9, <1>10, <1>11 DEF Lists
<1> QED BY <1>0, <1>12 DEF Lists

\* create_backend: all cells are on the unused list, the last one first.
LEMMA InitLinked ==
  ASSUME PoolInit
  PROVE  LinksTyped /\ Linked
<1> DEFINE f == [i \in 1..queue_size |-> queue_size - i + 1]
           u == [i \in 1..0 |-> NULL]
<1>1. queue_size \in Nat \ {0} /\ Cell = 1..queue_size /\ NULL = 0
  BY MemPoolAssumption DEF Cell, NULL
<1>2. LinksTyped
  BY <1>1 DEF PoolInit, LinksTyped, Pointer, FirstNext
<1>3. Chain(unused_head, queue_size, f)
  <2>1. f \in [1..queue_size -> Cell] /\ unused_head = f[1]
    BY <1>1 DEF PoolInit
  <2>2. \A i, j \in 1..queue_size : f[i] = f[j] => i = j
    BY <1>1
  <2>3. ASSUME NEW i \in 1..queue_size
        PROVE  next[f[i]] = IF i = queue_size THEN NULL ELSE f[i + 1]
    <3>1. next[f[i]] = f[i] - 1
      BY <2>1 DEF PoolInit, FirstNext
    <3> QED BY <1>1, <3>1
  <2>4. queue_size # 0
    BY <1>1
  <2> HIDE DEF f
  <2> QED BY <2>1, <2>2, <2>3, <2>4, ZenonT(60) DEF Chain
<1>4. Members(queue_size, f) = Cell \ held
  <2>1. ASSUME NEW c \in Cell
        PROVE  queue_size - c + 1 \in 1..queue_size /\ f[queue_size - c + 1] = c
    BY <1>1
  <2>2. f \in [1..queue_size -> Cell] /\ held = {}
    BY <1>1 DEF PoolInit
  <2> HIDE DEF f
  <2> QED BY <2>1, <2>2 DEF Members
<1>5. Chain(used_head, 0, u) /\ Members(0, u) = held /\ Back(0, u)
  BY DEF PoolInit, Chain, Members, Back
<1>6. Lists(0, u, queue_size, f)
  BY <1>3, <1>4, <1>5 DEF Lists
<1>7. u \in [1..0 -> Cell] /\ f \in [1..queue_size -> Cell]
  BY <1>3, <1>5 DEF Chain
<1> HIDE DEF u, f
<1> QED BY <1>1, <1>2, <1>6, <1>7 DEF Linked

\* Some two enumerations are all that Linked asks for.
LEMMA ListsLinked ==
  ASSUME NEW m \in Nat, NEW n \in Nat, NEW u, NEW f, Lists(m, u, n, f)'
  PROVE  Linked'
<1>1. u \in [1..m -> Cell] /\ f \in [1..n -> Cell]
  BY DEF Lists, Chain
<1> QED BY <1>1 DEF Linked

\* Touching and detouching keep the two lists linked.
LEMMA LinkedStep ==
  ASSUME PoolInv, [PoolNext]_links
  PROVE  Linked'
<1>1. PICK m, n \in Nat : \E u \in [1..m -> Cell], f \in [1..n -> Cell] : Lists(m, u, n, f)
  BY DEF PoolInv, Linked
<1>2. PICK u \in [1..m -> Cell], f \in [1..n -> Cell] : Lists(m, u, n, f)
  BY <1>1
<1>3. ASSUME NEW c \in Cell, Touch(c)
      PROVE  Linked'
  <2>1. LinksTyped
    BY DEF PoolInv
  <2>2. n # 0 /\ Lists(m + 1, Before(c, m, u), n - 1, Without(1, n, f))'
    BY <1>2, <1>3, <2>1, TouchLists
  <2>3. n - 1 \in Nat /\ m + 1 \in Nat
    BY <2>2
  <2> QED BY <2>2, <2>3, ListsLinked
<1>4. ASSUME NEW c \in Cell, Detouch(c)
      PROVE  Linked'
  <2>1. PICK k \in 1..m : c = u[k]
    BY <1>2, <1>4 DEF Detouch, Lists, Members
  <2>2. LinksTyped
    BY DEF PoolInv
  <2>3. Lists(m - 1, Without(k, m, u), n + 1, Before(c, n, f))'
    BY <1>2, <1>4, <2>1, <2>2, DetouchLists
  <2>4. m - 1 \in Nat /\ n + 1 \in Nat
    OBVIOUS
  <2> QED BY <2>3, <2>4, ListsLinked
<1>5. CASE UNCHANGED links
  <2>1. Lists(m, u, n, f)'
    BY <1>2, <1>5 DEF links, Lists, Chain, Members, Back
  <2> QED BY <2>1, ListsLinked
<1> QED BY <1>3, <1>4, <1>5 DEF PoolNext, TouchNothing

-----------------------------------------------------------------------------
(* The theorems.                                                           *)

\* The invariant, from the start on.
LEMMA PoolInvariance == PoolSpec => []PoolInv
<1>1. PoolInit => PoolInv
  BY InitLinked DEF PoolInv
<1>2. PoolInv /\ [PoolNext]_links => PoolInv'
  BY LinksStep, LinkedStep DEF PoolInv
<1> QED BY <1>1, <1>2, PTL DEF PoolSpec

\* What the enumerations say of the lists that Walk follows.
LEMMA LinkedWalks ==
  ASSUME PoolInv
  PROVE  /\ Walk(used_head)[queue_size] = NULL /\ CellsOf(used_head) = held
         /\ Walk(unused_head)[queue_size] = NULL /\ CellsOf(unused_head) = Cell \ held
<1>1. PICK m, n \in Nat : \E u \in [1..m -> Cell], f \in [1..n -> Cell] : Lists(m, u, n, f)
  BY DEF PoolInv, Linked
<1>2. PICK u \in [1..m -> Cell], f \in [1..n -> Cell] : Lists(m, u, n, f)
  BY <1>1
<1> QED BY <1>2, WalkChain DEF Lists

\* Every link and both heads are null or name a cell of the pool.
THEOREM LinksTypeCorrect == PoolSpec => []LinksTyped
<1>1. PoolInv => LinksTyped
  BY DEF PoolInv
<1> QED BY <1>1, PoolInvariance, PTL

\* Neither list runs in a circle, and between them they hold every cell once:
\* the used list what is handed out, the unused list the rest.
THEOREM ListsPart == PoolSpec => []ListsPartitionCells
<1>1. PoolInv => ListsPartitionCells
  BY LinkedWalks DEF PoolInv, ListsPartitionCells
<1> QED BY <1>1, PoolInvariance, PTL

\* Whichever handed-out cell comes back, its prev is the cell before it, so
\* detouch_mem_cell follows a pointer that is good.
THEOREM PrevIsGood == PoolSpec => []BackLinks
<1>1. ASSUME PoolInv, NEW c \in held
      PROVE  /\ c # used_head => prev[c] \in held /\ next[prev[c]] = c
             /\ next[c] # NULL => prev[next[c]] = c
  <2>1. PICK m, n \in Nat : \E u \in [1..m -> Cell], f \in [1..n -> Cell] : Lists(m, u, n, f)
    BY <1>1 DEF PoolInv, Linked
  <2>2. PICK u \in [1..m -> Cell], f \in [1..n -> Cell] : Lists(m, u, n, f)
    BY <2>1
  <2>3. PICK k \in 1..m : c = u[k]
    BY <2>2 DEF Lists, Members
  <2>4. ASSUME c # used_head
        PROVE  prev[c] \in held /\ next[prev[c]] = c
    <3>1. k # 1 /\ k \in 2..m /\ k - 1 \in 1..m /\ k - 1 # m /\ k - 1 + 1 = k
      BY <2>2, <2>3, <2>4 DEF Lists, Chain
    <3>2. prev[c] = u[k - 1]
      BY <2>2, <2>3, <3>1 DEF Lists, Back
    <3>3. u[k - 1] \in held
      BY <2>2, <3>1, Apart
    <3>4. next[u[k - 1]] = u[k]
      BY <2>2, <3>1 DEF Lists, Chain
    <3> QED BY <2>3, <3>2, <3>3, <3>4
  <2>5. ASSUME next[c] # NULL
        PROVE  prev[next[c]] = c
    <3>1. k # m /\ next[c] = u[k + 1]
      BY <2>2, <2>3, <2>5 DEF Lists, Chain
    <3>2. k + 1 \in 2..m /\ k + 1 - 1 = k
      BY <3>1
    <3> QED BY <2>2, <2>3, <3>1, <3>2 DEF Lists, Back
  <2> QED BY <2>4, <2>5
<1>2. PoolInv => BackLinks
  BY <1>1 DEF BackLinks
<1> QED BY <1>2, PoolInvariance, PTL

\* The linked lists are a pool: touch_mem_cell hands out a cell nobody has and
\* gives up only when there is none, detouch_mem_cell takes one back.
THEOREM RefinesCellPool == PoolSpec => ImplementsCellPool
<1>1. PoolInit => Pool!Init
  <2>1. ASSUME PoolInit PROVE CellsOf(unused_head) = Cell
    BY <2>1, InitLinked, LinkedWalks DEF PoolInv, PoolInit
  <2> QED BY <2>1 DEF Pool!Init
<1> DEFINE Unused == CellsOf(unused_head) = Cell \ held
<1>2. PoolInv => Unused
  BY LinkedWalks
<1>3. PoolInv' => Unused'
  <2> HIDE DEF Unused
  <2> QED BY <1>2, PTL
<1>4. ASSUME PoolInv, PoolInv', [PoolNext]_links
      PROVE  [Pool!Next]_(CellsOf(unused_head))
  <2>1. CellsOf(unused_head) = Cell \ held
    BY <1>2, <1>4
  <2>2. CellsOf(unused_head)' = Cell \ held'
    BY <1>3, <1>4
  <2>3. ASSUME NEW c \in Cell, Touch(c)
        PROVE  Pool!Touch(c)
    <3>1. PICK m, n \in Nat : \E u \in [1..m -> Cell], f \in [1..n -> Cell] : Lists(m, u, n, f)
      BY <1>4 DEF PoolInv, Linked
    <3>2. PICK u \in [1..m -> Cell], f \in [1..n -> Cell] : Lists(m, u, n, f)
      BY <3>1
    <3>3. n # 0 /\ c = f[1]
      BY <2>3, <3>2 DEF Touch, Lists, Chain
    <3>4. c \in Cell \ held /\ held' = held \cup {c}
      BY <2>3, <3>2, <3>3, Apart DEF Touch
    <3> QED BY <2>1, <2>2, <3>4 DEF Pool!Touch
  <2>4. ASSUME NEW c \in Cell, Detouch(c)
        PROVE  Pool!Detouch(c)
    BY <1>4, <2>1, <2>2, <2>4 DEF Pool!Detouch, Detouch, PoolInv, LinksTyped
  <2>5. ASSUME UNCHANGED links
        PROVE  UNCHANGED CellsOf(unused_head)
    BY <2>1, <2>2, <2>5 DEF links
  <2>6. CASE TouchNothing
    BY <2>5, <2>6 DEF TouchNothing
  <2> QED BY <1>4, <2>3, <2>4, <2>5, <2>6 DEF PoolNext, Pool!Next
<1> QED BY <1>1, <1>4, PoolInvariance, PTL DEF PoolSpec, ImplementsCellPool, Pool!Spec
=============================================================================
