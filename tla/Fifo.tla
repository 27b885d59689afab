-------------------------------- MODULE Fifo --------------------------------
(***************************************************************************)
(* fifo.c: the ring of message pointers that links the threads of the      *)
(* control plane, its mutex and its condition variable not_empty.          *)
(*                                                                         *)
(* Every function of fifo.c does all its work between one lock and one     *)
(* unlock, so each is one action; pthread_cond_wait, which gives the lock  *)
(* up, splits fifo_wait in two.  The consumers run the loop that all four  *)
(* users of the queue share (input_processor and output_processor of the   *)
(* backend and of the controller):                                         *)
(*                                                                         *)
(*     while (1) { fifo_wait(q); m = fifo_remove_msg(q);                   *)
(*                 if (m == 0) continue;  ...use and release m... }        *)
(*                                                                         *)
(* Nobody ever waits on the condition variable `empty', which is not       *)
(* modelled.  Any thread may add an element at any time.                   *)
(***************************************************************************)
EXTENDS Integers, FiniteSets, Sequences

CONSTANTS
  Element,           \* pointers to messages
  Consumer,          \* threads running the loop above on this queue
  P4_BG_QUEUE_SIZE,  \* slots of the ring, 1024 in fifo.h
  None               \* the null pointer

ASSUME FifoAssumption ==
  /\ P4_BG_QUEUE_SIZE \in Nat \ {0}
  /\ IsFiniteSet(Consumer)
  /\ None \notin Element

VARIABLES
  queue, head, size, tail,  \* fifo_t
  asleep,                   \* consumers blocked in pthread_cond_wait
  pc,                       \* where each consumer is in its loop
  result                    \* what its last fifo_remove_msg returned

ring == <<queue, head, size, tail>>
vars == <<queue, head, size, tail, asleep, pc, result>>

Slot == 0 .. P4_BG_QUEUE_SIZE - 1
Location == {"fifo_wait", "waiting", "fifo_remove_msg", "use"}

-----------------------------------------------------------------------------
\* Faulty variants of the operators below, for the mutants of PROJECT.json:
\* an index that wraps one slot late, an add that takes a full queue for one
\* with room, a removal at the wrong end, a signal only when the queue was
\* empty, and no signal at all.
FollowingLate(i) == (i + 1) % (P4_BG_QUEUE_SIZE + 1)
RoomAlways == TRUE
Youngest == queue[tail]
SignalOnlyFirst ==
  \/ (asleep = {} \/ size > 0) /\ UNCHANGED asleep
  \/ size = 0 /\ \E c \in asleep : asleep' = asleep \ {c}
SignalNobody == UNCHANGED asleep

-----------------------------------------------------------------------------
\* The index after i in the ring.
Following(i) == (i + 1) % P4_BG_QUEUE_SIZE

Room == size < P4_BG_QUEUE_SIZE
Oldest == queue[head]

\* The queued elements, the oldest first: size slots from head on.
Contents == [i \in 1..size |-> queue[(head + i - 1) % P4_BG_QUEUE_SIZE]]

-----------------------------------------------------------------------------
Init ==
  /\ queue = [i \in Slot |-> None]
  /\ head = 0
  /\ size = 0
  /\ tail = -1
  /\ asleep = {}
  /\ pc = [c \in Consumer |-> "fifo_wait"]
  /\ result = [c \in Consumer |-> None]

-----------------------------------------------------------------------------
\* pthread_cond_signal(&not_empty): one sleeper is woken, if there is one.
SignalNotEmpty ==
  \/ asleep = {} /\ UNCHANGED asleep
  \/ \E c \in asleep : asleep' = asleep \ {c}

\* The ring part of fifo_add_msg when there is room.
Store(e) ==
  /\ Room
  /\ tail' = Following(tail)
  /\ size' = size + 1
  /\ queue' = [queue EXCEPT ![Following(tail)] = e]
  /\ UNCHANGED head

fifo_add_msg(e) ==
  /\ \/ Store(e) /\ SignalNotEmpty
     \/ ~Room /\ UNCHANGED <<ring, asleep>>   \* dropped; the caller is not told
  /\ UNCHANGED <<pc, result>>

\* fifo_wait tests size once; it does not loop around the wait.
fifo_wait(c) ==
  /\ pc[c] = "fifo_wait"
  /\ IF size = 0
     THEN /\ asleep' = asleep \cup {c}
          /\ pc' = [pc EXCEPT ![c] = "waiting"]
     ELSE /\ pc' = [pc EXCEPT ![c] = "fifo_remove_msg"]
          /\ UNCHANGED asleep
  /\ UNCHANGED <<ring, result>>

\* A signalled consumer gets the lock back and leaves fifo_wait.
ReturnFromWait(c) ==
  /\ pc[c] = "waiting" /\ c \notin asleep
  /\ pc' = [pc EXCEPT ![c] = "fifo_remove_msg"]
  /\ UNCHANGED <<ring, asleep, result>>

\* POSIX lets pthread_cond_wait return without a signal.
SpuriousWakeup(c) ==
  /\ c \in asleep
  /\ asleep' = asleep \ {c}
  /\ UNCHANGED <<ring, pc, result>>

fifo_remove_msg(c) ==
  /\ pc[c] = "fifo_remove_msg"
  /\ IF size > 0
     THEN /\ result' = [result EXCEPT ![c] = Oldest]
          /\ head' = Following(head)
          /\ size' = size - 1
          /\ pc' = [pc EXCEPT ![c] = "use"]
          /\ UNCHANGED <<queue, tail>>
     ELSE /\ result' = [result EXCEPT ![c] = None]
          /\ pc' = [pc EXCEPT ![c] = "fifo_wait"]
          /\ UNCHANGED ring
  /\ UNCHANGED asleep

\* The consumer handles what it removed and goes round its loop.
Use(c) ==
  /\ pc[c] = "use"
  /\ pc' = [pc EXCEPT ![c] = "fifo_wait"]
  /\ result' = [result EXCEPT ![c] = None]
  /\ UNCHANGED <<ring, asleep>>

-----------------------------------------------------------------------------
Step(c) == fifo_wait(c) \/ ReturnFromWait(c) \/ fifo_remove_msg(c) \/ Use(c)

Next ==
  \/ \E e \in Element : fifo_add_msg(e)
  \/ \E c \in Consumer : Step(c) \/ SpuriousWakeup(c)

Spec == Init /\ [][Next]_vars

\* The operating system runs every consumer that can run; nothing makes a
\* producer produce, and no spurious wakeup is ever owed to anybody.
FairSpec == Spec /\ \A c \in Consumer : WF_vars(Step(c))

-----------------------------------------------------------------------------
TypeOK ==
  /\ queue \in [Slot -> Element \cup {None}]
  /\ head \in Slot
  /\ size \in 0..P4_BG_QUEUE_SIZE
  /\ tail \in -1 .. P4_BG_QUEUE_SIZE - 1
  /\ asleep \subseteq Consumer
  /\ pc \in [Consumer -> Location]
  /\ result \in [Consumer -> Element \cup {None}]

IndicesAgree ==
  /\ (head + size) % P4_BG_QUEUE_SIZE = Following(tail)
  /\ \A i \in 1..size : queue[(head + i - 1) % P4_BG_QUEUE_SIZE] \in Element

\* Every variable keeps to its type, head inside the ring and size within its
\* bound, and the three indices of fifo_t agree: tail is the slot of the youngest
\* element, the size-th slot from head on, and every slot between the two
\* holds an element somebody added.  fifo_init's tail = -1 stands for "the
\* slot before 0", which is where it is when the queue is empty at head = 0.
RingInv == TypeOK /\ IndicesAgree

\* A consumer sleeps only inside fifo_wait.
SleepersWait == \A c \in asleep : pc[c] = "waiting"

\* No lost wakeup: as long as somebody sleeps in fifo_wait there is a
\* consumer awake for every queued element (fifo.c:55 signals on every add,
\* and one signal wakes one thread), however often a consumer that was
\* signalled finds that another one took the element first.
WakeupsKeepUp ==
  asleep # {} => size <= Cardinality(Consumer \ asleep)

\* The ring with its lock and its condition variable implements the bounded
\* queue: adds and removes take effect in first-in first-out order, a full
\* queue is left as it is, nothing is returned twice, and no thread ever reads
\* a slot that was not written since its last use (fifo.c:47-77).
Queue == INSTANCE BoundedQueue
           WITH q <- Contents, out <- result, Reader <- Consumer,
                Capacity <- P4_BG_QUEUE_SIZE
ImplementsBoundedQueue == Queue!Spec

\* Every element that got into the queue is handed to a consumer sooner or
\* later: fifo_wait's single test of size leaves nobody asleep forever beside a
\* non-empty queue (fifo.c:89-97).
Queued(e) == \E i \in 1..size : Contents[i] = e
EventuallyRemoved ==
  \A e \in Element : Queued(e) ~> (\E c \in Consumer : result[c] = e)
=============================================================================
