------------------------------- MODULE Affinity -------------------------------
(***************************************************************************)
(* Which interfaces and which of their queues a worker receives from and   *)
(* sends to: macs_set_worker_afinity and macs_set_queue_afinity, and the   *)
(* number of queues create_pktio configures in between.  A configuration   *)
(* is                                                                      *)
(*   [if_count, num_workers, max_input_queues, max_output_queues]          *)
(* of which the last two are what the interfaces are capable of.  Workers  *)
(* and interfaces are numbered from 0, as in the code.                     *)
(***************************************************************************)
EXTENDS Naturals, Sequences, FiniteSets, SequencesExt

Interfaces(c) == 0 .. c.if_count - 1
Workers(c) == 0 .. c.num_workers - 1

\* macs_set_worker_afinity: worker w receives from interface i.  With fewer workers
\* than interfaces these are given to the workers in turn, otherwise the workers to
\* the interfaces.
Polls(c, w, i) ==
  IF c.if_count > c.num_workers THEN i % c.num_workers = w ELSE w % c.if_count = i

\* Those of a worker, in the order in which it polls them.
Rx(c, w) == SetToSortSeq({i \in Interfaces(c) : Polls(c, w, i)}, <)

\* num_rx_thr of an interface.
Receivers(c, i) == {w \in Workers(c) : Polls(c, w, i)}

Least(m, n) == IF m < n THEN m ELSE n

\* create_pktio: a queue for every worker, or as many as there are, and then they
\* are set up to be shared.
num_rx_queue(c, i) == Least(Cardinality(Receivers(c, i)), c.max_input_queues)
num_tx_queue(c, i) == Least(c.num_workers, c.max_output_queues)
RxShared(c, i) == Cardinality(Receivers(c, i)) > c.max_input_queues
TxShared(c, i) == c.num_workers > c.max_output_queues

\* How the next queue is found; a mutant that stays one short of the last.
OneShort(queue, queues) == IF queue + 1 >= queues - 1 THEN 0 ELSE queue + 1
NextQueue(queue, queues) == IF queue + 1 >= queues THEN 0 ELSE queue + 1

\* The queue the n-th user of an interface is given, from 0.
QueueOf(n, queues) ==
  LET next[k \in 0 .. n] == IF k = 0 THEN 0 ELSE NextQueue(next[k - 1], queues)
  IN next[n]

\* macs_set_queue_afinity: the workers in their order, each from the queue the one
\* before has left as the next.
RxQueue(c, w, i) ==
  QueueOf(Cardinality({v \in Receivers(c, i) : v < w}), num_rx_queue(c, i))
TxQueue(c, w, i) == QueueOf(w, num_tx_queue(c, i))

-----------------------------------------------------------------------------
\* Two workers never use one queue of an interface unless it was set up for that
\* (an ODP_PKTIO_OP_MT_UNSAFE queue has one user), and every interface is received
\* from by somebody, on each of its queues, so that no packet waits in a queue
\* nobody polls (odp_lib.c:766-772).
QueuesServed(c) ==
  \A i \in Interfaces(c) :
    /\ \A v, w \in Receivers(c, i) :
         v # w /\ RxQueue(c, v, i) = RxQueue(c, w, i) => RxShared(c, i)
    /\ \A v, w \in Workers(c) :
         v # w /\ TxQueue(c, v, i) = TxQueue(c, w, i) => TxShared(c, i)
    /\ Receivers(c, i) # {}
    /\ {RxQueue(c, w, i) : w \in Receivers(c, i)} = 0 .. num_rx_queue(c, i) - 1
==============================================================================
