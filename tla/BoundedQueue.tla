---------------------------- MODULE BoundedQueue ----------------------------
(***************************************************************************)
(* What a message queue of the control plane promises to the threads that  *)
(* share it: a first-in first-out queue of at most Capacity elements.  An  *)
(* element added to a full queue is not queued, and the caller is not told *)
(* (fifo_add_msg returns the queue in both cases); a removal from an empty *)
(* queue returns None at once.  Module Fifo implements this; Backend and   *)
(* Controller use it as the meaning of their input and output queues.      *)
(***************************************************************************)
EXTENDS Naturals, Sequences

CONSTANTS
  Element,    \* what is queued: pointers to messages
  Reader,     \* the threads that remove elements
  Capacity,   \* P4_BG_QUEUE_SIZE
  None        \* the null pointer

VARIABLES
  q,          \* the queued elements, the oldest first
  out         \* out[r]: what the last removal of r returned

-----------------------------------------------------------------------------
\* The effect of fifo_add_msg on the queue alone.
Put(e) == q' = IF Len(q) < Capacity THEN Append(q, e) ELSE q

\* The effect on the queue alone of a fifo_remove_msg that finds an element.
Take == q # <<>> /\ q' = Tail(q)

-----------------------------------------------------------------------------
Init ==
  /\ q = <<>>
  /\ out = [r \in Reader |-> None]

Add(e) == Put(e) /\ UNCHANGED out

RemoveOldest(r) ==
  /\ Take
  /\ out' = [out EXCEPT ![r] = Head(q)]

RemoveNothing(r) ==
  /\ q = <<>>
  /\ out' = [out EXCEPT ![r] = None]
  /\ UNCHANGED q

\* The reader is done with the element it removed.
Release(r) ==
  /\ out' = [out EXCEPT ![r] = None]
  /\ UNCHANGED q

Next ==
  \/ \E e \in Element : Add(e)
  \/ \E r \in Reader : RemoveOldest(r) \/ RemoveNothing(r) \/ Release(r)

Spec == Init /\ [][Next]_<<q, out>>
=============================================================================
