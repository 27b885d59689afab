----------------------------- MODULE MCRuntime ------------------------------
(***************************************************************************)
(* The two data structures under the threads of the control plane, on      *)
(* small instances.                                                        *)
(*                                                                         *)
(* Fifo on a ring of three slots, two different messages and two           *)
(* consumers: the ring wraps, fills up and empties with one, both or none  *)
(* of the consumers asleep.                                                *)
(*                                                                         *)
(* MemPool with five cells: enough to unlink the head, a middle and the    *)
(* last cell of the used list, to empty either list, and to return cells   *)
(* in every order.                                                         *)
(*                                                                         *)
(* They share no variable and no lock, so that no step of one can make a   *)
(* difference to the other: one of them moves only while the other is as   *)
(* it began, and each is explored in full.                                 *)
(***************************************************************************)
EXTENDS Fifo, MemPool

RuntimeInit == Init /\ PoolInit

FifoMoves == PoolInit /\ Next /\ UNCHANGED links
PoolMoves == Init /\ PoolNext /\ UNCHANGED vars

RuntimeSpec ==
  /\ RuntimeInit
  /\ [][FifoMoves \/ PoolMoves]_<<vars, links>>
  /\ \A c \in Consumer : WF_vars(PoolInit /\ Step(c))
=============================================================================
