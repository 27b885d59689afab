------------------------------ MODULE CellPool ------------------------------
(***************************************************************************)
(* What the backend's pool of message buffers promises: a fixed set of     *)
(* cells; touch_mem_cell hands out a cell nobody has, or the null pointer  *)
(* when there is none; detouch_mem_cell takes a cell back.  Module MemPool *)
(* implements this with two linked lists; Backend builds on it.            *)
(***************************************************************************)
CONSTANT Cell     \* the cells create_backend allocates

VARIABLE unused   \* the cells nobody has

Init == unused = Cell

\* touch_mem_cell returns the unused cell c.
Touch(c) ==
  /\ c \in unused
  /\ unused' = unused \ {c}

\* touch_mem_cell returns the null pointer.
TouchNothing ==
  /\ unused = {}
  /\ UNCHANGED unused

\* detouch_mem_cell gives back c, which its caller holds.
Detouch(c) ==
  /\ c \in Cell \ unused
  /\ unused' = unused \cup {c}

Next == TouchNothing \/ \E c \in Cell : Touch(c) \/ Detouch(c)

Spec == Init /\ [][Next]_unused
=============================================================================
