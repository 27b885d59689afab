------------------------------ MODULE MemPool -------------------------------
(***************************************************************************)
(* The memory pool of ctrl_plane_backend.c, pointer by pointer.  The cells *)
(* that are handed out are on the list used_head, the others on the list   *)
(* unused_head; next and prev are the links of mem_cell_t.  touch_mem_cell *)
(* and detouch_mem_cell hold memlock from their first to their last access *)
(* to the lists, so each is one action.  A cell is given back by whoever   *)
(* holds it, in any order.                                                 *)
(*                                                                         *)
(* held is not in the code: it is what the callers have got from           *)
(* touch_mem_cell and not yet given back.                                  *)
(***************************************************************************)
EXTENDS Naturals, FiniteSets

CONSTANT queue_size    \* the number of cells, 1000 in controlplane.c.py

ASSUME MemPoolAssumption == queue_size \in Nat \ {0}

Cell == 1..queue_size
NULL == 0
Pointer == Cell \cup {NULL}

VARIABLES unused_head, used_head, next, prev, held

links == <<unused_head, used_head, next, prev, held>>

-----------------------------------------------------------------------------
\* f with f[p] = v, unless p is the null pointer.
Assign(f, p, v) == IF p = NULL THEN f ELSE [f EXCEPT ![p] = v]

\* Faulty variants: a touch that leaves the old used head without a back link, a
\* detouch that takes every cell for the head of the used list, and a touch that
\* does not advance the unused list.
TouchPrevForgotten(cell) == Assign(prev, next[cell], NULL)
UnlinkAsHead(cell) ==
  /\ used_head' = next[cell]
  /\ next' = [next EXCEPT ![cell] = unused_head]
KeepUnusedHead(cell) == cell

-----------------------------------------------------------------------------
\* create_backend links every new cell in front of the unused list and gives
\* all of them a null prev.
FirstNext(c) == c - 1

PoolInit ==
  /\ unused_head = queue_size
  /\ used_head = NULL
  /\ next = [c \in Cell |-> FirstNext(c)]
  /\ prev = [c \in Cell |-> NULL]
  /\ held = {}

-----------------------------------------------------------------------------
\* The unused list without its head, and the back links after a touch.
RestOfUnused(cell) == next[cell]
TouchPrev(cell) == Assign(Assign(prev, next[cell], NULL), used_head, cell)

\* touch_mem_cell moves the head of the unused list to the head of the used
\* one; the prev of the moved cell is left as it is.
Touch(cell) ==
  /\ cell = unused_head /\ cell # NULL
  /\ unused_head' = RestOfUnused(cell)
  /\ prev' = TouchPrev(cell)
  /\ next' = [next EXCEPT ![cell] = used_head]
  /\ used_head' = cell
  /\ held' = held \cup {cell}

\* The pool is empty: touch_mem_cell returns the null pointer.
TouchNothing ==
  /\ unused_head = NULL
  /\ UNCHANGED links

\* The forward links that detouch_mem_cell writes.
Unlink(cell) ==
  IF used_head # cell
  THEN /\ next' = [next EXCEPT ![prev[cell]] = next[cell],
                               ![cell] = unused_head]
       /\ UNCHANGED used_head
  ELSE /\ used_head' = next[cell]
       /\ next' = [next EXCEPT ![cell] = unused_head]

\* The back links that detouch_mem_cell writes.
DetouchPrev(cell) ==
  [Assign(Assign(prev, next[cell], prev[cell]), unused_head, cell)
     EXCEPT ![cell] = NULL]

Detouch(cell) ==
  /\ cell \in held
  /\ Unlink(cell)
  /\ prev' = DetouchPrev(cell)
  /\ unused_head' = cell
  /\ held' = held \ {cell}

PoolNext == TouchNothing \/ \E c \in Cell : Touch(c) \/ Detouch(c)

PoolSpec == PoolInit /\ [][PoolNext]_links

-----------------------------------------------------------------------------
\* Every pointer of the two lists is null or names a cell of the pool.
LinksTyped ==
  /\ unused_head \in Pointer
  /\ used_head \in Pointer
  /\ next \in [Cell -> Pointer]
  /\ prev \in [Cell -> Pointer]
  /\ held \subseteq Cell

\* The nth cell of the list that starts at h, or the null pointer after its
\* end.  queue_size steps pass the end of a list without a cycle.
Walk(h) ==
  LET w[n \in 0..queue_size] ==
        IF n = 0 THEN h
        ELSE IF w[n - 1] = NULL THEN NULL ELSE next[w[n - 1]]
  IN w
CellsOf(h) == {Walk(h)[n] : n \in 0..queue_size} \ {NULL}

\* The pointers keep to the pool, both lists end, and the used list is exactly what is
\* handed out, so destroy_backend (ctrl_plane_backend.c:265-277) frees every cell once.
ListsPartitionCells ==
  /\ LinksTyped
  /\ Walk(used_head)[queue_size] = NULL
  /\ Walk(unused_head)[queue_size] = NULL
  /\ CellsOf(used_head) = held
  /\ CellsOf(unused_head) = Cell \ held

\* A cell that is handed out can be unlinked from the middle of the used list
\* through its prev: unless it is the head, prev names the cell before it, so
\* detouch_mem_cell never follows a null or stale prev
\* (ctrl_plane_backend.c:316-321).
BackLinks ==
  \A c \in held :
    /\ c # used_head => prev[c] \in held /\ next[prev[c]] = c
    /\ next[c] # NULL => prev[next[c]] = c

\* The two lists implement the pool: whatever the order in which cells come
\* back, a cell is never handed out to two holders, and touch_mem_cell fails
\* only when every cell is handed out (ctrl_plane_backend.c:290-330).
Pool == INSTANCE CellPool WITH unused <- CellsOf(unused_head)
ImplementsCellPool == Pool!Spec
=============================================================================
