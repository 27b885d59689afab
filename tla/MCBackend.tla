------------------------------ MODULE MCBackend ------------------------------
(***************************************************************************)
(* Backend with as many cells as slots: a controller that sends messages   *)
(* of every kind, leaves or resets the connection, and one worker that     *)
(* competes with it for the cells.                                         *)
(***************************************************************************)
EXTENDS Backend, TLC

Symmetry == Permutations(Cell)
=============================================================================
