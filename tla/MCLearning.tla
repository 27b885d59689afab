----------------------------- MODULE MCLearning -----------------------------
(***************************************************************************)
(* One switch with one worker and two cells, two addresses and two         *)
(* digests, a controller with three threads, an empty init script, and     *)
(* queues of two slots, so that the controller's output queue can overflow *)
(* and the switch's pool can run dry.                                      *)
(***************************************************************************)
EXTENDS Learning

MCStartup == <<>>
MCScript == <<>>
=============================================================================
