---------------------------- MODULE MCController ----------------------------
(***************************************************************************)
(* Two switches, of which the second may get the descriptor of the first,  *)
(* three threads, an init script of one default action, no entry sent      *)
(* before the controller waits for switches, two digests, and queues of    *)
(* three slots, so that the output queue can overflow.  One switch may     *)
(* leave.                                                                  *)
(***************************************************************************)
EXTENDS Controller

MCStartup == <<>>
MCScript == <<set_default_action_smac>>
==============================================================================
