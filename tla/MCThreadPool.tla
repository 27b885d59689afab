---------------------------- MODULE MCThreadPool ----------------------------
(***************************************************************************)
(* ThreadPool with the three threads that both of its users ask for.       *)
(***************************************************************************)
EXTENDS ThreadPool

\* A bound: what follows a dispatch that raced is not explored where every
\* property leaves it open (it is where DispatchSendsThread is refuted).
UntilRaced == ~raced
=============================================================================
