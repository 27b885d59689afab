------------------------------ MODULE MCWorker ------------------------------
(***************************************************************************)
(* Up to four interfaces, as many as there are slots for, and more workers *)
(* than there are slots for; interfaces capable of one queue or of three;  *)
(* machines of one and of five CPUs; bursts of two packets and four        *)
(* packets in all, enough for a buffer to be filled by one round and to    *)
(* overflow in the next.  A controller names every port that has a buffer, *)
(* with an interface or without, and the 15 of mac_l3_nhg_controller.c.    *)
(***************************************************************************)
EXTENDS Worker

Options ==
  {[cpu_count |-> n, cpu_mask |-> None] : n \in 0 .. 4}
    \union [cpu_count : {0, 4}, cpu_mask : {{1, 2, 4}, {2}, {0, 1}, {}}]
MCArguments ==
  {[cpus |-> m, if_count |-> i, cpu_count |-> o.cpu_count, cpu_mask |-> o.cpu_mask] :
     m \in {1, 5}, i \in 0 .. 5, o \in Options}
MCEgressPort == 0 .. 3 \union {15}
MCCapabilities == [max_input_queues : {1, 3}, max_output_queues : {1, 3}]
==============================================================================
