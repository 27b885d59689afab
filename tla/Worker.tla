-------------------------------- MODULE Worker --------------------------------
(***************************************************************************)
(* main_odp.c: the loop of one worker of the switch (the others share only *)
(* the tables and, where there are too few, the queues with it).  A round  *)
(* receives a burst from the next of its interfaces, puts each packet into *)
(* the transmit buffer of an interface, or a copy into those of all others,*)
(* and at the end sends every buffer but that of the interface the burst   *)
(* came from.                                                              *)
(*                                                                         *)
(* What the tables do with a packet (module Tables) is an egress port, a   *)
(* parameter of an action that nobody compares with the number of          *)
(* interfaces.  pd->dropped is set by the action drop, and read by nobody: *)
(* a packet that is to be dropped goes to port 0, where the metadata was   *)
(* reset to.  Of a packet, and of a copy, the model keeps the interface it *)
(* came from.                                                              *)
(***************************************************************************)
EXTENDS Startup, Integers

CONSTANTS
  MAX_PKT_BURST,
  EgressPort,       \* the ports the controller's actions may name
  MaxPackets        \* bound: the packets a worker receives

ASSUME WorkerAssumption ==
  MAX_PKT_BURST \in Nat \ {0} /\ MaxPackets \in Nat /\ EgressPort \subseteq Int

VARIABLES
  me,               \* this worker, or None
  at,               \* "receive", "forward", "flush" or "exit"
  idx,              \* the interface to poll next
  port_in,          \* where pkt_tbl was received
  pkt_tbl,          \* how many of the burst are left
  buf,              \* buf[p]: tx_pktios[p].buf, the transmit buffer of port p
  received,         \* how many packets were received
  allocated,        \* packets of the pool that are in use
  mishaps           \* history: "hairpin", "unserved", "outside", "copy", "alone" and
                    \* "send", each once it has happened

loop == <<me, at, idx, port_in, pkt_tbl, buf, received, allocated, mishaps>>
vars == <<startup, loop, process>>

BroadcastPort == 100

\* The ports it sends to: if_count as it is in appl.
Ports == 0 .. appl.if_count - 1

\* The entries of the array tx_pktios, for every one of which there is a buffer.
Entries == 0 .. MAX_PKTIOS - 1

WorkerInit ==
  /\ Init
  /\ me = None /\ at = "none" /\ idx = 1 /\ port_in = -1 /\ pkt_tbl = 0
  /\ buf = <<>> /\ received = 0 /\ allocated = 0 /\ mishaps = {}

\* The main thread has created the worker, and may be creating others.
Enter ==
  /\ at = "none" /\ at' = "receive"
  /\ \E w \in DOMAIN cpu_of : me' = w - 1
  /\ buf' = [p \in Entries |-> <<>>]
  /\ UNCHANGED <<startup, idx, port_in, pkt_tbl, received, allocated, mishaps, process>>

\* odp_pktin_recv_tmo of the next interface, which receives nothing without a
\* queue; a round that received nothing ends here, and sends nothing.
Available == IF me \in bound.workers THEN Least(MAX_PKT_BURST, MaxPackets - received) ELSE 0
Receive ==
  /\ at = "receive"
  /\ LET rx == Rx(config, me)
     IN port_in' = rx[idx] /\ idx' = IF idx = Len(rx) THEN 1 ELSE idx + 1
  /\ \E n \in 0 .. Available :
       /\ pkt_tbl' = n
       /\ received' = received + n /\ allocated' = allocated + n
       /\ at' = IF n = 0 THEN "receive" ELSE "forward"
  /\ UNCHANGED <<startup, me, buf, mishaps, process>>

\* exit_threads, which SIGINT sets, is tested between two rounds.
Exit ==
  /\ at = "receive" /\ at' = "exit"
  /\ UNCHANGED <<startup, me, idx, port_in, pkt_tbl, buf, received, allocated, mishaps, process>>

\* pkt_buf_t has MAX_PKT_BURST slots, and len behind them.
Slots == MAX_PKT_BURST

\* buf.pkt[buf.len] = pkt, for each of the ports P.
Buffer(P) ==
  /\ buf' = [p \in Entries |-> IF p \in P THEN Append(buf[p], port_in) ELSE buf[p]]
  /\ process' = IF \E p \in P : Len(buf[p]) >= Slots THEN "undefined" ELSE process

Forwarded ==
  /\ pkt_tbl' = pkt_tbl - 1
  /\ at' = IF pkt_tbl = 1 THEN "flush" ELSE at
  /\ UNCHANGED <<startup, me, idx, port_in, received>>

\* What can be wrong with a port: it is the one the packet came from, or has a
\* buffer that no round sends, or has none.
Mishap(port) ==
  IF port \in Ports THEN IF port = port_in THEN {"hairpin"} ELSE {}
  ELSE IF port \in Entries THEN {"unserved"} ELSE {"outside"}

\* send_packet with an egress port: any port a controller may have named, without
\* a test.  Behind the array it writes where tx_pktios is not.
Unicast(port) ==
  /\ at = "forward"
  /\ IF port \in Entries THEN Buffer({port}) ELSE process' = "undefined" /\ UNCHANGED buf
  /\ mishaps' = mishaps \union Mishap(port)
  /\ UNCHANGED allocated /\ Forwarded

\* What a broadcast frees: the original.  A mutant that does not.
Kept == 0
Freed == 1

\* maco_bcast_packet: a copy for every other port, the first of them made in
\* advance; a copy that fails is left out.
Broadcast ==
  /\ at = "forward"
  /\ LET others == Ports \ {port_in}
         first  == CHOOSE p \in others : \A q \in others : p <= q
     IN \/ /\ others # {}
           /\ \E failing \in SUBSET (others \ {first}) :
                /\ Buffer(others \ failing)
                /\ allocated' = allocated + Cardinality(others \ failing) - Freed
           /\ UNCHANGED mishaps
        \* With one port the copy made in advance is not used, and not freed.
        \/ /\ others = {}
           /\ Buffer({}) /\ allocated' = allocated + 1 - Freed
           /\ mishaps' = mishaps \union {"alone"}
  /\ Forwarded

\* The first copy failed: the original is not freed.
BroadcastFails ==
  /\ at = "forward"
  /\ Buffer({}) /\ UNCHANGED allocated
  /\ mishaps' = mishaps \union {"copy"}
  /\ Forwarded

\* The ports a round sends to; a mutant that waits for a full buffer, as the code
\* that was commented out does.
FullOnly == {p \in Ports \ {port_in} : Len(buf[p]) = MAX_PKT_BURST}
Sending == {p \in Ports \ {port_in} : buf[p] # <<>>}

\* How many packets are in the buffers of the ports P.
Waiting(P) == FoldSet(LAMBDA p, n : n + Len(buf[p]), 0, P)

\* maco_send_burst for each of them: what is not sent is freed.
Flush ==
  /\ at = "flush"
  /\ buf' = [p \in Entries |-> IF p \in Sending THEN <<>> ELSE buf[p]]
  /\ allocated' = allocated - Waiting(Sending)
  /\ at' = "receive"
  /\ UNCHANGED <<startup, me, idx, port_in, pkt_tbl, received, mishaps, process>>

\* odp_pktout_send fails: its -1 in sent, a uint16_t, is not less than 0, and
\* drops is more than was to be sent.
SendFails ==
  /\ at = "flush" /\ Sending # {}
  /\ process' = "undefined" /\ mishaps' = mishaps \union {"send"}
  /\ UNCHANGED <<startup, me, at, idx, port_in, pkt_tbl, buf, received, allocated>>

\* After SIGINT every worker leaves its loop, and the main thread returns.
Join ==
  /\ stage = "join" /\ at = "exit"
  /\ process' = "exited" /\ UNCHANGED <<startup, loop>>

Next ==
  /\ process = "running"
  /\ \/ maco_initialize /\ UNCHANGED loop
     \/ Enter \/ Receive \/ Exit \/ Broadcast \/ BroadcastFails \/ Flush \/ SendFails
     \/ \E p \in EgressPort \ {BroadcastPort} : Unicast(p)
     \/ Join

Spec == WorkerInit /\ [][Next]_vars

-----------------------------------------------------------------------------
\* As long as no packet was sent back to the port it came from, every round begins
\* with empty buffers, and no buffer overflows, whatever the order of bursts,
\* broadcasts and empty polls; and what does wait came from that very port.  It
\* takes a controller that names a port of no interface to fill the buffer of one,
\* which is never sent and overflows in the end, or to write outside of them.
NothingWaits ==
  /\ at = "receive" =>
       /\ \A p \in Ports : \A i \in DOMAIN buf[p] : buf[p][i] = p
       /\ "unserved" \notin mishaps => \A p \in Entries \ Ports : buf[p] = <<>>
  /\ at # "none" /\ process = "undefined" =>
       mishaps \intersect {"hairpin", "unserved", "outside", "send"} # {}

\* The packets of the pool in use are those in pkt_tbl and in the buffers, those of
\* ports without an interface included, which stay there for ever: none is lost
\* otherwise and none is freed twice, except where the first copy of a broadcast
\* fails or there is no other port to send one to.
PoolBalance ==
  at # "none" /\ process = "running" /\ mishaps \intersect {"copy", "alone"} = {} =>
    allocated = pkt_tbl + Waiting(Entries)
==============================================================================
