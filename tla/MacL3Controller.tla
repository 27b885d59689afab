--------------------------- MODULE MacL3Controller ---------------------------
(***************************************************************************)
(* ctrl_plane/mac_l3_controller.c, the controller of a router that looks   *)
(* the next hop up in one table (examples/p4_src/l3_routing_test.p4).      *)
(***************************************************************************)
EXTENDS P4Message

CONSTANT MAX_MACS

\* A mutant: the parameters in the other order.
PortFirst(ip, port, mac) ==
  AddTableEntry("ipv4_fib_lpm", <<Exact("ipv4.dstAddr", ip, 32)>>, "fib_hit_nexthop",
                <<Param("port", port, 16), Param("dmac", mac, 48)>>)

\* The key is sent as an exact match although the table matches prefixes.
fill_ipv4_fib_lpm_table(ip, port, mac) ==
  AddTableEntry("ipv4_fib_lpm", <<Exact("ipv4.dstAddr", ip, 32)>>, "fib_hit_nexthop",
                <<Param("dmac", mac, 48), Param("port", port, 16)>>)

fill_sendout_table(port, smac) ==
  AddTableEntry("sendout", <<Exact("standard_metadata.egress_port", port, 16)>>,
                "rewrite_src_mac", <<Param("smac", smac, 48)>>)

\* Digests are ignored.
dhf(digest) == <<>>

\* As in MacController: a line of the wrong format ends the program, and lines
\* beyond MAX_MACS are left out.
read_macs_and_ports_from_file(lines) ==
  LET Wrong(i) == i \in DOMAIN lines /\ lines[i] = WrongFormat
      entries  == IF Len(lines) < MAX_MACS THEN Len(lines) ELSE MAX_MACS
  IN IF \E i \in 1 .. MAX_MACS + 1 : Wrong(i)
     THEN NotRead
     ELSE [i \in 1 .. entries |-> [lines[i] EXCEPT !.port = Byte(@)]]

init(entries) ==
  [k \in 1 .. 2 * Len(entries) |->
     LET e == entries[(k + 1) \div 2]
     IN IF k % 2 = 1 THEN fill_ipv4_fib_lpm_table(e.ip, e.port, e.mac)
                     ELSE fill_sendout_table(e.port, "d0:69:0f:a8:39:90")]
==============================================================================
