------------------------- MODULE MacL3NhgController --------------------------
(***************************************************************************)
(* ctrl_plane/mac_l3_nhg_controller.c, the controller of a router with     *)
(* next-hop groups (examples/p4_src/l3_routing_nhg.p4).                    *)
(***************************************************************************)
EXTENDS P4Message

fill_ipv4_lpm_table(ip, nhgrp) ==
  AddTableEntry("ipv4_lpm", <<Lpm("ipv4.dstAddr", ip, 16)>>,
                "set_nhop", <<Param("nhgroup", nhgrp, 32)>>)

fill_nexthops_table(nhgroup, port, smac, dmac) ==
  AddTableEntry("nexthops", <<Exact("routing_metadata.nhgroup", nhgroup, 32)>>, "forward",
                <<Param("dmac", dmac, 48), Param("smac", smac, 48), Param("port", port, 16)>>)

\* Digests are ignored.
dhf(digest) == <<>>

init_simple ==
  <<fill_ipv4_lpm_table("10.0.99.99", 0),
    fill_nexthops_table(0, 15, "d2:69:0f:00:00:9c", "d2:69:0f:a8:39:9c")>>

read_ip_prefixes_from_file(lines) ==
  IF \E i \in DOMAIN lines : lines[i] = WrongFormat THEN NotRead ELSE lines

init_complex(ips) ==
  [i \in DOMAIN ips |-> fill_ipv4_lpm_table(ips[i].ip, 0)]
  \o <<fill_nexthops_table(0, 1, "d2:69:0f:00:00:9c", "d2:69:0f:a8:39:9c")>>
==============================================================================
