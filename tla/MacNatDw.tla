------------------------------ MODULE MacNatDw -------------------------------
(***************************************************************************)
(* ctrl_plane/mac_nat_dw.c, the controller of a NAT for traffic that goes  *)
(* from the external to the internal side (examples/p4_src/nat.p4).        *)
(***************************************************************************)
EXTENDS P4Message

CONSTANT MAX_MACS

set_default_action_nat_up == SetDefaultAction("nat_up", "natTcp_learn", <<>>)
set_default_action_nat_dw == SetDefaultAction("nat_dw", "_drop", <<>>)

fill_if_info(is_int_if) ==
  AddTableEntry("if_info", <<Exact("standard_metadata.ingress_port", is_int_if, 16)>>,
                "set_if_info", <<Param("is_int_if", is_int_if, 16)>>)

fill_smac(mac) ==
  AddTableEntry("smac", <<Exact("ethernet.srcAddr", mac, 48)>>, "_nop", <<>>)

\* Only the low byte of the TCP port is put into the key.
fill_nat_dw(dstPort, ip) ==
  AddTableEntry("nat_dw", <<Exact("tcp.dstPort", Byte(dstPort), 16)>>,
                "nat_hit_ext_to_int", <<Param("dstAddr", ip, 32)>>)

fill_ipv4_lpm(dst_ip, port, dst_mac) ==
  AddTableEntry("ipv4_lpm", <<Exact("ipv4.dstAddr", dst_ip, 32)>>, "set_nhop",
                <<Param("port", port, 16), Param("dstAddr", dst_mac, 48)>>)

fill_sendout_table(port, src_mac) ==
  AddTableEntry("sendout", <<Exact("standard_metadata.egress_port", port, 16)>>,
                "rewrite_src_mac", <<Param("srcAddr", src_mac, 48)>>)

\* Digests are ignored.
dhf(digest) == <<>>

read_macs_and_ports_from_file(lines) ==
  LET Wrong(i) == i \in DOMAIN lines /\ lines[i] = WrongFormat
      entries  == IF Len(lines) < MAX_MACS THEN Len(lines) ELSE MAX_MACS
  IN IF \E i \in 1 .. MAX_MACS + 1 : Wrong(i)
     THEN NotRead
     ELSE [i \in 1 .. entries |-> [lines[i] EXCEPT !.port = Byte(@)]]

\* The internal host's MAC is read from where its address is kept, and its port
\* is always 1, whatever the file says.
init(entries) ==
  <<set_default_action_nat_up, set_default_action_nat_dw,
    fill_smac("00:55:00:00:00:00"), fill_if_info(0), fill_nat_dw(25, "10.0.0.10"),
    fill_ipv4_lpm("10.0.0.10", 1, "10.0.0.10"),
    fill_sendout_table(1, "aa:bb:cc:aa:dd:ee")>>
  \o [k \in 1 .. 3 * Len(entries) |->
        LET e == entries[(k + 2) \div 3]
        IN CASE k % 3 = 1 -> fill_smac(e.mac)
             [] k % 3 = 2 -> fill_nat_dw(e.dstPort, e.ip)
             [] k % 3 = 0 -> fill_ipv4_lpm(e.ip, 1, e.ip)]
==============================================================================
