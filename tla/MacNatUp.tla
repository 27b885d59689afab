------------------------------ MODULE MacNatUp -------------------------------
(***************************************************************************)
(* ctrl_plane/mac_nat_up.c, the controller of a NAT for traffic that goes  *)
(* from the internal to the external side (examples/p4_src/nat.p4).        *)
(***************************************************************************)
EXTENDS P4Message

CONSTANT MAX_MACS

set_default_action_ipv4_lpm == SetDefaultAction("ipv4_lpm", "_drop", <<>>)
set_default_action_nat_up == SetDefaultAction("nat_up", "natTcp_learn", <<>>)
set_default_action_nat_dw == SetDefaultAction("nat_dw", "_drop", <<>>)

\* Port 0 is the only one that is said to be internal or external.
fill_if_info(is_int_if) ==
  AddTableEntry("if_info", <<Exact("standard_metadata.ingress_port", 0, 16)>>,
                "set_if_info", <<Param("is_int_if", is_int_if, 16)>>)

fill_smac(mac) ==
  AddTableEntry("smac", <<Exact("ethernet.srcAddr", mac, 48)>>, "_nop", <<>>)

fill_nat_up(ip, ipn) ==
  AddTableEntry("nat_up", <<Exact("ipv4.srcAddr", ip, 32)>>,
                "nat_hit_int_to_ext", <<Param("srcAddr", ipn, 32)>>)

fill_ipv4_lpm(dst_ip, port, dst_mac) ==
  AddTableEntry("ipv4_lpm", <<Exact("ipv4.dstAddr", dst_ip, 32)>>, "set_nhop",
                <<Param("port", port, 16), Param("dstAddr", dst_mac, 48)>>)

fill_sendout_table(port, src_mac) ==
  AddTableEntry("sendout", <<Exact("standard_metadata.egress_port", port, 16)>>,
                "rewrite_src_mac", <<Param("srcAddr", src_mac, 48)>>)

\* Digests are ignored, natTcp_learn's among them.
dhf(digest) == <<>>

read_macs_and_ports_from_file(lines) ==
  LET Wrong(i) == i \in DOMAIN lines /\ lines[i] = WrongFormat
      entries  == IF Len(lines) < MAX_MACS THEN Len(lines) ELSE MAX_MACS
  IN IF \E i \in 1 .. MAX_MACS + 1 : Wrong(i)
     THEN NotRead
     ELSE [i \in 1 .. entries |-> [lines[i] EXCEPT !.port = Byte(@)]]

\* Four messages for each line of the file.
init(entries) ==
  <<set_default_action_nat_up, set_default_action_nat_dw, set_default_action_ipv4_lpm,
    fill_if_info(1)>>
  \o [k \in 1 .. 4 * Len(entries) |->
        LET e == entries[(k + 3) \div 4]
        IN CASE k % 4 = 1 -> fill_smac(e.smac)
             [] k % 4 = 2 -> fill_nat_up(e.ip, e.ipn)
             [] k % 4 = 3 -> fill_ipv4_lpm(e.ipd, e.port, e.dmac)
             [] k % 4 = 0 -> fill_sendout_table(e.port, "aa:bb:cc:aa:dd:ee")]
==============================================================================
