-------------------------- MODULE MacL2L3Controller --------------------------
(***************************************************************************)
(* ctrl_plane/mac_l2_l3_controller.c, the controller of a switch that both *)
(* bridges and routes (examples/p4_src/l2_l3.p4).                          *)
(***************************************************************************)
EXTENDS P4Message

fill_smac_table(port, mac) ==
  AddTableEntry("smac", <<Exact("ethernet.srcAddr", mac, 48)>>, "_nop", <<>>)

fill_dmac_table(port, mac) ==
  AddTableEntry("dmac", <<Exact("ethernet.dstAddr", mac, 48)>>,
                "forward", <<Param("port", port, 8)>>)

mac_learn_digest(fields) ==
  LET mac  == fields[1].value
      port == Byte(fields[2].value)
  IN <<fill_dmac_table(port, mac), fill_smac_table(port, mac)>>

dhf(digest) ==
  IF digest.type = "DIGEST" /\ digest.table = "mac_learn_digest"
  THEN mac_learn_digest(digest.params)
  ELSE <<>>

set_default_action_smac == SetDefaultAction("smac", "mac_learn", <<>>)
set_default_action_dmac == SetDefaultAction("dmac", "broadcast", <<>>)
set_default_action_send_frame == SetDefaultAction("send_frame", "_nop", <<>>)

\* The mode the classifier falls back to.
set_default_action_dmac_classifier ==
  SetDefaultAction("dmac_classifier", "set_fwd_mode", <<Param("mode", 0, 8)>>)

\* Every prefix of the routing table is 16 bits long.
fill_ipv4_lpm_table(ip, nhgrp) ==
  AddTableEntry("ipv4_lpm", <<Lpm("ipv4.dstAddr", ip, 16)>>,
                "set_nhop", <<Param("nhgroup", nhgrp, 32)>>)

fill_ipv4_forward_table(nhgroup, dmac) ==
  AddTableEntry("ipv4_forward", <<Exact("routing_metadata.nhgroup", nhgroup, 32)>>,
                "l3forward", <<Param("dmac", dmac, 48)>>)

fill_send_frame_table(port, smac) ==
  AddTableEntry("send_frame", <<Exact("standard_metadata.egress_port", port, 8)>>,
                "rewrite_mac", <<Param("smac", smac, 48)>>)

fill_dmac_classifier_table(dmac, mode) ==
  AddTableEntry("dmac_classifier", <<Exact("ethernet.dstAddr", dmac, 48)>>,
                "set_fwd_mode", <<Param("mode", mode, 8)>>)

Defaults ==
  <<set_default_action_smac, set_default_action_dmac,
    set_default_action_dmac_classifier, set_default_action_send_frame>>

init_simple ==
  Defaults
  \o <<fill_dmac_classifier_table("00:00:00:00:00:01", 1),
       fill_send_frame_table(1, "00:00:00:00:00:01"),
       fill_ipv4_lpm_table("10.0.99.99", 0),
       fill_ipv4_forward_table(0, "d2:69:0f:a8:39:9c")>>

\* The program ends when a line is not an address; there is no other limit.
read_ip_prefixes_from_file(lines) ==
  IF \E i \in DOMAIN lines : lines[i] = WrongFormat THEN NotRead ELSE lines

init_complex(routes) ==
  Defaults
  \o [i \in DOMAIN routes |-> fill_ipv4_lpm_table(routes[i].ip, Byte(routes[i].nhgrp))]
  \o <<fill_ipv4_forward_table(0, "d2:69:0f:a8:39:01"),
       fill_ipv4_forward_table(1, "d2:69:0f:a8:39:02"),
       fill_dmac_classifier_table("00:00:00:00:00:01", 1),
       fill_send_frame_table(1, "00:00:00:00:00:01"),
       fill_dmac_classifier_table("00:00:00:00:00:02", 1),
       fill_send_frame_table(2, "00:00:00:00:00:02")>>
==============================================================================
