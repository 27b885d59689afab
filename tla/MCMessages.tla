----------------------------- MODULE MCMessages -----------------------------
(***************************************************************************)
(* Everything the six controllers send in their init scripts and in answer *)
(* to a digest, each against the tables of the P4 program it is written    *)
(* for, and the digests of those P4 programs.  The last program stands for *)
(* any other caller of messages.h: matches of every kind, and messages up  *)
(* to and beyond what a buffer of 2048 bytes holds.                        *)
(***************************************************************************)
EXTENDS Messages

L2 == INSTANCE MacController WITH MAX_MACS <- 1
L2L3 == INSTANCE MacL2L3Controller
L3 == INSTANCE MacL3Controller WITH MAX_MACS <- 2
Nhg == INSTANCE MacL3NhgController
Up == INSTANCE MacNatUp WITH MAX_MACS <- 2
Down == INSTANCE MacNatDw WITH MAX_MACS <- 2

SetOf(s) == {s[i] : i \in DOMAIN s}
MacLearned(port) == Digest("mac_learn_digest", <<Param("", "mac", 48), Param("", port, 9)>>)
NatLearned == Digest("natTcp_learn_digest", <<Param("", "ip", 32), Param("", 80, 16)>>)
TestDigest == Digest("test_learn_ip", [i \in 1 .. 5 |-> Param("", i, 32)])

Matches == <<Match("LPM", "a", 1, 8), Match("EXACT", "b", 2, 300), Match("VALID", "c", 3, 1),
             Match("RANGE", "d", 4, 16), Match("TERNARY", "e", 5, 32)>>
Some(n) == [i \in 1 .. n |-> Param("p", i, 8 * i)]

MCProgram == {"l2", "l2_l3", "l3", "nhg", "nat_up", "nat_dw", "other"}
MCSends == [p \in MCProgram |->
  CASE p = "l2" ->
        SetOf(L2!Builtin)
        \union SetOf(L2!init(L2!read_macs_and_ports_from_file(
                 <<[mac |-> "mac", port |-> 258], [mac |-> "other", port |-> 3]>>)))
        \union SetOf(L2!dhf(MacLearned(300))) \union {MacLearned(300)}
    [] p = "l2_l3" ->
        SetOf(L2L3!init_simple)
        \union SetOf(L2L3!init_complex(L2L3!read_ip_prefixes_from_file(
                 <<[ip |-> "ip", nhgrp |-> 1]>>)))
        \union SetOf(L2L3!dhf(MacLearned(2))) \union {MacLearned(2)}
    [] p = "l3" ->
        SetOf(L3!init(L3!read_macs_and_ports_from_file(
                 <<[ip |-> "ip", mac |-> "mac", port |-> 1]>>)))
    [] p = "nhg" ->
        SetOf(Nhg!init_simple)
        \union SetOf(Nhg!init_complex(Nhg!read_ip_prefixes_from_file(<<[ip |-> "ip"]>>)))
    [] p = "nat_up" ->
        SetOf(Up!init(Up!read_macs_and_ports_from_file(
                 <<[smac |-> "mac", ip |-> "ip", ipn |-> "new", ipd |-> "peer",
                    dmac |-> "dmac", port |-> 1]>>)))
        \union {MacLearned(1), NatLearned}
    [] p = "nat_dw" ->
        SetOf(Down!init(Down!read_macs_and_ports_from_file(
                 <<[mac |-> "mac", ip |-> "ip", dstPort |-> 280, port |-> 1]>>)))
        \union {MacLearned(1), NatLearned}
    [] p = "other" ->
        {AddTableEntry("t", SubSeq(Matches, i, j), "a", Some(n)) :
           i \in 1 .. 5, j \in 1 .. 5, n \in 0 .. 6}
        \union {SetDefaultAction("t", "a", Some(n)) : n \in 0 .. 7}
        \union {Digest("d", Some(n)) : n \in 11 .. 12}
        \union SetOf(L2!test_learn_ip(TestDigest.params)) \union {TestDigest}]

\* The match kind of a table, and its actions with their parameters' names.
Table(match, actions) == [match |-> match, actions |-> actions]
MacLearn == [mac_learn |-> <<>>, _nop |-> <<>>]
Learning == [mac_learn_digest |-> 2, test_learn_ip |-> 5]

NatTables ==
  [if_info  |-> Table("exact", [set_if_info |-> <<"is_int">>, _drop |-> <<>>]),
   smac     |-> Table("exact", MacLearn),
   nat_up   |-> Table("lpm", [nat_hit_int_to_ext |-> <<"srcAddr">>, natTcp_learn |-> <<>>]),
   nat_dw   |-> Table("exact", [nat_hit_ext_to_int |-> <<"dstAddr">>, _drop |-> <<>>]),
   ipv4_lpm |-> Table("lpm", [set_nhop |-> <<"port", "dstAddr">>, _drop |-> <<>>]),
   sendout  |-> Table("exact", [rewrite_src_mac |-> <<"srcAddr">>, _drop |-> <<>>])]

MCTables == [p \in MCProgram |->
  CASE p = "l2" -> [digests |-> Learning, tables |->
        [smac |-> Table("exact", MacLearn),
         dmac |-> Table("exact", [forward |-> <<"port">>, bcast |-> <<>>])]]
    [] p = "l2_l3" -> [digests |-> [mac_learn_digest |-> 2], tables |->
        [smac |-> Table("exact", MacLearn),
         dmac |-> Table("exact", [forward |-> <<"port">>, broadcast |-> <<>>]),
         ipv4_lpm |-> Table("lpm", [set_nhop |-> <<"nhgroup">>, _drop |-> <<>>]),
         ipv4_forward |-> Table("exact", [l3forward |-> <<"dmac">>, _drop |-> <<>>]),
         send_frame |-> Table("exact", [rewrite_mac |-> <<"smac">>, _nop |-> <<>>]),
         dmac_classifier |-> Table("exact", [set_fwd_mode |-> <<"mode">>])]]
    [] p = "l3" -> [digests |-> <<>>, tables |->
        [ipv4_fib_lpm |->
           Table("lpm", [fib_hit_nexthop |-> <<"dmac", "port">>, on_miss |-> <<>>]),
         sendout |-> Table("exact", [on_miss |-> <<>>, rewrite_src_mac |-> <<"smac">>])]]
    [] p = "nhg" -> [digests |-> <<>>, tables |->
        [ipv4_lpm |-> Table("lpm", [set_nhop |-> <<"nhgroup">>, _drop |-> <<>>]),
         nexthops |->
           Table("exact", [forward |-> <<"dmac", "smac", "port">>, _drop |-> <<>>])]]
    [] p \in {"nat_up", "nat_dw"} -> [digests |-> <<>>, tables |-> NatTables]
    [] p = "other" -> [digests |-> Learning, tables |-> <<>>]]
==============================================================================
