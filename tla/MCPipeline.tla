------------------------------ MODULE MCPipeline ------------------------------
(***************************************************************************)
(* P4 programs for Pipeline.  L2L3 and NAT are examples/p4_src/l2_l3.p4    *)
(* and nat.p4, with their headers, tables and actions; VLAN has keys of    *)
(* two fields.  The other programs have one field in each place and of     *)
(* each width that four bytes allow, between two neighbours, in headers    *)
(* and in metadata.                                                        *)
(***************************************************************************)
EXTENDS Pipeline

\* The fields of a header, from their names and widths in its order.
Layout(h, meta, list) ==
  LET all == field_offsets(h, meta, [n \in DOMAIN list |-> list[n][2]])
  IN  [name \in {list[n][1] : n \in DOMAIN list} |->
         all[CHOOSE n \in DOMAIN list : list[n][1] = name]]

bytes(ns) == [k \in DOMAIN ns |-> ByteOf(ns[k])]
FromZero(s) == [i \in 0 .. Len(s) - 1 |-> s[i + 1]]
word(n) == {b \in 0 .. 30 : (n \div 2 ^ b) % 2 = 1}

standard_metadata ==
  Layout("standard_metadata", TRUE,
    <<<<"standard_metadata.ingress_port", 9>>, <<"standard_metadata.packet_length", 32>>,
      <<"standard_metadata.egress_spec", 9>>, <<"standard_metadata.egress_port", 9>>,
      <<"standard_metadata.egress_instance", 32>>, <<"standard_metadata.instance_type", 32>>,
      <<"standard_metadata.rest", 5>>>>)

ethernet ==
  Layout("ethernet", FALSE, <<<<"dstMac", 48>>, <<"srcMac", 48>>, <<"etherType", 16>>>>)

ipv4 ==
  Layout("ipv4", FALSE,
    <<<<"versionIhl", 8>>, <<"diffserv", 8>>, <<"totalLen", 16>>, <<"identification", 16>>,
      <<"flags", 3>>, <<"fragOffset", 13>>, <<"ttl", 8>>, <<"protocol", 8>>,
      <<"hdrChecksum", 16>>, <<"srcAddr", 32>>, <<"dstAddr", 32>>>>)

tcp ==
  Layout("tcp", FALSE, <<<<"srcPort", 16>>, <<"dstPort", 16>>, <<"seqNo", 32>>>>)

-----------------------------------------------------------------------------
(* Calls, nodes, cases.                                                    *)

const(f, v) == [op |-> "const", dst |-> f, value |-> v]
param(f, n, w) == [op |-> "param", dst |-> f, param |-> n, width |-> w]
copy(f, g) == [op |-> "field", dst |-> f, src |-> g]
add(f, v) == [op |-> "add", dst |-> f, value |-> v]
dropping == [op |-> "drop"]
digest(fs) == [op |-> "digest", fields |-> fs]

One == {0}
MinusOne == 0 .. 31
Egress == "standard_metadata.egress_port"

entry(a, ps) == [action |-> a, params |-> [n \in DOMAIN ps |-> bytes(ps[n])]]
ByAction(key, entries, default, next) ==
  [kind |-> "table", key |-> key, entries |-> entries, default |-> default, by_hit |-> FALSE, next |-> next]
ByHit(key, entries, default, hit, miss) ==
  [kind |-> "table", key |-> key, entries |-> entries, default |-> default, by_hit |-> TRUE,
   next |-> [hit |-> hit, miss |-> miss]]
Each(actions, node) == [a \in actions |-> node]
If(f, v, then, else) == [kind |-> "if", field |-> f, equals |-> v, then |-> then, else |-> else]

case(ns, to, name) == [bytes |-> bytes(ns), to |-> to, name |-> name]
default(to, name) == case(<<>>, to, name)

MacA == <<2, 0, 0, 0, 0, 161>>
MacB == <<2, 17, 34, 51, 68, 85>>

parse_ethernet(first) ==
  [extract |-> "ethernet", select |-> <<"etherType">>,
   cases |-> <<case(<<8, 0>>, "parse", "parse_ipv4"), default("node", first)>>]

L2L3 ==
  [field |-> standard_metadata @@ ethernet @@ ipv4
             @@ Layout("intrinsic_metadata", TRUE,
                  <<<<"mcast_grp", 4>>, <<"egress_rid", 4>>, <<"mcast_hash", 16>>,
                    <<"lf_field_list", 32>>, <<"fwd_mode", 8>>>>)
             @@ Layout("routing_metadata", TRUE, <<<<"nhgroup", 32>>>>),
   start |-> "parse_ethernet",
   parse |-> [parse_ethernet |-> parse_ethernet("smac"),
              parse_ipv4 |-> [extract |-> "ipv4", select |-> <<>>, cases |-> <<default("node", "smac")>>]],
   calculated |-> {"hdrChecksum"},
   action |-> [_drop |-> <<dropping>>, _nop |-> <<>>,
               mac_learn |-> <<digest({"srcMac", "standard_metadata.ingress_port"})>>,
               broadcast |-> <<const(Egress, word(100))>>,
               forward |-> <<param(Egress, 1, 9)>>,
               set_nhop |-> <<param("nhgroup", 1, 32), add("ttl", MinusOne)>>,
               l3forward |-> <<param("dstMac", 1, 48)>>,
               set_fwd_mode |-> <<param("fwd_mode", 1, 8)>>],
   node |-> [smac |-> ByAction(<<"srcMac">>, {entry("_nop", <<>>)}, {"mac_learn"},
                               Each({"_nop", "mac_learn"}, "dmac_classifier")),
             dmac_classifier |-> ByHit(<<"dstMac">>, {entry("set_fwd_mode", <<<<1>>>>)}, {},
                                       "dmac", "ipv4_lpm"),
             ipv4_lpm |-> ByAction(<<"dstAddr">>, {entry("set_nhop", <<<<10, 0, 0, 9>>>>)}, {"_drop"},
                                   Each({"set_nhop", "_drop"}, "ipv4_forward")),
             ipv4_forward |-> ByAction(<<"nhgroup">>, {entry("l3forward", <<MacB>>)}, {"_drop"},
                                       Each({"l3forward", "_drop"}, "dmac")),
             dmac |-> ByAction(<<"dstMac">>, {entry("forward", <<<<1, 0>>>>), entry("forward", <<<<44, 1>>>>)},
                               {"broadcast"}, Each({"forward", "broadcast"}, "end"))]]

NAT ==
  [field |-> standard_metadata @@ ethernet @@ ipv4 @@ tcp
             @@ Layout("routing_metadata", TRUE, <<<<"is_int_if", 8>>>>),
   start |-> "parse_ethernet",
   parse |-> [parse_ethernet |-> parse_ethernet("if_info"),
              parse_ipv4 |-> [extract |-> "ipv4", select |-> <<"protocol">>,
                              cases |-> <<case(<<6>>, "parse", "parse_tcp"), default("node", "if_info")>>],
              parse_tcp |-> [extract |-> "tcp", select |-> <<>>, cases |-> <<default("node", "if_info")>>]],
   calculated |-> {},
   action |-> [_drop |-> <<dropping>>, _nop |-> <<>>,
               set_if_info |-> <<param("is_int_if", 1, 8)>>,
               mac_learn |-> <<digest({"srcMac", "standard_metadata.ingress_port"})>>,
               natTcp_learn |-> <<digest({"srcAddr", "srcPort"})>>,
               nat_hit_int_to_ext |-> <<param("srcAddr", 1, 32)>>,
               nat_hit_ext_to_int |-> <<param("dstAddr", 1, 32)>>,
               set_nhop |-> <<param(Egress, 1, 9), param("dstMac", 2, 48)>>,
               rewrite_src_mac |-> <<param("srcMac", 1, 48)>>],
   node |-> [if_info |-> ByAction(<<"standard_metadata.ingress_port">>,
                                  {entry("set_if_info", <<<<1>>>>), entry("set_if_info", <<<<0>>>>)}, {"_drop"},
                                  Each({"set_if_info", "_drop"}, "smac")),
             smac |-> ByAction(<<"srcMac">>, {entry("_nop", <<>>)}, {"mac_learn"},
                               Each({"_nop", "mac_learn"}, "is_int")),
             is_int |-> If("is_int_if", {0}, "nat_up", "nat_dw"),
             nat_up |-> ByAction(<<"srcAddr">>, {entry("nat_hit_int_to_ext", <<<<203, 0, 113, 1>>>>)},
                                 {"natTcp_learn"}, Each({"nat_hit_int_to_ext", "natTcp_learn"}, "ipv4_lpm")),
             nat_dw |-> ByAction(<<"dstPort">>, {entry("nat_hit_ext_to_int", <<<<10, 0, 0, 1>>>>)}, {"_drop"},
                                 Each({"nat_hit_ext_to_int", "_drop"}, "ipv4_lpm")),
             ipv4_lpm |-> ByAction(<<"dstAddr">>, {entry("set_nhop", <<<<1, 0>>, MacB>>)}, {"_drop"},
                                   Each({"set_nhop", "_drop"}, "sendout")),
             sendout |-> ByAction(<<Egress>>, {entry("rewrite_src_mac", <<MacA>>)}, {"_drop"},
                                  Each({"rewrite_src_mac", "_drop"}, "end"))]]

\* Keys of two fields, as in vlan_simple.p4 and with the shorter field first.
VLAN ==
  [field |-> standard_metadata @@ ethernet
             @@ Layout("intrinsic_metadata", TRUE, <<<<"vid", 16>>, <<"vid_valid", 1>>, <<"unused", 7>>>>),
   start |-> "parse_ethernet",
   parse |-> [parse_ethernet |-> [extract |-> "ethernet", select |-> <<>>,
                                  cases |-> <<default("node", "port_vlan")>>]],
   calculated |-> {},
   action |-> [set_vid |-> <<param("vid", 1, 16), const("vid_valid", One)>>,
               forward |-> <<param("standard_metadata.egress_spec", 1, 9)>>,
               bcast |-> <<const(Egress, word(100))>>],
   node |-> [port_vlan |-> ByAction(<<IngressPort>>, {entry("set_vid", <<<<77, 1>>>>)}, {},
                                    [set_vid |-> "dmac"]),
             dmac |-> ByAction(<<"dstMac", "vid">>, {entry("forward", <<<<1, 0>>>>)}, {"bcast"},
                               Each({"forward", "bcast"}, "types")),
             types |-> ByAction(<<"etherType", "vid">>, {entry("bcast", <<>>)}, {}, [bcast |-> "end"])]]

-----------------------------------------------------------------------------
(* One field at each place.                                                *)

\* The fields x0, x and x1: offset bits, the field, the rest and a byte.
At1(h, meta, offset, width) == [hdr |-> h, meta |-> meta, offset |-> offset, width |-> width]
Single(h, meta, x, offset, width) ==
  (x :> At1(h, meta, offset, width))
  @@ (x \o "1" :> At1(h, meta, offset + width, 8 + ((64 - offset - width) % 8)))
  @@ (IF offset = 0 THEN <<>> ELSE x \o "0" :> At1(h, meta, 0, offset))

Pattern(n) == [k \in 1 .. n |-> 165]
Thirds == {b \in Bit : b % 3 = 0}

\* One field in each of two headers and in metadata, and the actions of a table.
ThreeHomes(f, g, m, actions, width) ==
  [field |-> Single("h", FALSE, "f", f[1], f[2]) @@ Single("k", FALSE, "g", g[1], g[2])
             @@ Single("meta", TRUE, "m", m[1], m[2])
             @@ (IngressPort :> At1(Metadata, TRUE, 0, 9)) @@ ("rest" :> At1(Metadata, TRUE, 9, 41))
             @@ (EgressPort :> At1(Metadata, TRUE, 50, 14)),
   start |-> "parse_h",
   parse |-> [parse_h |-> [extract |-> "h", select |-> <<>>, cases |-> <<default("parse", "parse_k")>>],
              parse_k |-> [extract |-> "k", select |-> <<>>, cases |-> <<default("node", "t")>>]],
   calculated |-> {},
   action |-> actions,
   node |-> [t |-> ByAction(<<"f">>, {entry(a, <<Pattern((width + 7) \div 8)>>) : a \in DOMAIN actions},
                            {}, Each(DOMAIN actions, "t2")),
             t2 |-> ByAction(<<"m">>, {}, {}, <<>>)]]

Places == {<<o, w>> \in (0 .. 7) \X (1 .. 32) : o + w <= 32}
SinglePrograms ==
  [p \in Places |->
     ThreeHomes(p, p, p,
       [copies |-> <<const("f", Thirds), add("f", One), copy("m", "f")>>,
        bytes |-> <<param("f", 1, p[2]), const("m", Thirds), copy("g", "f")>>,
        meta |-> <<param("m", 1, p[2]), copy("f", "m"), add("m", MinusOne)>>], p[2])]

\* A field that is copied to one which lies elsewhere or is wider, and one that is
\* changed in both its homes.
MixedPrograms ==
  [p \in {<<8, 12>>, <<8, 16>>} |->
     ThreeHomes(<<0, p[2]>>, <<16 - p[2], p[2]>>, <<0, 16>>,
       [bytes |-> <<param("f", 1, p[2]), const("m", Thirds), copy("g", "f")>>,
        narrow |-> <<const("f", Thirds), copy("m", "f")>>,
        mixed |-> <<const("f", Thirds), copy("g", "f"), param("f", 1, p[2]), copy("m", "f")>>], p[2])]

\* A field of a header that only some packets have.
Optional ==
  [ThreeHomes(<<0, 8>>, <<0, 8>>, <<0, 8>>,
     [read |-> <<copy("m", "g")>>, changed |-> <<copy("m", "g"), const("g", Thirds)>>], 8)
   EXCEPT !.parse.parse_h.select = <<"f">>,
          !.parse.parse_h.cases = <<case(<<255>>, "parse", "parse_k"), default("node", "t")>>]

\* A program's name is the offset and the width of its field; from 8 on no offset.
MCProgram ==
  (<<9, 0>> :> L2L3) @@ (<<9, 1>> :> NAT) @@ (<<9, 2>> :> VLAN) @@ (<<9, 3>> :> Optional)
  @@ SinglePrograms @@ MixedPrograms

Ethernet(type) == bytes(MacB \o MacA \o type)
Ipv4(checksum, ttl, protocol) ==
  bytes(<<69, 0, 0, 28, 18, 52, 64, 0, ttl, protocol>> \o checksum \o <<10, 0, 0, 1, 192, 168, 7, 200>>)
Tcp == bytes(<<4, 210, 0, 80, 0, 0, 0, 9>>)
Udp == bytes(<<4, 210, 0, 53, 0, 8, 0, 0>>)
Arp == Ethernet(<<8, 6>>) \o bytes([k \in 1 .. 28 |-> k])

\* A TTL of 0 makes the copy wrap, a checksum of 0 is wrong.
MCPacket ==
  [p \in DOMAIN MCProgram |->
     CASE p = <<9, 0>> ->
            {FromZero(Arp), FromZero(Ethernet(<<8, 0>>) \o Ipv4(<<0, 0>>, 64, 17)),
             FromZero(Ethernet(<<8, 0>>) \o Ipv4(<<0, 0>>, 0, 17))}
       [] p = <<9, 1>> ->
            {FromZero(Arp), FromZero(Ethernet(<<8, 0>>) \o Ipv4(<<0, 0>>, 64, 17) \o Udp),
             FromZero(Ethernet(<<8, 0>>) \o Ipv4(<<0, 0>>, 64, 6) \o Tcp)}
       [] p = <<9, 2>> -> {FromZero(Arp)}
       [] OTHER -> {[i \in 0 .. 11 |-> {}], [i \in 0 .. 11 |-> 0 .. 7], [i \in 0 .. 11 |-> ByteOf(90 + i)]}]

MCPort == {{0}, {8}}
=============================================================================
