---------------------------- MODULE MacController ----------------------------
(***************************************************************************)
(* ctrl_plane/mac_controller.c, the controller of a learning L2 switch     *)
(* (examples/p4_src/l2_fwd.p4).  Every function that sends is the sequence *)
(* of messages it sends, in its order.                                     *)
(***************************************************************************)
EXTENDS P4Message

CONSTANT MAX_MACS

fill_smac_table(port, mac) ==
  AddTableEntry("smac", <<Exact("ethernet.srcAddr", mac, 48)>>, "_nop", <<>>)

fill_dmac_table(port, mac) ==
  AddTableEntry("dmac", <<Exact("ethernet.dstAddr", mac, 48)>>,
                "forward", <<Param("port", port, 8)>>)

\* Two mutants of mac_learn_digest: smac first, and dmac alone.
SmacFirst(fields) ==
  <<fill_smac_table(Byte(fields[2].value), fields[1].value),
    fill_dmac_table(Byte(fields[2].value), fields[1].value)>>
DmacAlone(fields) == <<fill_dmac_table(Byte(fields[2].value), fields[1].value)>>

\* What was learned goes to dmac first: a MAC that is in smac is not reported
\* again.
mac_learn_digest(fields) ==
  LET mac  == fields[1].value
      port == Byte(fields[2].value)
  IN <<fill_dmac_table(port, mac), fill_smac_table(port, mac)>>

\* The prefix length is the first two bytes of the second field; the parameters'
\* names and lengths are left at zero.
test_learn_ip(fields) ==
  <<AddTableEntry("table1", <<Lpm("field1", fields[1].value, fields[2].value % (256 * 256))>>,
                  "korte",
                  [i \in 1 .. 3 |-> Param("", fields[i + 2].value, 0)])>>

dhf(digest) ==
  CASE digest.type # "DIGEST"             -> <<>>
    [] digest.table = "mac_learn_digest"  -> mac_learn_digest(digest.params)
    [] digest.table = "test_learn_ip"     -> test_learn_ip(digest.params)
    [] OTHER                              -> <<>>

set_default_action_smac == SetDefaultAction("smac", "mac_learn", <<>>)
set_default_action_dmac == SetDefaultAction("dmac", "bcast", <<>>)

\* Reading stops at a line of the wrong format, and then the program ends, and
\* at the first line for which there is no room, and then it goes on without.
read_macs_and_ports_from_file(lines) ==
  LET Wrong(i) == i \in DOMAIN lines /\ lines[i] = WrongFormat
      entries  == IF Len(lines) < MAX_MACS THEN Len(lines) ELSE MAX_MACS
  IN IF \E i \in 1 .. MAX_MACS + 1 : Wrong(i)
     THEN NotRead
     ELSE [i \in 1 .. entries |-> [lines[i] EXCEPT !.port = Byte(@)]]

\* Entry i of the file is messages 2i + 1 and 2i + 2 of the script.
init(entries) ==
  <<set_default_action_smac, set_default_action_dmac>>
  \o [k \in 1 .. 2 * Len(entries) |->
        LET e == entries[(k + 1) \div 2]
        IN IF k % 2 = 1 THEN fill_dmac_table(e.port, e.mac)
                        ELSE fill_smac_table(e.port, e.mac)]

\* Sent by main before it waits for a switch, whatever the file says.
Builtin ==
  <<fill_dmac_table(1, "a0:36:9f:3e:94:ea"), fill_smac_table(1, "a0:36:9f:3e:94:ea"),
    fill_dmac_table(0, "a0:36:9f:3e:94:e8"), fill_smac_table(0, "a0:36:9f:3e:94:e8")>>
==============================================================================
