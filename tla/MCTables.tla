------------------------------ MODULE MCTables ------------------------------
(***************************************************************************)
(* Two workers, and three tables of different kinds: an exact one whose    *)
(* hit leads to a table of prefixes and whose miss to a table without a    *)
(* key, which has one action.  Addresses have two octets of one bit; both  *)
(* packets are in the prefix that is added, the last octet of the rule,    *)
(* and each comes to have an entry of its own.  Both workers and the       *)
(* controller set the default of the table without a key as the workers    *)
(* start; the default of the exact table is set and set again later; the   *)
(* other has none, as at the start.                                        *)
(***************************************************************************)
EXTENDS Tables, TLC

NoKey == <<0, 0>>

Add1(t, key, depth, action, param) ==
  [op |-> "add", table |-> t, key |-> key, depth |-> depth,
   value |-> [action |-> action, param |-> param]]
Default(t, action, param) ==
  [op |-> "setdefault", table |-> t, key |-> NoKey, depth |-> Width,
   value |-> [action |-> action, param |-> param]]

MCTable == {"dmac_classifier", "ipv4_lpm", "uplink"}
MCKind == [dmac_classifier |-> "LOOKUP_EXACT", ipv4_lpm |-> "LOOKUP_LPM",
           uplink |-> "LOOKUP_EXACT"]
MCNextTable == [dmac_classifier |-> [hit |-> "ipv4_lpm", miss |-> "uplink"],
                ipv4_lpm |-> [set_nhop |-> None, _drop |-> None],
                uplink |-> [forward |-> None]]
MCPreset == <<[table |-> "uplink", action |-> "forward"]>>
MCPacket == {<<0, 1>>, <<1, 1>>}
MCScript ==
  <<Default("uplink", "forward", 2),
    Add1("dmac_classifier", <<1, 1>>, 2, "set_fwd_mode", 1),
    Add1("ipv4_lpm", <<0, 1>>, 1, "set_nhop", 1),
    Default("dmac_classifier", "set_fwd_mode", 0),
    Default("dmac_classifier", "set_fwd_mode", 3),
    Add1("dmac_classifier", <<0, 1>>, 2, "set_fwd_mode", 2)>>

\* The bound of the run: of the many orders in which the workers and the first
\* update can set one default, all are explored until that update is done; the
\* controller goes on after those in which both workers are through by then, the
\* update was the last to set the default, and no value was lost.
FirstUpdateLast ==
  update.n > 1 =>
    \A w \in Worker :
      /\ init[w].k \notin DOMAIN Preset
      /\ \A r \in Replica :
           default_val[r]["uplink"] = 1 /\ <<r, "uplink", w>> \in freed

Symmetry == Permutations(Worker)
==============================================================================
