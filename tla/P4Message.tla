------------------------------ MODULE P4Message ------------------------------
(***************************************************************************)
(* What a controller program asks of a switch and what a switch reports    *)
(* to it, as the programs of ctrl_plane/ state it: a table, the key of an  *)
(* entry, an action and the action's parameters; or a digest, a named list *)
(* of field values.  How such a message becomes bytes and is read again is *)
(* the subject of module Messages.                                         *)
(***************************************************************************)
EXTENDS Naturals, Sequences

\* A value with the length, in bits, the program gives it.
Param(name, value, bits) == [name |-> name, value |-> value, bits |-> bits]

Match(kind, name, value, bits) ==
  [kind |-> kind, name |-> name, value |-> value, bits |-> bits]

Exact(name, value, bits) == Match("EXACT", name, value, bits)
Lpm(name, value, prefix_length) == Match("LPM", name, value, prefix_length)

AddTableEntry(table, matches, action, params) ==
  [type |-> "ADD_TABLE_ENTRY", table |-> table, matches |-> matches,
   action |-> action, params |-> params]

SetDefaultAction(table, action, params) ==
  [type |-> "SET_DEFAULT_ACTION", table |-> table, matches |-> <<>>,
   action |-> action, params |-> params]

\* A digest of a field list, the fields in the order of the list.
Digest(list, fields) ==
  [type |-> "DIGEST", table |-> list, matches |-> <<>>, action |-> "none",
   params |-> fields]

\* An int kept in a uint8_t.
Byte(n) == n % 256

\* A line of a configuration file that does not have the format a program
\* reads, and what the program makes of a file that holds one.
WrongFormat == [line |-> "wrong format"]
NotRead == "not read"
==============================================================================
