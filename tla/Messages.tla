------------------------------- MODULE Messages -------------------------------
(***************************************************************************)
(* One control message from the program that builds it to the program that *)
(* acts on it: messages.c and handlers.c, the calls the controllers'       *)
(* fill_* and set_default_* functions and the switch's generate_digest     *)
(* make of them, the framing of sock_helpers.c, and the generated          *)
(* recv_from_controller.                                                   *)
(*                                                                         *)
(* A message is a buffer of structs, each written where the header's       *)
(* length says the last one ended.  The reader gets no offsets: it walks   *)
(* the buffer by the sizes of what it believes it finds.  Numbers of more  *)
(* than a byte are stored as the host (little-endian) stores them and are  *)
(* converted in place by netconv_* before the message is sent, each one by *)
(* a call of its own, and once more by the reader.                         *)
(*                                                                         *)
(* The buffer is a partial function from offsets to structs.  Names and    *)
(* bitmaps are opaque; the transaction id, which every program leaves at   *)
(* 0, is left out.                                                         *)
(***************************************************************************)
EXTENDS P4Message, Integers

CONSTANTS
  Program,    \* the programs that use messages.c
  Sends,      \* Sends[p]: the messages program p builds
  Tables,     \* Tables[p]: the tables of p's P4 program, and the digests p reads
  MaxLength   \* the size of every buffer: BUFFLEN, P4_BG_MEM_CELL_SIZE, 2048

P4_MAX == 10            \* P4_MAX_NUMBER_OF_FIELD_MATCHES, _ACTION_PARAMETERS

\* The sizes of the structs of messages.h.
SizeOf ==
  [header |-> 8, ADD_TABLE_ENTRY |-> 140, SET_DEFAULT_ACTION |-> 268, DIGEST |-> 140,
   EXACT |-> 388, LPM |-> 388, RANGE |-> 646, TERNARY |-> 646, VALID |-> 390,
   action |-> 130, param |-> 260, digest_field |-> 164]

Matched == {"EXACT", "LPM", "RANGE", "TERNARY", "VALID"}

\* How many values a uint16_t has.
Word == 256 * 256

IsList(s) == Len(s) \in Nat /\ s = [i \in 1 .. Len(s) |-> s[i]]

\* What the functions of messages.h let a program say: the lengths of a match are
\* uint16_t and those of a parameter uint32_t.
IsMessage(m) ==
  /\ m.type \in {"ADD_TABLE_ENTRY", "SET_DEFAULT_ACTION", "DIGEST"}
  /\ IsList(m.matches) /\ IsList(m.params)
  /\ \A i \in DOMAIN m.matches :
       LET f == m.matches[i]
       IN f = Match(f.kind, f.name, f.value, f.bits) /\ f.kind \in Matched /\ f.bits \in 0 .. Word - 1
  /\ \A i \in DOMAIN m.params :
       LET f == m.params[i]
       IN f = Param(f.name, f.value, f.bits) /\ f.bits \in Nat /\ f.bits \div Word < Word
  /\ m.type # "ADD_TABLE_ENTRY" => m.matches = <<>>
  /\ m.type = "DIGEST" => m.action = "none"

\* A digest a controller knows has as many fields as it reads, and no buffer holds
\* more than P4_MAX matches or parameters.
ASSUME MessagesAssumption ==
  /\ MaxLength \in 1 .. P4_MAX * SizeOf.param
  /\ DOMAIN Sends = Program /\ DOMAIN Tables = Program
  /\ \A p \in Program : \A m \in Sends[p] :
       /\ IsMessage(m)
       /\ m.type = "DIGEST" /\ m.table \in DOMAIN Tables[p].digests =>
            Tables[p].digests[m.table] = Len(m.params) /\ Len(m.params) <= P4_MAX

VARIABLES
  program,    \* the program that runs
  message,    \* what it wants to say
  pc,         \* where it, or the reader, is
  buffer,     \* the bytes
  action,     \* the offset of the action parameters are added to (pointer a)
  offset,     \* the reader's offset
  ctrl_m,     \* struct p4_ctrl_msg, or what the controller read of a digest
  installed   \* what recv_from_controller did

vars == <<program, message, pc, buffer, action, offset, ctrl_m, installed>>

EmbeddedAction == 136   \* the action's offset in p4_set_default_action
Nothing == "nothing"

\* htons and htonl, and ntohs and ntohl, on a little-endian host.
Swap16(n) == ((n % 256) * 256) + ((n \div 256) % 256)
Swap32(n) == (Swap16(n % Word) * Word) + Swap16(n \div Word)

Put(f, o, s) == [x \in DOMAIN f \union {o} |-> IF x = o THEN s ELSE f[x]]

-----------------------------------------------------------------------------
EmptyBuffer == [type |-> Nothing, length |-> 0, table |-> Nothing, count |-> 0, at |-> <<>>]
EmptyCtrl == [type |-> Nothing, table |-> Nothing, action |-> Nothing, count |-> 0,
              matches |-> <<>>, params |-> <<>>]

NoRule == [action |-> Nothing]

Init ==
  /\ program \in Program
  /\ message \in Sends[program]
  /\ pc = "create_header"
  /\ buffer = EmptyBuffer /\ action = 0 /\ offset = 0
  /\ ctrl_m = EmptyCtrl /\ installed = NoRule

Goto(l) == pc' = l
UNCHANGEDReader == UNCHANGED <<offset, ctrl_m, installed>>
UNCHANGEDMessage == UNCHANGED <<program, message>>

\* No program tests what create_* and add_* return, and the next statement
\* writes through it.
Crash == Goto("crashed") /\ UNCHANGED <<buffer, action>>

\* create_p4_header is the only one of the create_* that may fill the buffer
\* to its last byte.
create_p4_header ==
  /\ pc = "create_header"
  /\ IF SizeOf.header <= MaxLength
     THEN /\ buffer' = [buffer EXCEPT !.type = "HELLO", !.length = SizeOf.header]
          /\ Goto("create") /\ UNCHANGED action
     ELSE Crash
  /\ UNCHANGEDReader /\ UNCHANGEDMessage

\* A match, a parameter or a digest's field, and an action without parameters.
Struct(kind, f) == [struct |-> kind, name |-> f.name, value |-> f.value, bits |-> f.bits]
NewAction == [struct |-> "action", name |-> message.action, count |-> 0]

\* The rest of the fixed part: create_p4_add_table_entry,
\* create_p4_set_default_action with its embedded action, create_p4_digest.
CreateBody ==
  /\ pc = "create"
  /\ IF SizeOf[message.type] < MaxLength
     THEN /\ buffer' = [buffer EXCEPT
               !.type = message.type, !.length = SizeOf[message.type],
               !.table = message.table, !.count = 0,
               !.at = IF message.type = "SET_DEFAULT_ACTION"
                      THEN Put(@, EmbeddedAction, NewAction) ELSE @]
          /\ action' = EmbeddedAction
          /\ Goto(IF message.type = "ADD_TABLE_ENTRY" THEN "matches" ELSE "params")
     ELSE Crash
  /\ UNCHANGEDReader /\ UNCHANGEDMessage

\* The test of every add_*; a mutant that tests before the struct is added.
FitsSoFar(struct) == buffer.length <= MaxLength
Fits(struct) == buffer.length + SizeOf[struct] <= MaxLength

\* What every add_* does with the buffer: the struct goes where the last one
\* ended.
Extended(s) ==
  [buffer EXCEPT !.at = Put(@, buffer.length, s), !.length = @ + SizeOf[s.struct]]

\* add_p4_field_match_lpm, _exact, _range, _ternary and _valid.
add_p4_field_match ==
  /\ pc = "matches" /\ buffer.count < Len(message.matches)
  /\ LET m == message.matches[buffer.count + 1]
     IN IF Fits(m.kind)
        THEN /\ buffer' = [Extended(Struct(m.kind, m)) EXCEPT !.count = @ + 1]
             /\ UNCHANGED <<pc, action>>
        ELSE Crash
  /\ UNCHANGEDReader /\ UNCHANGEDMessage

add_p4_action ==
  /\ pc = "matches" /\ buffer.count = Len(message.matches)
  /\ IF Fits("action")
     THEN /\ buffer' = Extended(NewAction)
          /\ action' = buffer.length
          /\ Goto("params")
     ELSE Crash
  /\ UNCHANGEDReader /\ UNCHANGEDMessage

IsDigest == message.type = "DIGEST"
Params == IF IsDigest THEN buffer.count ELSE buffer.at[action].count

add_p4_action_parameter ==
  /\ pc = "params" /\ ~IsDigest /\ Params < Len(message.params)
  /\ IF Fits("param")
     THEN /\ buffer' = [Extended(Struct("param", message.params[Params + 1]))
                          EXCEPT !.at[action].count = @ + 1]
          /\ UNCHANGED <<pc, action>>
     ELSE Crash
  /\ UNCHANGEDReader /\ UNCHANGEDMessage

\* add_digest_field converts the field it adds, and gives it no name.
add_digest_field ==
  /\ pc = "params" /\ IsDigest /\ Params < Len(message.params)
  /\ LET f == message.params[Params + 1]
         p == Param("", f.value, Swap32(f.bits))
     IN IF Fits("digest_field")
        THEN /\ buffer' = [Extended(Struct("digest_field", p)) EXCEPT !.count = @ + 1]
             /\ UNCHANGED <<pc, action>>
        ELSE Crash
  /\ UNCHANGEDReader /\ UNCHANGEDMessage

\* netconv_p4_field_match_*, netconv_p4_action, netconv_p4_action_parameter.
Converted(s) ==
  CASE s.struct = "action" -> s
    [] s.struct \in {"param", "digest_field"} -> [s EXCEPT !.bits = Swap32(@)]
    [] OTHER -> [s EXCEPT !.bits = Swap16(@)]

\* The reader's calls of netconv_*; a mutant that leaves out the parameters'.
UnpackedMatch(s) == IF s.struct \in {"param", "digest_field"} THEN s ELSE Converted(s)
Unpacked(s) == Converted(s)

Complete ==
  /\ pc = "params" /\ Params = Len(message.params)

\* The netconv_* calls at the end of every function that builds a message.  A
\* digest's fields were converted one by one.
Convert ==
  /\ Complete
  /\ buffer' = [buffer EXCEPT !.length = Swap16(@),
       !.at = IF IsDigest THEN @ ELSE [o \in DOMAIN @ |-> Converted(@[o])]]
  /\ Goto("transmit")
  /\ UNCHANGED action /\ UNCHANGEDReader /\ UNCHANGEDMessage

-----------------------------------------------------------------------------
\* The structs that lie within the first n bytes.
FirstBytes(b, n) ==
  [b EXCEPT !.at = [o \in {x \in DOMAIN @ : x + SizeOf[@[x].struct] <= n} |-> @[o]]]

\* write_p4_msg sends as many bytes as the length field says, which
\* read_p4_msg waits for on the other side.
Transmit ==
  /\ pc = "transmit"
  /\ LET msglen == Swap16(buffer.length)
     IN IF msglen <= MaxLength
        THEN /\ buffer' = FirstBytes(buffer, msglen)
             /\ Goto("handle")
        ELSE Goto("lost") /\ UNCHANGED buffer
  /\ UNCHANGED action /\ UNCHANGEDReader /\ UNCHANGEDMessage

\* How many fields the controller of the program reads of a digest.
Reads == IF buffer.table \in DOMAIN Tables[program].digests
         THEN Tables[program].digests[buffer.table] ELSE 0

\* handle_p4_msg at the switch, dhf at the controller, up to the first struct
\* after the fixed part.
handle_p4_msg ==
  /\ pc = "handle"
  /\ LET length == Swap16(buffer.length)
         count  == CASE buffer.type = "SET_DEFAULT_ACTION" -> buffer.at[EmbeddedAction].count
                     [] buffer.type = "ADD_TABLE_ENTRY" -> buffer.count
                     [] buffer.type = "DIGEST" -> Reads
         body   == [EmptyCtrl EXCEPT !.type = buffer.type, !.table = buffer.table]
     IN /\ buffer' = [buffer EXCEPT !.length = length]
        /\ IF length > MaxLength \/ count > P4_MAX
           THEN Goto("rejected") /\ UNCHANGED <<offset, ctrl_m>>
           ELSE /\ offset' = SizeOf[buffer.type]
                /\ IF buffer.type = "ADD_TABLE_ENTRY"
                   THEN Goto("unpack_matches") /\ ctrl_m' = [body EXCEPT !.count = count]
                   ELSE /\ Goto("unpack_params")
                        /\ ctrl_m' = [body EXCEPT !.count = count,
                             !.action = IF IsDigest THEN "none"
                                        ELSE buffer.at[EmbeddedAction].name]
  /\ UNCHANGED <<action, installed>> /\ UNCHANGEDMessage

\* Is there, where the reader looks, one of the structs it takes it for?
Finds(structs) == offset \in DOMAIN buffer.at /\ buffer.at[offset].struct \in structs
Astray == Goto("astray") /\ UNCHANGED <<buffer, offset, ctrl_m>>

\* A mutant of Next1: every struct is taken for a parameter.
NextAsParam(s) ==
  /\ buffer' = [buffer EXCEPT !.at[offset] = s]
  /\ offset' = offset + SizeOf.param

\* The struct at offset is converted where it is, and offset moves behind it.
Next1(s) ==
  /\ buffer' = [buffer EXCEPT !.at[offset] = s]
  /\ offset' = offset + SizeOf[s.struct]

\* One round of the first loop of handle_p4_add_table_entry.
UnpackMatch ==
  /\ pc = "unpack_matches" /\ Len(ctrl_m.matches) < ctrl_m.count
  /\ IF Finds(Matched)
     THEN LET s == Unpacked(buffer.at[offset])
          IN /\ Next1(s)
             /\ ctrl_m' = [ctrl_m EXCEPT
                  !.matches = Append(@, Match(s.struct, s.name, s.value, s.bits))]
             /\ UNCHANGED pc
     ELSE Astray
  /\ UNCHANGED <<action, installed>> /\ UNCHANGEDMessage

UnpackAction ==
  /\ pc = "unpack_matches" /\ Len(ctrl_m.matches) = ctrl_m.count
  /\ IF Finds({"action"})
     THEN LET s == buffer.at[offset]
          IN /\ Next1(s)
             /\ ctrl_m' = [ctrl_m EXCEPT !.action = s.name, !.count = s.count]
             /\ Goto(IF s.count > P4_MAX THEN "rejected" ELSE "unpack_params")
     ELSE Astray
  /\ UNCHANGED <<action, installed>> /\ UNCHANGEDMessage

\* One round of the loop over the parameters, or over a digest's fields.
UnpackParameter ==
  /\ pc = "unpack_params" /\ Len(ctrl_m.params) < ctrl_m.count
  /\ IF Finds({IF IsDigest THEN "digest_field" ELSE "param"})
     THEN LET s == Unpacked(buffer.at[offset])
          IN /\ Next1(s)
             /\ ctrl_m' = [ctrl_m EXCEPT
                  !.params = Append(@, Param(s.name, s.value, s.bits))]
             /\ UNCHANGED pc
     ELSE Astray
  /\ UNCHANGED <<action, installed>> /\ UNCHANGEDMessage

-----------------------------------------------------------------------------
\* The generated *_add_table_entry and *_set_default_table_action: parameters
\* are taken by their position, and a prefix length is read from a match
\* whatever kind the controller gave it, and kept in a byte.
Rule(table, type, m) ==
  LET signature == table.actions[m.action]
  IN [action |-> m.action,
      args  |-> [j \in DOMAIN signature |->
                   IF j <= m.count THEN m.params[j].value ELSE Nothing],
      key   |-> IF type = "ADD_TABLE_ENTRY" THEN m.matches[1].value ELSE Nothing,
      depth |-> IF type = "ADD_TABLE_ENTRY" /\ table.match = "lpm"
                THEN Byte(m.matches[1].bits) ELSE 0]

\* A table or an action of a name the P4 program does not have is ignored.
recv_from_controller ==
  /\ pc = "unpack_params" /\ Len(ctrl_m.params) = ctrl_m.count
  /\ LET tables == Tables[program].tables
         known  == /\ ctrl_m.table \in DOMAIN tables
                   /\ ctrl_m.action \in DOMAIN tables[ctrl_m.table].actions
     IN installed' = IF known THEN Rule(tables[ctrl_m.table], ctrl_m.type, ctrl_m)
                     ELSE NoRule
  /\ Goto("done")
  /\ UNCHANGED <<buffer, action, offset, ctrl_m>> /\ UNCHANGEDMessage

\* Nothing follows the end of a message.
Over == pc \in {"done", "crashed", "lost", "rejected", "astray"} /\ UNCHANGED vars

Handle == handle_p4_msg \/ UnpackMatch \/ UnpackAction \/ UnpackParameter
Build == \/ create_p4_header \/ CreateBody \/ add_p4_field_match \/ add_p4_action
         \/ add_p4_action_parameter \/ add_digest_field

Next == Build \/ Convert \/ Transmit \/ Handle \/ recv_from_controller \/ Over
Spec == Init /\ [][Next]_vars

-----------------------------------------------------------------------------
\* The bytes a message of these matches and parameters takes.
Sums(s) == LET sum[k \in 0 .. Len(s)] == IF k = 0 THEN 0 ELSE sum[k - 1] + s[k] IN sum
Sizes(m) == [i \in DOMAIN m.matches |-> SizeOf[m.matches[i].kind]]
Need ==
  SizeOf[message.type]
  + Sums(Sizes(message))[Len(message.matches)]
  + (IF message.type = "ADD_TABLE_ENTRY" THEN SizeOf["action"] ELSE 0)
  + Len(message.params) * SizeOf[IF IsDigest THEN "digest_field" ELSE "param"]

\* While a message is built no two structs share a byte, none reaches beyond
\* the buffer or into the fixed part, and the length field says where the last
\* one ends (the tests of create_* and add_*); and the program is only stopped
\* by a message that would not leave the buffer's last byte free or does not
\* fit.
Framing ==
  /\ pc \in {"create", "matches", "params"} =>
       \A o \in DOMAIN buffer.at :
         LET end == o + SizeOf[buffer.at[o].struct]
         IN /\ end <= buffer.length /\ buffer.length <= MaxLength
            /\ o >= SizeOf[message.type] \/ o = EmbeddedAction
            /\ \A p \in DOMAIN buffer.at : p <= o \/ p >= end
  /\ pc = "transmit" => Swap16(buffer.length) = Need
  /\ pc = "crashed" => Need > MaxLength \/ SizeOf[message.type] >= MaxLength

Read(fields) == [i \in DOMAIN fields |-> Param("", fields[i].value, fields[i].bits)]

\* Once sent, a message is neither lost nor refused for its length; the reader, who
\* only has the sizes of what it has read so far to go by, finds at every offset a
\* struct of the kind it takes it for (handlers.c:103-107); and what the callback is
\* given is what the program meant, number by number, so every length is converted
\* exactly as often on the way in as on the way out.  A digest's fields have no
\* names, and the controller reads as many as it knows.
RoundTrip ==
  /\ pc \notin {"lost", "rejected", "astray"}
  /\ pc = "done" =>
       /\ ctrl_m.type = message.type /\ ctrl_m.table = message.table
       /\ ctrl_m.action = message.action /\ ctrl_m.matches = message.matches
       /\ IF IsDigest
          THEN \/ ctrl_m.count = 0
               \/ ctrl_m.params = Read(message.params)
          ELSE ctrl_m.params = message.params

\* Every rule a controller sends is installed in the P4 program it is written
\* for: its table and action are known there, an action's parameters, which the
\* switch takes by position, are the ones the controller named, and in a table
\* of prefixes the depth is the length the controller gave, even where it sent an
\* exact match.
RulesInstalled ==
  pc = "done" /\ ~IsDigest /\ DOMAIN Tables[program].tables # {} =>
    LET table == Tables[program].tables[message.table]
        names == table.actions[message.action]
        sent  == message.params
    IN /\ installed # NoRule
       /\ installed.action = message.action
       /\ Len(sent) = Len(names)
       /\ \A j \in DOMAIN names :
            /\ installed.args[j] = sent[j].value
            /\ \A k \in DOMAIN sent : sent[k].name = names[j] => k = j
       /\ message.type = "ADD_TABLE_ENTRY" =>
            /\ installed.key = message.matches[1].value
            /\ table.match = "lpm" => installed.depth = message.matches[1].bits
==============================================================================
