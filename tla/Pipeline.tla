------------------------------- MODULE Pipeline -------------------------------
(***************************************************************************)
(* What the generated code does with one packet after another in one       *)
(* worker: parser.c.py, dataplane.c.py and actions.c.py over a P4 program, *)
(* called from packet_received and send_packet of main_odp.c.              *)
(*                                                                         *)
(* A field of a header of at most 32 bits that some action modifies or     *)
(* reads has a second home: parse_state_* copies it to pd->fields, actions *)
(* work on that copy and mark it MODIFIED, and update_packet writes it     *)
(* back.  Parameters of actions, keys, conditions and copies between       *)
(* headers use the bytes of the packet.                                    *)
(*                                                                         *)
(* Beside the state of the code the module keeps what P4 says, in value:   *)
(* the value of every field of this packet along the path it takes.  The   *)
(* lookup of a key is any of the outcomes the program lists (Tables says   *)
(* which one it is); odp_chksum_ones_comp16 is external.                   *)
(***************************************************************************)
EXTENDS Fields, Functions, SequencesExt

CONSTANTS
  Program,      \* Program[p]: what the compiler is given, see MCPipeline
  Packet,       \* Packet[p]: the packets that may arrive, from byte 0
  Port          \* the ports they arrive at

MODIFIED == 1
Metadata == "standard_metadata"
IngressPort == "standard_metadata.ingress_port"
EgressPort == "standard_metadata.egress_port"

VARIABLES
  program,    \* the program that was compiled, see Compiled
  memory,     \* the bytes of the packet and of each metadata header
  pointer,    \* pd->headers[h].pointer of the headers for which it is not NULL
  fields,     \* pd->fields
  attr,       \* its attr_ members
  dropped,
  ctl,        \* the place in the code
  sent,       \* the port the last packet was sent to
  value,      \* what P4 says of the fields of this packet
  direct,     \* the fields whose bytes an action of this packet has written
  tainted,    \* the fields that were given the value of an outdated copy
  outside,    \* whether an action used a header this packet has not
  leftover    \* the fields an earlier packet left MODIFIED

pd == <<memory, pointer, fields, attr, dropped>>
history == <<value, direct, tainted, outside, leftover>>
vars == <<program, pd, ctl, sent, history>>

-----------------------------------------------------------------------------
(* The program.                                                            *)

Field == program.field
IsMeta(f) == Field[f].meta
Short(f) == Field[f].width <= 32
FieldsOf(h) == {f \in DOMAIN Field : Field[f].hdr = h}
MetaHeaders == {Field[f].hdr : f \in {g \in DOMAIN Field : IsMeta(g)}}

\* header_instance_byte_width.
LengthsOf(F) ==
  [h \in {F[f].hdr : f \in DOMAIN F} |->
     FoldSet(LAMBDA f, sum : sum + F[f].width, 0, {f \in DOMAIN F : F[f].hdr = h}) \div 8]

\* The fields of which parsed_fields_t has a copy.
ParsedOf(P) ==
  LET Calls == UNION {ToSet(P.action[a]) : a \in DOMAIN P.action}
  IN  {f \in DOMAIN P.field :
         /\ ~P.field[f].meta /\ P.field[f].width <= 32
         /\ \E c \in Calls : \/ c.op \in {"const", "param", "add"} /\ f = c.dst
                             \/ c.op = "field" /\ f \in {c.dst, c.src}}

\* What the templates know of a program.
Compiled(name) ==
  LET P == Program[name]
  IN  [name |-> name, field |-> P.field, start |-> P.start, parse |-> P.parse,
       calculated |-> P.calculated, action |-> P.action, node |-> P.node,
       length |-> LengthsOf(P.field), parsed |-> ParsedOf(P)]

-----------------------------------------------------------------------------
(* What is assumed of the programs: that their parts refer to one another, *)
(* and that the compiler reports no error (addError in modify_field and    *)
(* add_to_field).  An access to a field of at most 32 bits as an integer   *)
(* needs its last bit in the four bytes from its first one, a wider field  *)
(* is an array of bytes, begins a byte and is not metadata.                *)

InWord(f) == f.width <= 32 /\ (f.offset % 8) + f.width <= 32
IsNamed(f) == InWord(f) \/ (f.width > 32 /\ is_field_byte_aligned(f) /\ ~f.meta)

LayoutIsSound(P) ==
  LET F == P.field
  IN  /\ IsFiniteSet(DOMAIN F)
      /\ P.length \in [{F[f].hdr : f \in DOMAIN F} -> Nat]
      /\ \A f \in DOMAIN F :
           /\ F[f].meta \in BOOLEAN /\ F[f].offset \in Nat /\ F[f].width \in Nat \ {0}
           /\ F[f].offset + F[f].width <= 8 * P.length[F[f].hdr]
           /\ F[f].hdr # "packet"
           /\ \A g \in DOMAIN F : f # g /\ F[f].hdr = F[g].hdr =>
                /\ F[f].meta = F[g].meta
                /\ \/ F[f].offset + F[f].width <= F[g].offset
                   \/ F[g].offset + F[g].width <= F[f].offset
      /\ \A f \in {IngressPort, EgressPort} :
           f \in DOMAIN F /\ F[f].hdr = Metadata /\ F[f].meta /\ InWord(F[f])

\* A calculated field is one of the words its calculation adds, and the only
\* one of its header.
CalculationsAreSound(P) ==
  \A f \in P.calculated :
    /\ f \in DOMAIN P.field /\ ~P.field[f].meta
    /\ P.field[f].width = 16 /\ P.field[f].offset % 16 = 0
    /\ \A g \in P.calculated : P.field[f].hdr = P.field[g].hdr => f = g

\* A parameter that is copied to a field as bytes has as many as the field, or
\* else the generated code cuts it.
CallIsSound(P, c) ==
  LET Is(x) == x \in DOMAIN P.field /\ IsNamed(P.field[x])
      Word(x) == Is(x) /\ P.field[x].width <= 32
      Bytes(x) == Is(x) /\ is_field_byte_aligned(P.field[x])
  IN  \/ c.op \in {"const", "add"} /\ Word(c.dst) /\ c.value \subseteq Bit
      \/ /\ c.op = "param" /\ c.width \in Nat /\ Is(c.dst)
         /\ \/ Word(c.dst) /\ c.width <= 32
            \/ Bytes(c.dst) /\ c.width % 8 = 0
         /\ Bytes(c.dst) /\ c.width % 8 = 0 =>
              \/ P.field[c.dst].width = c.width
              \/ ~P.field[c.dst].meta /\ (c.width > 32 \/ c.width <= P.field[c.dst].width)
      \/ /\ c.op = "field" /\ Is(c.dst) /\ Is(c.src)
         /\ \/ Word(c.dst) /\ Word(c.src)
            \/ /\ Bytes(c.dst) /\ Bytes(c.src)
               /\ P.field[c.src].meta = P.field[c.dst].meta
      \/ c.op = "digest" /\ c.fields \subseteq DOMAIN P.field
      \/ c.op = "drop"

ParamsAreSound(P, a, ps) ==
  /\ a \in DOMAIN P.action
  /\ \A c \in ToSet(P.action[a]) : c.op = "param" =>
       /\ c.param \in DOMAIN ps
       /\ ps[c.param] \in Seq(Byte) /\ Len(ps[c.param]) = (c.width + 7) \div 8

NodeIsSound(P, n) ==
  LET Nodes == DOMAIN P.node \union {"end"}
      Keys == {f \in DOMAIN P.field : IsNamed(P.field[f])}
  IN  \/ n.kind = "if" /\ n.field \in Keys /\ {n.then, n.else} \subseteq Nodes
      \/ /\ n.kind = "table" /\ n.key \in Seq(Keys) /\ n.by_hit \in BOOLEAN
         /\ \A e \in n.entries : ParamsAreSound(P, e.action, e.params)
         /\ \A a \in n.default : ParamsAreSound(P, a, <<>>)
         /\ IF n.by_hit THEN {n.next.hit, n.next.miss} \subseteq Nodes
            ELSE \A a \in {e.action : e \in n.entries} \union n.default : n.next[a] \in Nodes

\* A case that leads to a table returns from the parser.  One that leads to a
\* condition, or to no node at all, may go on to the cases behind it, so it has to
\* be the last one.
ParserIsSound(P) ==
  /\ P.start \in DOMAIN P.parse
  /\ \A s \in DOMAIN P.parse :
       /\ \E f \in DOMAIN P.field : P.field[f].hdr = P.parse[s].extract /\ ~P.field[f].meta
       /\ P.parse[s].select \in Seq(DOMAIN P.field)
       /\ P.parse[s].cases \in Seq(ToSet(P.parse[s].cases))
       /\ \A n \in DOMAIN P.parse[s].cases :
            LET c == P.parse[s].cases[n]
            IN  \/ c.to = "parse" /\ c.name \in DOMAIN P.parse
                \/ /\ c.to = "node" /\ c.name \in DOMAIN P.node \union {"end"}
                   /\ \/ n = Len(P.parse[s].cases)
                      \/ c.name \in DOMAIN P.node /\ P.node[c.name].kind = "table"

\* A packet has the headers that the parser extracts on any way through it: upto
\* says how far, in bytes, it is after each of its states.  (No function compares
\* the two.)
LongEnough(P, size) ==
  \E upto \in [DOMAIN P.parse -> 0 .. size] :
    /\ P.length[P.parse[P.start].extract] <= upto[P.start]
    /\ \A s \in DOMAIN P.parse : \A n \in DOMAIN P.parse[s].cases :
         LET c == P.parse[s].cases[n]
         IN  c.to = "parse" => upto[s] + P.length[P.parse[c.name].extract] <= upto[c.name]

ProgramIsSound(P) ==
  /\ LayoutIsSound(P) /\ CalculationsAreSound(P) /\ ParserIsSound(P)
  /\ \A a \in DOMAIN P.action :
       /\ P.action[a] \in Seq(ToSet(P.action[a]))
       /\ \A c \in ToSet(P.action[a]) : CallIsSound(P, c)
  /\ \A n \in DOMAIN P.node : NodeIsSound(P, P.node[n])

ASSUME PipelineAssumption ==
  \A p \in DOMAIN Program :
    LET P == Compiled(p)
    IN  /\ ProgramIsSound(P)
        /\ \A packet \in Packet[p] :
             LET size == Cardinality(DOMAIN packet)
             IN  size \in Nat /\ packet \in [0 .. size - 1 -> Byte] /\ LongEnough(P, size)
        /\ \A port \in Port :
             port \subseteq 0 .. P.field[IngressPort].width - 1

-----------------------------------------------------------------------------
(* The program that runs.                                                  *)

Parsed == program.parsed
parsed_field(f) == f \in Parsed

Present(f) == Field[f].hdr \in DOMAIN pointer
Region(f) == IF IsMeta(f) THEN Field[f].hdr ELSE "packet"
Mem(f) == memory[Region(f)]
Desc(f) == field_desc(Field[f], pointer[Field[f].hdr])

\* Every field with a calculation is updated and verified if its header is
\* valid; a mutant without the condition.
CalculatedAlways == program.calculated
Calculated == {f \in program.calculated : Present(f)}

-----------------------------------------------------------------------------
(* Where the code is: before a packet, at a parse state before or after    *)
(* its extraction, at a table or a condition, inside an action, at         *)
(* update_packet, at send_packet, or ended by a signal.                    *)

At(place, name) == [at |-> place, name |-> name, buf |-> 0, todo |-> <<>>, params |-> <<>>]

\* format_p4_node: no node means that the function returns.
Goto(node) == IF node = "end" THEN At("update", node) ELSE At("node", node)

Node == program.node[ctl.name]
Call == Head(ctl.todo)
ToParse == program.parse[ctl.name]
AtTable == ctl.at = "node" /\ Node.kind = "table"
AtCondition == ctl.at = "node" /\ Node.kind = "if"
Calling(op) == ctl.at = "calls" /\ Call.op = op

\* The fields a call names, and those of them it uses in memory.
SameKind(c) == IsMeta(c.src) = IsMeta(c.dst)
CallFields(c) ==
  CASE c.op \in {"const", "add", "param"} -> {c.dst}
    [] c.op = "field" -> {c.src, c.dst}
    [] c.op = "digest" -> c.fields
    [] OTHER -> {}
CallBytes(c) ==
  CASE c.op \in {"const", "add"} -> {c.dst} \ Parsed
    [] c.op = "param" -> {c.dst}
    [] c.op = "field" -> IF SameKind(c) THEN {c.src, c.dst} ELSE {c.src, c.dst} \ Parsed
    [] c.op = "digest" -> c.fields
    [] OTHER -> {}
WrittenBack == {f \in Parsed : attr[f] = MODIFIED}

\* What the program names at this place of it, and what the code then uses.
Named ==
  CASE ctl.at = "select" -> ToSet(ToParse.select)
    [] AtTable -> ToSet(Node.key)
    [] AtCondition -> {Node.field}
    [] ctl.at = "calls" -> CallFields(Call)
    [] OTHER -> {}
BytesUsed ==
  CASE ctl.at = "calls" -> CallBytes(Call)
    [] ctl.at = "select" -> Named \union Calculated
    [] ctl.at = "update" -> WrittenBack \union Calculated
    [] OTHER -> Named
Outside == outside \/ \E f \in Named : ~Present(f)

\* byte_addr of a field of a missing header is its offset from NULL.
Safe == \A f \in BytesUsed : Present(f)

Crash ==
  /\ ~Safe
  /\ ctl' = At("crashed", "none")
  /\ outside' = Outside
  /\ UNCHANGED <<program, pd, sent, value, direct, tainted, leftover>>

-----------------------------------------------------------------------------
(* A packet comes in.                                                      *)

Zeros(h) == [i \in 0 .. program.length[h] - 1 |-> {}]

\* pd is a variable of the worker: the copies and their attributes have no
\* value before the first packet.
Init ==
  /\ program \in {Compiled(name) : name \in DOMAIN Program}
  /\ memory = [r \in MetaHeaders \union {"packet"} |->
                  IF r = "packet" THEN [i \in {} |-> {}] ELSE Zeros(r)]
  /\ pointer = [h \in MetaHeaders |-> 0]
  /\ fields = [f \in Parsed |-> {}]
  /\ attr \in [Parsed -> {0, MODIFIED}]
  /\ dropped = 0
  /\ ctl = At("idle", "none")
  /\ sent = {}
  /\ value = [f \in {} |-> {}]
  /\ direct = {} /\ tainted = {} /\ outside = FALSE /\ leftover = {}

packet_received(packet, port) ==
  /\ ctl.at = "idle"
  /\ memory' = [memory EXCEPT
       !["packet"] = packet,
       ![Metadata] = MODIFY_INT32_INT32_BITS(@, Desc(IngressPort), port)]
  /\ value' = [f \in UNION {FieldsOf(h) : h \in MetaHeaders} |->
                 IF f = IngressPort THEN port ELSE {}]
  /\ leftover' = WrittenBack
  /\ ctl' = At("parse", program.start)
  /\ sent' = {}
  /\ UNCHANGED <<program, pointer, fields, attr, dropped, direct, tainted, outside>>

-----------------------------------------------------------------------------
(* The parser.                                                             *)

Override(f, g) == [x \in DOMAIN f \union DOMAIN g |-> IF x \in DOMAIN g THEN g[x] ELSE f[x]]

\* extract_header_*, and the copies of its fields.
extract_header ==
  LET h == ToParse.extract
      mem == memory["packet"]
      New == FieldsOf(h) \intersect Parsed
  IN  /\ ctl.at = "parse"
      /\ pointer' = Override(pointer, [x \in {h} |-> ctl.buf])
      /\ fields' = [f \in Parsed |-> IF f \in New
                      THEN EXTRACT_INT32_AUTO(mem, field_desc(Field[f], ctl.buf)) ELSE fields[f]]
      /\ attr' = [f \in Parsed |-> IF f \in New THEN 0 ELSE attr[f]]
      /\ value' = Override(value, [f \in FieldsOf(h) |-> P4Value(mem, Field[f], ctl.buf)])
      /\ ctl' = [ctl EXCEPT !.at = "select", !.buf = @ + program.length[h]]
      /\ UNCHANGED <<program, memory, dropped, sent, direct, tainted, outside, leftover>>

\* A value of at most 32 bits takes four bytes of a key, as it lies in memory; a
\* mutant that brings it into the host's order.
WordBytes(w) == [k \in 1 .. 4 |-> {b \in 0 .. 7 : 8 * (k - 1) + b \in w}]
KeyPartNtoh(f) ==
  IF Short(f) THEN WordBytes(EXTRACT_INT32_AUTO(Mem(f), Desc(f))) ELSE EXTRACT_BYTEBUF(Mem(f), Desc(f))
KeyPart(f) ==
  IF Short(f) THEN WordBytes(EXTRACT_INT32_BITS(Mem(f), Desc(f))) ELSE EXTRACT_BYTEBUF(Mem(f), Desc(f))
build_key(selected) == FlattenSeq([n \in DOMAIN selected |-> KeyPart(selected[n])])

\* calculate_*: the 16 bit words of the header but for the field's own.
Number(byte) == SumSet({2 ^ b : b \in byte})
NumberOf == [byte \in Byte |-> Number(byte)]
Fold16(n) == (n % 65536) + (n \div 65536)
csum16(sum) ==
  LET folded == Fold16(Fold16(sum))
      res == IF folded = 65535 THEN folded ELSE 65535 - folded
  IN  {b \in 0 .. 15 : (res \div 2 ^ b) % 2 = 1}
calculate(mem, f) ==
  LET base == pointer[Field[f].hdr]
      Words == {k \in 0 .. program.length[Field[f].hdr] - 2 : k % 2 = 0 /\ k # Field[f].offset \div 8}
      words == [k \in Words |-> NumberOf[mem[base + k]] + 256 * NumberOf[mem[base + k + 1]]]
  IN  csum16(SumFunction(words))

verify_packet ==
  \E f \in Calculated : EXTRACT_INT32_BITS(Mem(f), Desc(f)) # calculate(Mem(f), f)

\* The first case of which the bytes are the first ones of the key; the default
\* case has none.  Without a match the parser returns.
parse_state ==
  LET key == build_key(ToParse.select)
      found == SelectInSeq(ToParse.cases, LAMBDA c : IsPrefix(c.bytes, key))
      next == ToParse.cases[found]
  IN  /\ ctl.at = "select" /\ Safe
      /\ IF found = 0 THEN ctl' = At("update", "end") /\ dropped' = dropped
         ELSE IF next.to = "parse"
         THEN ctl' = [At("parse", next.name) EXCEPT !.buf = ctl.buf] /\ dropped' = dropped
         ELSE ctl' = Goto(next.name) /\ dropped' = IF verify_packet THEN 1 ELSE dropped
      /\ UNCHANGED <<program, memory, pointer, fields, attr, sent, history>>

-----------------------------------------------------------------------------
(* Tables and conditions.                                                  *)

condition ==
  /\ AtCondition /\ Safe
  /\ LET holds == GET_INT32_AUTO(Mem(Node.field), Desc(Node.field)) = Node.equals
     IN  ctl' = Goto(IF holds THEN Node.then ELSE Node.else)
  /\ UNCHANGED <<program, pd, sent, history>>

\* As many bytes as the widths of the fields make together.
WidthOf(key) ==
  LET width[n \in 0 .. Len(key)] == IF n = 0 THEN 0 ELSE width[n - 1] + Field[key[n]].width
  IN  width[Len(key)]
table_key(key) == SubSeq(build_key(key), 1, (WidthOf(key) + 7) \div 8)

\* What a lookup may give: an entry, a default value, which the index behind
\* it may or may not tell from an entry, or nothing.
NoResult == [action |-> "none", params |-> <<>>, hit |-> FALSE]
Lookups(t) ==
  {[action |-> e.action, params |-> e.params, hit |-> TRUE] : e \in t.entries}
  \union {[action |-> a, params |-> <<>>, hit |-> hit] : a \in t.default, hit \in BOOLEAN}
  \union {NoResult}

\* The node after a table; without a result and without cases for a hit and a
\* miss the function returns.
AfterTable(t, res) ==
  CASE t.by_hit -> IF res.hit THEN t.next.hit ELSE t.next.miss
    [] ~t.by_hit /\ res # NoResult -> t.next[res.action]
    [] OTHER -> "end"

apply_table ==
  /\ AtTable /\ Safe
  /\ \E res \in Lookups(Node) :
       LET calls == IF res = NoResult THEN <<>> ELSE program.action[res.action]
           next == AfterTable(Node, res)
       IN  ctl' = IF calls = <<>> THEN Goto(next)
                  ELSE [At("calls", next) EXCEPT !.todo = calls, !.params = res.params]
  /\ UNCHANGED <<program, pd, sent, history>>

-----------------------------------------------------------------------------
(* Primitive actions.                                                      *)

CallDone ==
  ctl' = IF Len(ctl.todo) = 1 THEN Goto(ctl.name) ELSE [ctl EXCEPT !.todo = Tail(@)]

SetMem(f, mem) == memory' = [memory EXCEPT ![Region(f)] = mem]
SetValue(f, new) ==
  value' = IF f \in DOMAIN value THEN [value EXCEPT ![f] = Truncate(new, Field[f].width)] ELSE value

modify_int32_int32(f, value32) ==
  IF parsed_field(f)
  THEN /\ fields' = [fields EXCEPT ![f] = value32]
       /\ attr' = [attr EXCEPT ![f] = MODIFIED]
       /\ UNCHANGED memory
  ELSE /\ SetMem(f, MODIFY_INT32_INT32_AUTO(Mem(f), Desc(f), value32))
       /\ UNCHANGED <<fields, attr>>

int32(f) == IF parsed_field(f) THEN fields[f] ELSE EXTRACT_INT32_AUTO(Mem(f), Desc(f))

\* What P4 says of a field, and whether its copy and its bytes were both
\* changed by this packet.
Says(f) == IF f \in DOMAIN value THEN value[f] ELSE {}
Mixed(f) == f \in direct \intersect WrittenBack

modify_const ==
  /\ Calling("const") /\ Safe
  /\ modify_int32_int32(Call.dst, Call.value)
  /\ SetValue(Call.dst, Call.value)
  /\ tainted' = tainted \ {Call.dst}
  /\ outside' = Outside /\ CallDone
  /\ UNCHANGED <<program, pointer, dropped, sent, direct, leftover>>

\* A parameter that is as good as bytes is copied, any other becomes an integer.
ByBytes(f, width) == is_field_byte_aligned(Field[f]) /\ width % 8 = 0
Trailing(bytes, n) == SubSeq(bytes, Len(bytes) - n + 1, Len(bytes))
Param == ctl.params[Call.param]
ParamBytes(c) ==
  LET fd == Desc(c.dst)
  IN  IF Len(Param) < fd.bytewidth THEN Param ELSE Trailing(Param, fd.bytewidth)

\* The value the controller means: addresses are sent as bytes in the order of
\* the packet, everything else in the order of the host.
ParamValue(c) ==
  IF ByBytes(c.dst, c.width) /\ ~IsMeta(c.dst) THEN BigEndian(Param) ELSE LittleEndian(Param)

modify_param ==
  LET f == Call.dst
  IN  /\ Calling("param") /\ Safe
      /\ IF ByBytes(f, Call.width)
         THEN SetMem(f, MODIFY_BYTEBUF_BYTEBUF(Mem(f), Desc(f), ParamBytes(Call)))
         ELSE SetMem(f, MODIFY_INT32_BYTEBUF(Mem(f), Desc(f), Param))
      /\ SetValue(f, ParamValue(Call))
      /\ direct' = direct \union {f}
      /\ tainted' = tainted \ {f}
      /\ outside' = Outside /\ CallDone
      /\ UNCHANGED <<program, pointer, fields, attr, dropped, sent, leftover>>

\* Fields of one kind are copied as bytes, even if the source has been changed
\* in its copy; and in a header a value survives that only if both fields lie
\* alike or in one byte each.
Alike(f, g) ==
  LET Lies(h) == <<Field[h].offset % 8, Field[h].width>>
  IN  Lies(f) = Lies(g) \/ \A h \in {f, g} : Lies(h)[1] + Lies(h)[2] <= 8

copy_bytes ==
  LET dst == Call.dst
      src == Call.src
      new == IF Short(src) /\ Short(dst)
             THEN MODIFY_INT32_INT32_BITS(Mem(dst), Desc(dst), EXTRACT_INT32_BITS(Mem(src), Desc(src)))
             ELSE LET bytes == EXTRACT_BYTEBUF(Mem(src), Desc(src))
                      fd == Desc(dst)
                  IN  MODIFY_BYTEBUF_BYTEBUF(Mem(dst), fd,
                        IF Len(bytes) < fd.bytewidth THEN bytes ELSE Trailing(bytes, fd.bytewidth))
      bad == \/ src \in tainted \/ src \in WrittenBack
             \/ Short(src) /\ Short(dst) /\ ~IsMeta(src) /\ ~Alike(src, dst)
  IN  /\ Calling("field") /\ SameKind(Call) /\ Safe
      /\ SetMem(dst, new)
      /\ SetValue(dst, Says(src))
      /\ direct' = direct \union {dst}
      /\ tainted' = IF bad THEN tainted \union {dst} ELSE tainted \ {dst}
      /\ outside' = Outside /\ CallDone
      /\ UNCHANGED <<program, pointer, fields, attr, dropped, sent, leftover>>

\* Between a header and metadata the header's field is used in its copy, and
\* marked MODIFIED even if it is only read.  The copy has 32 bits: those above
\* the field's width go into a wider one.  Of a header this packet has not, it
\* is still that of an earlier packet.
TooWide(src, dst) == Truncate(fields[src], Field[dst].width) # Truncate(fields[src], Field[src].width)

copy_int32 ==
  LET dst == Call.dst
      src == Call.src
      bad == \/ src \in tainted
             \/ parsed_field(src) /\ (~Present(src) \/ src \in direct \/ TooWide(src, dst))
  IN  /\ Calling("field") /\ ~SameKind(Call) /\ Safe
      /\ IF parsed_field(dst) THEN modify_int32_int32(dst, int32(src))
         ELSE /\ SetMem(dst, MODIFY_INT32_INT32_AUTO(Mem(dst), Desc(dst), int32(src)))
              /\ attr' = [attr EXCEPT ![src] = MODIFIED]
              /\ UNCHANGED fields
      /\ SetValue(dst, Says(src))
      /\ tainted' = IF bad THEN tainted \union {dst} ELSE tainted \ {dst}
      /\ outside' = Outside /\ CallDone
      /\ UNCHANGED <<program, pointer, dropped, sent, direct, leftover>>

add_to_field ==
  LET f == Call.dst
  IN  /\ Calling("add") /\ Safe
      /\ modify_int32_int32(f, Plus(Call.value, int32(f)))
      /\ SetValue(f, Plus(Call.value, Says(f)))
      /\ outside' = Outside /\ CallDone
      /\ UNCHANGED <<program, pointer, dropped, sent, direct, tainted, leftover>>

drop ==
  /\ Calling("drop") /\ CallDone
  /\ dropped' = 1
  /\ UNCHANGED <<program, memory, pointer, fields, attr, sent, history>>

\* Reads the bytes of its fields into a message (see Backend).
generate_digest ==
  /\ Calling("digest") /\ Safe /\ CallDone
  /\ UNCHANGED <<program, pd, sent, history>>

-----------------------------------------------------------------------------
(* The packet goes out.                                                    *)

\* The copies first, and then what is computed from the bytes; a mutant in the
\* other order.
CopiesWritten(mem) ==
  FoldSet(LAMBDA f, m : MODIFY_INT32_INT32_AUTO(m, Desc(f), fields[f]), mem, WrittenBack)
CalculationsWritten(mem) ==
  FoldSet(LAMBDA f, m : MODIFY_INT32_INT32_BITS(m, Desc(f), calculate(m, f)), mem, Calculated)
UpdatedTooEarly(mem) == CopiesWritten(CalculationsWritten(mem))
Updated(mem) == CalculationsWritten(CopiesWritten(mem))

update_packet ==
  /\ ctl.at = "update" /\ Safe
  /\ memory' = [memory EXCEPT !["packet"] = Updated(@)]
  /\ ctl' = At("send", "none")
  /\ UNCHANGED <<program, pointer, fields, attr, dropped, sent, history>>

\* The port, and the same once the headers are reset.
PortAfterReset == GET_INT32_AUTO(Zeros(Metadata), Desc(EgressPort))
EXTRACT_EGRESSPORT == GET_INT32_AUTO(Mem(EgressPort), Desc(EgressPort))

\* The copies keep their attributes.
reset_headers ==
  /\ pointer' = Restrict(pointer, MetaHeaders)
  /\ memory' = [r \in DOMAIN memory |->
                  IF r = "packet" THEN [i \in {} |-> {}] ELSE Zeros(r)]

\* Nobody asks whether the packet was dropped.
send_packet ==
  /\ ctl.at = "send"
  /\ sent' = EXTRACT_EGRESSPORT
  /\ reset_headers
  /\ ctl' = At("idle", "none")
  /\ value' = [f \in {} |-> {}]
  /\ direct' = {} /\ tainted' = {} /\ outside' = FALSE /\ leftover' = {}
  /\ UNCHANGED <<program, fields, attr, dropped>>

Next ==
  \/ \E packet \in Packet[program.name], port \in Port : packet_received(packet, port)
  \/ extract_header \/ parse_state
  \/ condition \/ apply_table
  \/ modify_const \/ modify_param \/ copy_bytes \/ copy_int32 \/ add_to_field
  \/ drop \/ generate_digest
  \/ update_packet \/ send_packet
  \/ Crash

Spec == Init /\ [][Next]_vars

-----------------------------------------------------------------------------
(* Properties.                                                             *)

\* The value the code would use for a field in the end: its copy while that is
\* to be written back, or else its bytes.
Held(f) ==
  IF f \in WrittenBack /\ ctl.at # "send" THEN Truncate(fields[f], Field[f].width)
  ELSE IF IsMeta(f) /\ Short(f) THEN EXTRACT_INT32_BITS(Mem(f), Desc(f))
  ELSE P4Value(Mem(f), Field[f], pointer[Field[f].hdr])

\* Every field of the packet's headers and of the metadata, those between which
\* an access falls included, has the value P4 gives it, whatever the packets
\* before it were, wherever the field lies in its bytes and however many bits
\* it has.  It may differ in two ways only: the packet changed the field both
\* in its copy and in its bytes, or it was given the value of a field that was
\* read where it was out of date, is of a header this packet has not, lies
\* elsewhere or is narrower.  (actions.c.py, odp_primitives.h)
FieldsHoldTheirValues ==
  ctl.at \in {"node", "calls", "update", "send"} =>
    \A f \in DOMAIN value \ program.calculated :
      Held(f) = value[f] \/ Mixed(f) \/ f \in tainted

\* A key the controller would file an entry under: addresses as they are in a
\* packet, metadata as the host has it, each in its number of whole bytes.
FiledKey(key) ==
  LET Part(f) ==
        LET n == (Field[f].width + 7) \div 8
        IN  [k \in 1 .. n |->
               LET at == IF IsMeta(f) THEN k - 1 ELSE n - k
               IN  {b \in 0 .. 7 : 8 * at + b \in value[f]}]
  IN  FlattenSeq([n \in DOMAIN key |-> Part(key[n])])

\* A table is asked for the key under which the control plane has filed the
\* field's value, if the field's bytes are up to date, begin a byte or are
\* metadata, and no shorter field than one of four bytes comes before another
\* one in the key.  (dataplane.c.py:35, controlplane.c.py:40)
KeysMatch ==
  (AtTable /\ Safe /\ Node.key # <<>>
   /\ \A n \in DOMAIN Node.key :
        LET f == Node.key[n]
        IN  /\ f \notin tainted \union WrittenBack
            /\ IsMeta(f) \/ is_field_byte_aligned(Field[f])
            /\ n < Len(Node.key) => Field[f].width >= 32 /\ Field[f].width % 8 = 0)
  => table_key(Node.key) = FiledKey(Node.key)

\* A packet leaves with the checksum of the header it leaves with, after every
\* change to that header.  (dataplane.c.py:278)
ChecksumsHold ==
  ctl.at = "send" =>
    \A f \in Calculated : EXTRACT_INT32_BITS(Mem(f), Desc(f)) = calculate(Mem(f), f)

\* Every packet is sent, the dropped ones too, and to the port the program gave
\* it; port 0 if it gave none.  (main_odp.c:225)
SentWhereTold ==
  [][ctl.at = "send" =>
       \/ sent' = value[EgressPort]
       \/ EgressPort \in tainted]_vars

\* The process ends inside a packet only where the program uses a header which
\* that packet has not, or because an earlier packet left a copy MODIFIED of
\* a header this one has not.  (dataplane.c.py:284)
CrashOnlyOnMissingHeader ==
  ctl.at = "crashed" => outside \/ \E f \in leftover : ~Present(f)
=============================================================================
