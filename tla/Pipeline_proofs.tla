-------------------------- MODULE Pipeline_proofs --------------------------
(***************************************************************************)
(* Theorems about the generated code (Pipeline, on the macros of Fields).  *)
(* What a macro reads or writes is found first, bit by bit: a read gives   *)
(* the bits the field has in the packet or in the host's order, a write    *)
(* changes the field's bits and no other.  PipelineInv is inductive:       *)
(* ProgramInv and PlaceInv keep the worker where the program has a node,   *)
(* MarkedInv accounts for every copy that is MODIFIED, MemoryInv keeps     *)
(* every header inside the packet and apart from the others, and ValuesInv *)
(* says what the copy and the bytes of a field hold at every place.  Since *)
(* the fields do not overlap, a step that writes one of them disturbs no   *)
(* other, and update_packet may write them in any order.                   *)
(***************************************************************************)
EXTENDS Pipeline, FiniteSetTheorems, SequenceTheorems, WellFoundedInduction, TLAPS

-----------------------------------------------------------------------------
(* Reading a field as an integer.                                          *)

\* Bit s of memory, counted as it is sent, and bit Flip(s) of a word loaded from
\* memory by the little-endian host are the same; and the other way round.
Flip(s) == 8 * (s \div 8) + (7 - (s % 8))

\* A position mirrored in its byte stays in that byte, and mirrored twice is
\* where it was.
LEMMA FlipFacts ==
  ASSUME NEW s \in Nat
  PROVE  /\ Flip(s) \in Nat /\ Flip(Flip(s)) = s
         /\ Flip(s) \div 8 = s \div 8 /\ Flip(s) % 8 = 7 - (s % 8)
         /\ s \div 8 \in Nat /\ s % 8 \in 0 .. 7
BY DEF Flip

\* Shifted right by n, a word has the bits that were n higher.
LEMMA ShiftRightBit ==
  ASSUME NEW W, \A i \in W : i \in Nat, NEW n \in Nat, NEW x
  PROVE  x \in ShiftRight(W, n) <=> x \in Nat /\ x + n \in W
<1>1. ASSUME x \in ShiftRight(W, n) PROVE x \in Nat /\ x + n \in W
  <2>1. PICK i \in W : i >= n /\ x = i - n
    BY <1>1 DEF ShiftRight
  <2> QED BY <2>1
<1>2. ASSUME x \in Nat, x + n \in W PROVE x \in ShiftRight(W, n)
  <2>1. x + n >= n /\ x = (x + n) - n
    BY <1>2
  <2> QED BY <1>2, <2>1 DEF ShiftRight
<1> QED BY <1>1, <1>2

\* Shifted left by n, a word of 32 bits has those that were n lower.
LEMMA ShiftLeftBit ==
  ASSUME NEW W, \A i \in W : i \in Nat, NEW n \in Nat, NEW x
  PROVE  x \in ShiftLeft(W, n) <=> x \in Bit /\ x - n \in W
<1>1. ASSUME x \in ShiftLeft(W, n) PROVE x \in Bit /\ x - n \in W
  <2>1. PICK i \in W : i + n \in Bit /\ x = i + n
    BY <1>1 DEF ShiftLeft
  <2> QED BY <2>1 DEF Bit
<1>2. ASSUME x \in Bit, x - n \in W PROVE x \in ShiftLeft(W, n)
  <2>1. (x - n) + n \in Bit /\ x = (x - n) + n
    BY <1>2 DEF Bit
  <2> QED BY <1>2, <2>1 DEF ShiftLeft
<1> QED BY <1>1, <1>2

\* The mask of a field has the bits that are the field's, counted from the
\* first of its word.
LEMMA MaskBit ==
  ASSUME NEW o \in 0 .. 7, NEW w \in 1 .. 32, o + w <= 32, NEW i
  PROVE  i \in field_mask(o, w) <=> i \in Bit /\ Flip(i) \in o .. o + w - 1
<1>1. field_mask(o, w) = {Flip(t) : t \in o .. o + w - 1}
  BY DEF field_mask, Flip
<1>2. ASSUME i \in field_mask(o, w) PROVE i \in Bit /\ Flip(i) \in o .. o + w - 1
  <2>1. PICK t \in o .. o + w - 1 : i = Flip(t)
    BY <1>1, <1>2
  <2>2. t \in Nat /\ t < 32
    BY <2>1
  <2>3. Flip(t) < 32
    BY <2>2 DEF Flip
  <2>4. Flip(t) \in Nat /\ Flip(Flip(t)) = t
    BY <2>2, FlipFacts
  <2> QED BY <2>1, <2>3, <2>4 DEF Bit
<1>3. ASSUME i \in Bit, Flip(i) \in o .. o + w - 1 PROVE i \in field_mask(o, w)
  <2>1. i = Flip(Flip(i))
    BY <1>3, FlipFacts DEF Bit
  <2> QED BY <1>1, <1>3, <2>1
<1> QED BY <1>2, <1>3

\* A bit of a word that is loaded is a bit of one of its bytes.
LEMMA LoadBit ==
  ASSUME NEW mem, \A x \in DOMAIN mem : mem[x] \in Byte,
         NEW addr \in Nat, NEW n \in Nat, NEW i \in Nat
  PROVE  i \in Load(mem, addr, n) <=>
           /\ i \div 8 < n /\ addr + (i \div 8) \in DOMAIN mem
           /\ i % 8 \in mem[addr + (i \div 8)]
<1> DEFINE K == {k \in 0 .. n - 1 : addr + k \in DOMAIN mem}
           Part(k) == {8 * k + b : b \in mem[addr + k]}
<1>1. ASSUME NEW k \in K, NEW b \in mem[addr + k], i = 8 * k + b
      PROVE  i \div 8 = k /\ i % 8 = b
  <2>1. b \in 0 .. 7 /\ k \in Nat
    BY <1>1 DEF Byte
  <2> QED BY <1>1, <2>1
<1>2. i \in Load(mem, addr, n) <=> \E k \in K : i \in Part(k)
  BY DEF Load
<1>3. ASSUME i \div 8 \in K, i % 8 \in mem[addr + (i \div 8)] PROVE i \in Part(i \div 8)
  <2>1. i = 8 * (i \div 8) + (i % 8)
    OBVIOUS
  <2> QED BY <1>3, <2>1
<1>4. i \div 8 < n <=> i \div 8 \in 0 .. n - 1
  OBVIOUS
<1> QED BY <1>1, <1>2, <1>3, <1>4

\* be_16 exchanges two bytes.
LEMMA be_16Bit ==
  ASSUME NEW W, \A i \in W : i \in Nat, NEW x
  PROVE  x \in be_16(W) <=> x \in 0 .. 15 /\ (IF x < 8 THEN x + 8 ELSE x - 8) \in W
<1> DEFINE Swapped(i) == IF i < 8 THEN i + 8 ELSE i - 8
<1>1. \A i \in 0 .. 15 : Swapped(i) \in 0 .. 15 /\ Swapped(Swapped(i)) = i
  OBVIOUS
<1>2. be_16(W) = {Swapped(i) : i \in Truncate(W, 16)}
  BY DEF be_16
<1>3. \A i : i \in Truncate(W, 16) <=> i \in W /\ i \in 0 .. 15
  BY DEF Truncate
<1> HIDE DEF Swapped
<1>4. x \in be_16(W) <=> x \in 0 .. 15 /\ Swapped(x) \in W
  BY <1>1, <1>2, <1>3
<1> QED BY <1>4 DEF Swapped

\* be_32 reverses four bytes.
LEMMA be_32Bit ==
  ASSUME NEW W, \A i \in W : i \in Bit, NEW x
  PROVE  x \in be_32(W) <=> x \in Bit /\ 8 * (3 - x \div 8) + (x % 8) \in W
<1> DEFINE Swapped(i) == 8 * (3 - i \div 8) + (i % 8)
<1>1. \A i \in Bit : Swapped(i) \in Bit /\ Swapped(Swapped(i)) = i
  BY DEF Bit
<1>2. be_32(W) = {Swapped(i) : i \in W}
  BY DEF be_32
<1> HIDE DEF Swapped
<1>3. x \in be_32(W) <=> x \in Bit /\ Swapped(x) \in W
  BY <1>1, <1>2
<1> QED BY <1>3 DEF Swapped

-----------------------------------------------------------------------------
(* A field as a word.                                                      *)

\* A field of at most 32 bits in a header at p of which the bytes are in mem.
Lies(F, p, mem) ==
  /\ F.offset \in Nat /\ F.width \in Nat \ {0} /\ p \in Nat
  /\ \A x \in DOMAIN mem : mem[x] \in Byte
  /\ \A x \in p + F.offset \div 8 .. p + (F.offset + F.width - 1) \div 8 : x \in DOMAIN mem

BitAt(mem, p, s) == 7 - (s % 8) \in mem[p + s \div 8]

\* A bit of a field's word, where it is one of the field's, is that of the
\* packet.
LEMMA WordBitOf ==
  ASSUME NEW F, NEW p, NEW mem, Lies(F, p, mem), InWord(F), NEW fd, fd = field_desc(F, p),
         NEW i \in Nat, Flip(i) \in (F.offset % 8) .. (F.offset % 8) + F.width - 1
  PROVE  i \in FIELD_BYTES(mem, fd) <=> BitAt(mem, p, F.offset - (F.offset % 8) + Flip(i))
<1> DEFINE o == F.offset % 8
           a == F.offset \div 8
           w == F.width
           n == IF fd.bytecount <= 2 THEN fd.bytecount ELSE 4
           s == F.offset - o + Flip(i)
<1>1. /\ o \in 0 .. 7 /\ a \in Nat /\ w \in 1 .. 32 /\ o + w <= 32 /\ F.offset = 8 * a + o
  BY DEF Lies, InWord
<1>2. fd.byte_addr = p + a /\ fd.bytecount = (w + 7 + o) \div 8
  BY DEF field_desc
<1>3. i \div 8 = Flip(i) \div 8 /\ i % 8 = 7 - (Flip(i) % 8) /\ Flip(i) \in Nat
  BY FlipFacts
<1>4. Flip(i) \in o .. o + w - 1
  OBVIOUS
<1> HIDE DEF o, a, w
<1>5. n \in Nat /\ i \div 8 < n
  BY <1>1, <1>2, <1>3, <1>4
<1>6. s = 8 * a + Flip(i)
  BY <1>1, <1>3
<1>7. s \div 8 = a + (i \div 8) /\ 7 - (s % 8) = i % 8
  <2>1. PICK g \in Nat : g = Flip(i)
    BY <1>3
  <2>2. (8 * a + g) \div 8 = a + (g \div 8) /\ (8 * a + g) % 8 = g % 8
    BY <1>1
  <2> QED BY <1>1, <1>3, <1>6, <2>1, <2>2
<1>8. p \in Nat /\ p + a + (i \div 8) \in DOMAIN mem
  <2>1. a + (i \div 8) <= (F.offset + w - 1) \div 8
    BY <1>1, <1>3, <1>4
  <2>2. i \div 8 \in Nat /\ p \in Nat
    BY DEF Lies
  <2>3. p + a + (i \div 8) \in p + a .. p + (F.offset + w - 1) \div 8
    BY <1>1, <2>1, <2>2
  <2> QED BY <2>2, <2>3 DEF Lies, a, w
<1>9. i \in FIELD_BYTES(mem, fd) <=> i % 8 \in mem[p + a + (i \div 8)]
  <2>1. FIELD_BYTES(mem, fd) = Load(mem, p + a, n)
    BY <1>2 DEF FIELD_BYTES
  <2>2. p + a \in Nat
    BY <1>1, <1>8
  <2>3. i \in Load(mem, p + a, n) <=>
          /\ i \div 8 < n /\ p + a + (i \div 8) \in DOMAIN mem
          /\ i % 8 \in mem[p + a + (i \div 8)]
    <3> HIDE DEF n
    <3> QED BY <1>5, <2>2, LoadBit DEF Lies
  <2> QED BY <1>5, <1>8, <2>1, <2>3
<1>10. p + (s \div 8) = p + a + (i \div 8)
  <2>1. i \div 8 \in Nat
    OBVIOUS
  <2> QED BY <1>1, <1>7, <1>8, <2>1
<1> QED BY <1>7, <1>9, <1>10 DEF BitAt, o

\* The bits of a header that bit j of a value is in: as the network has it, and
\* as the host has it where the bits of the word at the end of which they are.
HostWord(o, w, j) ==
  LET L == (o + w - 1) \div 8
  IN  IF L = 0 THEN j + 8 - (o + w)
      ELSE IF j < 8 - o THEN j
      ELSE IF j < 8 * L - o THEN j + o
      ELSE j + 8 * (L + 1) - w
ValueBit(F, order, j) ==
  IF order = "host" THEN F.offset - (F.offset % 8) + Flip(HostWord(F.offset % 8, F.width, j))
  ELSE F.offset + F.width - 1 - j
ReadAs(mem, F, p, order) == {j \in 0 .. F.width - 1 : BitAt(mem, p, ValueBit(F, order, j))}

\* What P4 says of a field of a header is the field read in the order of the
\* packet.
LEMMA NetIsP4Value == \A mem, F, p : P4Value(mem, F, p) = ReadAs(mem, F, p, "net")
BY DEF P4Value, ReadAs, BitAt, ValueBit

\* The shift of a value's bit to the word's.
LEMMA HostWordFacts ==
  ASSUME NEW o \in 0 .. 7, NEW w \in 1 .. 32, o + w <= 32, NEW j \in 0 .. w - 1
  PROVE  /\ HostWord(o, w, j) \in Bit
         /\ Flip(HostWord(o, w, j)) \in o .. o + w - 1
<1> DEFINE L == (o + w - 1) \div 8
<1>1. L \in 0 .. 3 /\ 8 * L <= o + w - 1 /\ o + w - 1 < 8 * L + 8
  OBVIOUS
<1> HIDE DEF L
<1>2. CASE L = 0
  <2>1. HostWord(o, w, j) = j + 8 - (o + w)
    BY <1>2 DEF HostWord, L
  <2> QED BY <1>1, <1>2, <2>1 DEF Flip, Bit
<1>3. CASE L # 0 /\ j < 8 - o
  <2>1. HostWord(o, w, j) = j
    BY <1>3 DEF HostWord, L
  <2> QED BY <1>1, <1>3, <2>1 DEF Flip, Bit
<1>4. CASE L # 0 /\ ~(j < 8 - o) /\ j < 8 * L - o
  <2>1. HostWord(o, w, j) = j + o
    BY <1>4 DEF HostWord, L
  <2> QED BY <1>1, <1>4, <2>1 DEF Flip, Bit
<1>5. CASE L # 0 /\ ~(j < 8 - o) /\ ~(j < 8 * L - o)
  <2>1. HostWord(o, w, j) = j + 8 * (L + 1) - w
    BY <1>5 DEF HostWord, L
  <2> QED BY <1>1, <1>5, <2>1 DEF Flip, Bit
<1> QED BY <1>2, <1>3, <1>4, <1>5

\* The bit behind a bit of the value is one of the field's.
LEMMA ValueBitRange ==
  ASSUME NEW F, F.offset \in Nat, F.width \in Nat \ {0}, NEW order, order = "host" => InWord(F),
         NEW j \in 0 .. F.width - 1
  PROVE  ValueBit(F, order, j) \in F.offset .. F.offset + F.width - 1
<1>1. CASE order = "host"
  <2> DEFINE o == F.offset % 8
             i == HostWord(o, F.width, j)
  <2>1. o \in 0 .. 7 /\ F.offset - o \in Nat /\ F.width \in 1 .. 32 /\ o + F.width <= 32
    BY <1>1 DEF InWord
  <2>2. Flip(i) \in o .. o + F.width - 1
    <3> HIDE DEF o
    <3> QED BY <2>1, HostWordFacts
  <2>3. ValueBit(F, order, j) = F.offset - o + Flip(i)
    BY <1>1 DEF ValueBit
  <2> HIDE DEF i, o
  <2> QED BY <2>1, <2>2, <2>3
<1>2. CASE order # "host"
  BY <1>2 DEF ValueBit
<1> QED BY <1>1, <1>2

\* What the descriptor of a field of at most 32 bits says.
LEMMA DescFacts ==
  ASSUME NEW F, NEW p, NEW fd, fd = field_desc(F, p), F.offset \in Nat, InWord(F), F.width \in Nat \ {0}, NEW o, o = F.offset % 8
  PROVE  /\ fd.bitwidth = F.width /\ fd.bitoffset = o /\ FIELD_BITCOUNT(fd) = F.width + o
         /\ o \in 0 .. 7 /\ F.width \in 1 .. 32 /\ o + F.width <= 32
         /\ fd.bytecount = ((o + F.width - 1) \div 8) + 1 /\ fd.bytecount \in 1 .. 4
         /\ LastByte(fd) = 8 * (fd.bytecount - 1)
         /\ fd.mask = field_mask(o, F.width) /\ fd.meta = F.meta
<1>1. o \in 0 .. 7 /\ F.width \in 1 .. 32 /\ o + F.width <= 32
  BY DEF InWord
<1>2. /\ fd.bitwidth = F.width /\ fd.bitoffset = o /\ FIELD_BITCOUNT(fd) = F.width + o
      /\ fd.bytecount = (F.width + 7 + o) \div 8 /\ fd.mask = field_mask(o, F.width)
      /\ fd.meta = F.meta
  BY DEF field_desc, FIELD_BITCOUNT
<1>3. (F.width + 7 + o) \div 8 = ((o + F.width - 1) \div 8) + 1
  BY <1>1
<1>4. LastByte(fd) = 8 * ((F.width + o - 1) \div 8)
  BY <1>2 DEF LastByte
<1> QED BY <1>1, <1>2, <1>3, <1>4

\* The masked word, by the bits of the header.
LEMMA MaskedBit ==
  ASSUME NEW F, NEW p, NEW mem, Lies(F, p, mem), InWord(F), NEW fd, fd = field_desc(F, p), NEW i
  PROVE  i \in FIELD_MASKED_BYTES(mem, fd) <=>
           /\ i \in Bit /\ Flip(i) \in (F.offset % 8) .. (F.offset % 8) + F.width - 1
           /\ BitAt(mem, p, F.offset - (F.offset % 8) + Flip(i))
<1> DEFINE o == F.offset % 8
<1>1. F.offset \in Nat /\ F.width \in Nat \ {0}
  BY DEF Lies
<1>2. i \in fd.mask <=> i \in Bit /\ Flip(i) \in o .. o + F.width - 1
  <2>1. fd.mask = field_mask(o, F.width) /\ o \in 0 .. 7 /\ F.width \in 1 .. 32 /\ o + F.width <= 32
    BY <1>1, DescFacts
  <2> HIDE DEF o
  <2>2. PICK w \in 1 .. 32 : w = F.width
    BY <2>1
  <2>3. i \in field_mask(o, w) <=> i \in Bit /\ Flip(i) \in o .. o + w - 1
    BY <2>1, <2>2, MaskBit
  <2> QED BY <2>1, <2>2, <2>3
<1>3. i \in FIELD_MASKED_BYTES(mem, fd) <=> i \in FIELD_BYTES(mem, fd) /\ i \in fd.mask
  BY DEF FIELD_MASKED_BYTES
<1>4. i \in Bit => i \in Nat
  BY DEF Bit
<1> QED BY <1>2, <1>3, <1>4, WordBitOf


\* A word in which the bits of a value are the network's, brought down.
NetBits(mem, p, base, top, w) == {x \in 0 .. w - 1 : BitAt(mem, p, base + (top - x))}

\* The field read in the order of the packet, from the first bit of its word.
LEMMA NetBitsAre ==
  ASSUME NEW F, NEW p, NEW mem, F.offset \in Nat, F.width \in Nat \ {0}, NEW o \in Nat, F.offset - o \in Nat
  PROVE  ReadAs(mem, F, p, "net") = NetBits(mem, p, F.offset - o, o + F.width - 1, F.width)
<1>1. \A x \in 0 .. F.width - 1 : ValueBit(F, "net", x) = F.offset - o + (o + F.width - 1 - x)
  BY DEF ValueBit
<1>2. \A x \in 0 .. F.width - 1 :
        BitAt(mem, p, ValueBit(F, "net", x)) <=> BitAt(mem, p, F.offset - o + (o + F.width - 1 - x))
  BY <1>1
<1> QED BY <1>2 DEF ReadAs, NetBits

\* A word in the packet's order, shifted down by what comes after the field, is
\* the field.
LEMMA ShiftDown ==
  ASSUME NEW mem, NEW p, NEW base, NEW o \in Nat, NEW w \in Nat, NEW n \in Nat, o + w <= n,
         NEW W, \A i \in W : i \in 0 .. n - 1,
         \A i \in 0 .. n - 1 :
           i \in W <=> n - 1 - i \in o .. o + w - 1 /\ BitAt(mem, p, base + (n - 1 - i))
  PROVE  ShiftRight(W, n - (w + o)) = NetBits(mem, p, base, o + w - 1, w)
<1>1. n - (w + o) \in Nat /\ \A i \in W : i \in Nat
  OBVIOUS
<1>2. ASSUME NEW x PROVE x \in ShiftRight(W, n - (w + o)) <=> x \in NetBits(mem, p, base, o + w - 1, w)
  <2>1. x \in ShiftRight(W, n - (w + o)) <=> x \in Nat /\ x + (n - (w + o)) \in W
    BY <1>1, ShiftRightBit
  <2>2. CASE x \in 0 .. w - 1
    <3>1. PICK i \in 0 .. n - 1 : i = x + (n - (w + o))
      BY <2>2
    <3>2. n - 1 - i = o + w - 1 - x /\ n - 1 - i \in o .. o + w - 1
      BY <2>2, <3>1
    <3> QED BY <2>1, <2>2, <3>1, <3>2 DEF NetBits
  <2>3. CASE x \notin 0 .. w - 1
    <3>1. x \notin NetBits(mem, p, base, o + w - 1, w)
      BY <2>3 DEF NetBits
    <3>2. ASSUME x \in Nat, x + (n - (w + o)) \in W PROVE FALSE
      <4>1. PICK i \in 0 .. n - 1 : i = x + (n - (w + o)) /\ i \in W
        BY <3>2
      <4>2. n - 1 - i \in o .. o + w - 1
        BY <4>1
      <4> QED BY <2>3, <3>2, <4>1, <4>2
    <3> QED BY <2>1, <3>1, <3>2
  <2> QED BY <2>2, <2>3
<1> QED BY <1>2

\* Read in the order of the packet, a field of at most 32 bits has the value P4
\* says.
LEMMA NetRead ==
  ASSUME NEW F, NEW p, NEW mem, Lies(F, p, mem), InWord(F), NEW fd, fd = field_desc(F, p)
  PROVE  /\ EXTRACT_INT32_NTOH(mem, fd) = ReadAs(mem, F, p, "net")
         /\ ~fd.meta => GET_INT32_AUTO(mem, fd) = ReadAs(mem, F, p, "net")
<1> DEFINE o == F.offset % 8
           w == F.width
           base == F.offset - o
           masked == FIELD_MASKED_BYTES(mem, fd)
           read == NetBits(mem, p, base, o + w - 1, w)
<1>1. F.offset \in Nat /\ w \in Nat \ {0} /\ F.offset - o \in Nat /\ o \in Nat
  BY DEF Lies
<1>2. /\ o \in 0 .. 7 /\ w \in 1 .. 32 /\ o + w <= 32 /\ FIELD_BITCOUNT(fd) = w + o
      /\ fd.bytecount = ((o + w - 1) \div 8) + 1
  BY <1>1, DescFacts
<1>3. \A i : i \in masked <=> i \in Bit /\ Flip(i) \in o .. o + w - 1 /\ BitAt(mem, p, base + Flip(i))
  BY MaskedBit
<1>4. ReadAs(mem, F, p, "net") = read
  BY <1>1, NetBitsAre
<1> HIDE DEF o, w, base, masked
<1>6. \A i \in masked : i \in Bit
  BY <1>3
<1>7. ASSUME fd.bytecount = 1 PROVE ShiftRight(masked, 8 - (w + o)) = read
  <2>1. PICK n \in Nat : n = 8
    OBVIOUS
  <2>2. o + w <= n
    BY <1>2, <1>7, <2>1
  <2>3. \A i \in Bit : Flip(i) \in o .. o + w - 1 => i \in 0 .. n - 1
    BY <1>2, <2>1, <2>2 DEF Flip, Bit
  <2>4. \A i \in 0 .. n - 1 : i \in Bit /\ Flip(i) = n - 1 - i
    BY <2>1 DEF Flip, Bit
  <2>5. /\ \A i \in masked : i \in 0 .. n - 1
        /\ \A i \in 0 .. n - 1 :
              i \in masked <=> n - 1 - i \in o .. o + w - 1 /\ BitAt(mem, p, base + (n - 1 - i))
    BY <1>3, <2>3, <2>4
  <2>6. ShiftRight(masked, n - (w + o)) = read
    <3>1. o \in Nat /\ w \in Nat
      BY <1>2
    <3> HIDE DEF read
    <3> QED BY <2>2, <2>5, <3>1, ShiftDown DEF read
  <2> QED BY <2>1, <2>6
<1>8. ASSUME fd.bytecount = 2 PROVE ShiftRight(be_16(masked), 16 - (w + o)) = read
  <2>1. PICK n \in Nat : n = 16
    OBVIOUS
  <2>2. o + w <= n
    BY <1>2, <1>8, <2>1
  <2>3. \A i \in Bit : Flip(i) \in o .. o + w - 1 => i \in 0 .. 15
    BY <1>2, <2>1, <2>2 DEF Flip, Bit
  <2>4. \A i \in masked : i \in 0 .. 15
    BY <1>3, <2>3
  <2>5. \A i : i \in be_16(masked) <=> i \in 0 .. 15 /\ (IF i < 8 THEN i + 8 ELSE i - 8) \in masked
    <3>1. \A i \in masked : i \in Nat
      BY <2>4
    <3> QED BY <3>1, be_16Bit
  <2>6. \A i \in 0 .. n - 1 : \E k \in Bit : k = (IF i < 8 THEN i + 8 ELSE i - 8) /\ Flip(k) = n - 1 - i
    BY <2>1 DEF Flip, Bit
  <2>7. /\ \A i \in be_16(masked) : i \in 0 .. n - 1
        /\ \A i \in 0 .. n - 1 :
              i \in be_16(masked) <=> n - 1 - i \in o .. o + w - 1 /\ BitAt(mem, p, base + (n - 1 - i))
    BY <1>3, <2>1, <2>5, <2>6
  <2>8. ShiftRight(be_16(masked), n - (w + o)) = read
    <3> HIDE DEF read
    <3> QED BY <1>2, <2>2, <2>7, ShiftDown DEF read
  <2> QED BY <2>1, <2>8
<1>9. ShiftRight(be_32(masked), 32 - (w + o)) = read
  <2>1. PICK n \in Nat : n = 32
    OBVIOUS
  <2>2. o + w <= n
    BY <1>2, <2>1
  <2>5. \A i : i \in be_32(masked) <=> i \in Bit /\ 8 * (3 - i \div 8) + (i % 8) \in masked
    BY <1>6, be_32Bit
  <2>6. \A i \in 0 .. n - 1 : i \in Bit /\ \E k \in Bit : k = 8 * (3 - i \div 8) + (i % 8) /\ Flip(k) = n - 1 - i
    BY <2>1 DEF Flip, Bit
  <2>7. /\ \A i \in be_32(masked) : i \in 0 .. n - 1
        /\ \A i \in 0 .. n - 1 :
              i \in be_32(masked) <=> n - 1 - i \in o .. o + w - 1 /\ BitAt(mem, p, base + (n - 1 - i))
    <3>1. \A i \in Bit : i \in 0 .. n - 1
      BY <2>1 DEF Bit
    <3> QED BY <1>3, <2>5, <2>6, <3>1
  <2>8. ShiftRight(be_32(masked), n - (w + o)) = read
    <3> HIDE DEF read
    <3> QED BY <1>2, <2>2, <2>7, ShiftDown DEF read
  <2> QED BY <2>1, <2>8
<1>10. EXTRACT_INT32_NTOH(mem, fd) = read
  BY <1>2, <1>7, <1>8, <1>9 DEF EXTRACT_INT32_NTOH, masked
<1>11. ~fd.meta => GET_INT32_AUTO(mem, fd) = read
  BY <1>2, <1>9 DEF GET_INT32_AUTO, masked
<1> QED BY <1>4, <1>10, <1>11

\* The three parts of a host's value in the word, by its bytes.
LEMMA HostParts ==
  ASSUME NEW o \in 0 .. 7, NEW w \in 1 .. 32, o + w <= 32, NEW L \in 1 .. 3, L = (o + w - 1) \div 8
  PROVE  /\ \A y \in 0 .. 7 : Flip(y) \in o .. o + w - 1 => y \in 0 .. w - 1 /\ HostWord(o, w, y) = y
         /\ \A y \in 8 .. 8 * L - 1 : y - o \in 0 .. w - 1 /\ HostWord(o, w, y - o) = y
         /\ \A y \in 8 * L .. 8 * L + 7 : Flip(y) \in o .. o + w - 1 =>
              /\ y - (8 * (L + 1) - w) \in 0 .. w - 1
              /\ HostWord(o, w, y - (8 * (L + 1) - w)) = y
<1>1. 8 * L <= o + w - 1 /\ o + w - 1 < 8 * L + 8
  OBVIOUS
<1>2. \A x : HostWord(o, w, x) = IF x < 8 - o THEN x ELSE IF x < 8 * L - o THEN x + o ELSE x + 8 * (L + 1) - w
  BY DEF HostWord
<1>3. \A y \in 0 .. 7 : Flip(y) \in o .. o + w - 1 => y \in 0 .. w - 1 /\ HostWord(o, w, y) = y
  BY <1>1, <1>2 DEF Flip
<1>4. \A y \in 8 .. 8 * L - 1 : y - o \in 0 .. w - 1 /\ HostWord(o, w, y - o) = y
  BY <1>1, <1>2
<1>5. ASSUME NEW y \in 8 * L .. 8 * L + 7, Flip(y) \in o .. o + w - 1
      PROVE  y - (8 * (L + 1) - w) \in 0 .. w - 1 /\ HostWord(o, w, y - (8 * (L + 1) - w)) = y
  <2>1. Flip(y) = 16 * L + 7 - y
    BY DEF Flip
  <2>2. y - (8 * (L + 1) - w) \in 0 .. w - 1 /\ y - (8 * (L + 1) - w) >= 8 * L - o
    BY <1>1, <1>5, <2>1
  <2> QED BY <1>2, <2>2
<1> QED BY <1>3, <1>4, <1>5

\* Each bit of the value comes from one of those three parts of the word.
LEMMA HostPart ==
  ASSUME NEW o \in 0 .. 7, NEW w \in 1 .. 32, o + w <= 32, NEW L \in 1 .. 3, L = (o + w - 1) \div 8,
         NEW x \in 0 .. w - 1
  PROVE  \/ HostWord(o, w, x) \in 0 .. 7 /\ HostWord(o, w, x) = x
         \/ HostWord(o, w, x) \in 8 .. 8 * L - 1 /\ HostWord(o, w, x) = x + o
         \/ HostWord(o, w, x) \in 8 * L .. 8 * L + 7 /\ HostWord(o, w, x) = x + (8 * (L + 1) - w)
<1>1. 8 * L <= o + w - 1 /\ o + w - 1 < 8 * L + 8
  OBVIOUS
<1>2. HostWord(o, w, x) = IF x < 8 - o THEN x ELSE IF x < 8 * L - o THEN x + o ELSE x + 8 * (L + 1) - w
  BY DEF HostWord
<1> QED BY <1>1, <1>2

\* The field read in the order of the host, from the first bit of its word.
LEMMA HostBitsAre ==
  ASSUME NEW F, NEW p, NEW mem, NEW o, o = F.offset % 8
  PROVE  ReadAs(mem, F, p, "host") = {x \in 0 .. F.width - 1 : BitAt(mem, p, F.offset - o + Flip(HostWord(o, F.width, x)))}
BY DEF ReadAs, ValueBit

\* Read without regard to the order, a field has its bits in the order of the
\* host.
LEMMA HostRead ==
  ASSUME NEW F, NEW p, NEW mem, Lies(F, p, mem), InWord(F), NEW fd, fd = field_desc(F, p)
  PROVE  EXTRACT_INT32_BITS(mem, fd) = ReadAs(mem, F, p, "host")
<1>0. PICK o \in 0 .. 7 : o = F.offset % 8
  BY DEF Lies
<1>00. PICK w \in 1 .. 32 : w = F.width
  <2>1. F.width \in Nat \ {0} /\ F.width <= 32
    BY Zenon DEF Lies, InWord
  <2>2. \A n \in Nat \ {0} : n <= 32 => n \in 1 .. 32
    OBVIOUS
  <2> QED BY <2>1, <2>2, Zenon
<1> DEFINE base == F.offset - o
           masked == FIELD_MASKED_BYTES(mem, fd)
           all == FIELD_BYTES(mem, fd)
           Word(x) == HostWord(o, w, x)
           read == ReadAs(mem, F, p, "host")
<1>1. F.offset \in Nat /\ F.width \in Nat \ {0}
  BY DEF Lies
<1>2. /\ o + w <= 32 /\ FIELD_BITCOUNT(fd) = w + o /\ fd.bitoffset = o /\ fd.bitwidth = w
      /\ fd.bytecount = ((o + w - 1) \div 8) + 1 /\ LastByte(fd) = 8 * (fd.bytecount - 1)
  <2>1. o + F.width <= 32 /\ FIELD_BITCOUNT(fd) = F.width + o /\ fd.bitoffset = o /\ fd.bitwidth = F.width
        /\ fd.bytecount = ((o + F.width - 1) \div 8) + 1 /\ LastByte(fd) = 8 * (fd.bytecount - 1)
    BY <1>0, <1>1, DescFacts
  <2> QED BY <2>1, <1>00
<1>3. \A i : i \in masked <=> i \in Bit /\ Flip(i) \in o .. o + w - 1 /\ BitAt(mem, p, base + Flip(i))
  BY <1>0, <1>00, MaskedBit
<1>4. \A x : x \in read <=> x \in 0 .. w - 1 /\ Word(x) \in masked
  <2>1. ASSUME NEW x \in 0 .. w - 1 PROVE Word(x) \in masked <=> BitAt(mem, p, base + Flip(Word(x)))
    <3>1. Word(x) \in Bit /\ Flip(Word(x)) \in o .. o + w - 1
      BY <1>2, HostWordFacts
    <3> HIDE DEF Word, masked, base
    <3> QED BY <1>3, <3>1
  <2>2. read = {x \in 0 .. w - 1 : BitAt(mem, p, base + Flip(Word(x)))}
    BY <1>0, <1>00, HostBitsAre
  <2> HIDE DEF read, masked, Word, base
  <2> QED BY <2>1, <2>2
<1> HIDE DEF base, Word, read
<1>5. ASSUME fd.bytecount = 1 PROVE EXTRACT_INT32_BITS(mem, fd) = read
  <2>1. EXTRACT_INT32_BITS(mem, fd) = ShiftRight(masked, 8 - (w + o)) /\ o + w <= 8
    BY <1>2, <1>5 DEF EXTRACT_INT32_BITS
  <2>2. \A x : Word(x) = x + 8 - (o + w)
    BY <1>2, <1>5 DEF HostWord, Word
  <2>3. \A i \in masked : i \in Nat /\ 7 - i \in o .. o + w - 1
    BY <1>2, <1>3, <2>1 DEF Flip, Bit
  <2> HIDE DEF masked
  <2>4. ASSUME NEW x PROVE x \in ShiftRight(masked, 8 - (w + o)) <=> x \in read
    <3>1. 8 - (w + o) \in Nat
      BY <2>1
    <3>2. x \in ShiftRight(masked, 8 - (w + o)) <=> x \in Nat /\ x + (8 - (w + o)) \in masked
      BY <2>3, <3>1, ShiftRightBit
    <3>3. x \in Nat => Word(x) = x + (8 - (w + o))
      BY <2>2
    <3>4. x \in Nat /\ Word(x) \in masked => x \in 0 .. w - 1
      BY <2>2, <2>3
    <3> QED BY <1>4, <3>2, <3>3, <3>4
  <2> QED BY <2>1, <2>4
<1>6. ASSUME fd.bytecount # 1 PROVE EXTRACT_INT32_BITS(mem, fd) = read
  <2>1. PICK L \in 1 .. 3 : L = (o + w - 1) \div 8
    BY <1>2, <1>6
  <2>2. LastByte(fd) = 8 * L /\ fd.bytecount = L + 1
    BY <1>2, <2>1
  <2>3. /\ \A y \in 0 .. 7 : Flip(y) \in o .. o + w - 1 => y \in 0 .. w - 1 /\ Word(y) = y
        /\ \A y \in 8 .. 8 * L - 1 : y - o \in 0 .. w - 1 /\ Word(y - o) = y
        /\ \A y \in 8 * L .. 8 * L + 7 : Flip(y) \in o .. o + w - 1 =>
             y - (8 * (L + 1) - w) \in 0 .. w - 1 /\ Word(y - (8 * (L + 1) - w)) = y
    <3>1. o + w <= 32
      BY <1>2
    <3> QED BY <2>1, <3>1, HostParts, ZenonT(60) DEF Word
  <2>3a. \A x \in 0 .. w - 1 :
             \/ Word(x) \in 0 .. 7 /\ Word(x) = x
             \/ Word(x) \in 8 .. 8 * L - 1 /\ Word(x) = x + o
             \/ Word(x) \in 8 * L .. 8 * L + 7 /\ Word(x) = x + (8 * (L + 1) - w)
    <3>1. o + w <= 32
      BY <1>2
    <3> QED BY <2>1, <3>1, HostPart, Zenon DEF Word
  <2> DEFINE W1 == all \intersect BITS_MASK1(fd)
             W2 == all \intersect BITS_MASK2(fd)
             W3 == all \intersect BITS_MASK3(fd)
  <2>4. /\ \A i : i \in W1 <=> i \in masked /\ i \in 0 .. 7
        /\ \A i : i \in W2 <=> i \in masked /\ i \in 8 .. 8 * L - 1
        /\ \A i : i \in W3 <=> i \in masked /\ i \in 8 * L .. 8 * L + 7
    BY <2>2 DEF FIELD_MASKED_BYTES, BITS_MASK1, BITS_MASK2, BITS_MASK3
  <2>5. L = 1 => ShiftRight(W2, o) = {}
    <3>1. L = 1 => W2 = {}
      BY <2>4
    <3> QED BY <3>1 DEF ShiftRight
  <2>6. EXTRACT_INT32_BITS(mem, fd) = W1 \union ShiftRight(W2, o) \union ShiftRight(W3, 8 * (L + 1) - w)
    <3>1. 8 * fd.bytecount - fd.bitwidth = 8 * (L + 1) - w /\ (fd.bytecount = 2 <=> L = 1)
      BY <1>2, <2>2
    <3>2. EXTRACT_INT32_BITS(mem, fd) =
            W1 \union (IF fd.bytecount = 2 THEN {} ELSE ShiftRight(W2, fd.bitoffset))
            \union ShiftRight(W3, 8 * fd.bytecount - fd.bitwidth)
      BY <1>6, Zenon DEF EXTRACT_INT32_BITS
    <3> HIDE DEF W1, W2, W3
    <3> QED BY <1>2, <2>5, <3>1, <3>2
  <2> HIDE DEF W1, W2, W3
  <2>7. \A x : x \in ShiftRight(W2, o) <=> x \in Nat /\ x + o \in W2
    <3>1. \A i \in W2 : i \in Nat
      BY <2>4
    <3> QED BY <3>1, ShiftRightBit
  <2>8. \A x : x \in ShiftRight(W3, 8 * (L + 1) - w) <=> x \in Nat /\ x + (8 * (L + 1) - w) \in W3
    <3>1. 8 * (L + 1) - w \in Nat /\ \A i \in W3 : i \in Nat
      BY <1>2, <2>1, <2>4
    <3> QED BY <3>1, ShiftRightBit
  <2>9. \A i \in masked : Flip(i) \in o .. o + w - 1
    BY <1>3
  <2> HIDE DEF masked
  <2>10. ASSUME NEW x, x \in W1 PROVE x \in read
    BY <1>4, <2>3, <2>4, <2>9, <2>10
  <2>11. ASSUME NEW x \in Nat, x + o \in W2 PROVE x \in read
    <3>1. PICK y \in 8 .. 8 * L - 1 : y = x + o /\ y \in masked
      BY <2>4, <2>11
    <3>2. x = y - o
      BY <3>1
    <3> QED BY <1>4, <2>3, <3>1, <3>2
  <2>12. ASSUME NEW x \in Nat, x + (8 * (L + 1) - w) \in W3 PROVE x \in read
    <3>1. PICK y \in 8 * L .. 8 * L + 7 : y = x + (8 * (L + 1) - w) /\ y \in masked
      BY <2>4, <2>12
    <3>2. x = y - (8 * (L + 1) - w)
      BY <3>1
    <3> QED BY <1>4, <2>3, <2>9, <3>1, <3>2
  <2>13. ASSUME NEW x \in read
        PROVE  \/ x \in W1
               \/ x \in Nat /\ x + o \in W2
               \/ x \in Nat /\ x + (8 * (L + 1) - w) \in W3
    <3>1. x \in 0 .. w - 1 /\ Word(x) \in masked
      BY <1>4
    <3> QED BY <2>3a, <2>4, <3>1
  <2> QED BY <2>6, <2>7, <2>8, <2>10, <2>11, <2>12, <2>13
<1> QED BY <1>5, <1>6 DEF read

-----------------------------------------------------------------------------
(* Writing a field as an integer.                                          *)

\* The places of a field's bits in the memory, and what a write to it does: the
\* field has the value then, and every other bit the one it had.
BitsOf(F, p) == 8 * p + F.offset .. 8 * p + F.offset + F.width - 1
SameBut(new, mem, S) ==
  /\ new \in [DOMAIN mem -> Byte]
  /\ \A x \in DOMAIN mem : \A b \in 0 .. 7 : 8 * x + (7 - b) \notin S => (b \in new[x] <=> b \in mem[x])
Wrote(new, mem, F, p, order, v) ==
  SameBut(new, mem, BitsOf(F, p)) /\ ReadAs(new, F, p, order) = Truncate(v, F.width)

\* A word with a value's bits in the field's place, and the memory's around it.
IsWordOf(R, mem, F, fd, order, v) ==
  /\ \A j \in 0 .. F.width - 1 : Flip(ValueBit(F, order, j) - (F.offset - (F.offset % 8))) \in R <=> j \in v
  /\ \A i \in Nat : i \notin fd.mask => (i \in R <=> i \in FIELD_BYTES(mem, fd))

\* A word that has the value in the field's bits and what was there in all
\* others writes the field.
LEMMA StoreWord ==
  ASSUME NEW F, NEW p, NEW mem, Lies(F, p, mem), InWord(F), NEW fd, fd = field_desc(F, p),
         NEW order, NEW v, NEW R, IsWordOf(R, mem, F, fd, order, v)
  PROVE  Wrote(Store(mem, fd.byte_addr, R, fd.bytecount), mem, F, p, order, v)
<1>a. /\ F.offset \in Nat /\ F.width \in Nat \ {0} /\ p \in Nat
      /\ F.width \in 1 .. 32 /\ (F.offset % 8) + F.width <= 32
  <2>1. F.offset \in Nat /\ F.width \in Nat \ {0} /\ p \in Nat
    BY Zenon DEF Lies
  <2>2. F.width <= 32 /\ (F.offset % 8) + F.width <= 32
    BY Zenon DEF InWord
  <2>0. \A m \in Nat \ {0} : m <= 32 => m \in 1 .. 32
    OBVIOUS
  <2>3. F.width \in 1 .. 32
    BY <2>0, <2>1, <2>2, Zenon
  <2> QED BY <2>1, <2>2, <2>3, Zenon
<1>0. PICK o \in 0 .. 7 : o = F.offset % 8
  BY <1>a
<1>00. PICK w \in 1 .. 32 : w = F.width
  BY <1>a
<1>000. PICK a \in Nat : a = F.offset \div 8
  BY <1>a
<1> DEFINE base == F.offset - (F.offset % 8)
           new == Store(mem, fd.byte_addr, R, fd.bytecount)
           n == fd.bytecount
<1>1. p \in Nat /\ F.offset = 8 * a + o /\ base = 8 * a
  <2> HIDE DEF new
  <2>1. \A m \in Nat : m = 8 * (m \div 8) + (m % 8)
    OBVIOUS
  <2>2. F.offset = 8 * a + o
    BY <1>a, <1>0, <1>000, <2>1
  <2> QED BY <1>a, <1>0, <2>2
<1>2. /\ o + w <= 32 /\ fd.byte_addr = p + a /\ n = ((o + w - 1) \div 8) + 1 /\ n \in 1 .. 4
      /\ fd.mask = field_mask(o, w)
  <2>1. F.offset \in Nat /\ F.width \in Nat \ {0}
    BY DEF Lies
  <2>2. /\ o + F.width <= 32 /\ fd.bytecount = ((o + F.width - 1) \div 8) + 1 /\ fd.bytecount \in 1 .. 4
        /\ fd.mask = field_mask(o, F.width)
    BY <1>0, <2>1, DescFacts
  <2>3. fd.byte_addr = p + a
    BY <1>000 DEF field_desc
  <2> QED BY <1>00, <2>2, <2>3
<1>3. /\ DOMAIN new = DOMAIN mem
      /\ \A x \in DOMAIN mem : new[x] = IF x \in p + a .. p + a + n - 1
                                        THEN {b \in 0 .. 7 : 8 * (x - (p + a)) + b \in R} ELSE mem[x]
  BY <1>2 DEF Store
<1>4. new \in [DOMAIN mem -> Byte]
  <2>1. \A x \in DOMAIN mem : mem[x] \in Byte
    BY DEF Lies
  <2>2. \A x \in DOMAIN mem : new[x] \in Byte
    BY <1>3, <2>1 DEF Byte
  <2>3. new = [x \in DOMAIN mem |-> new[x]]
    BY DEF Store
  <2> HIDE DEF new
  <2> QED BY <2>2, <2>3
<1> HIDE DEF new, n, base
<1>5. ASSUME NEW j \in 0 .. w - 1 PROVE BitAt(new, p, ValueBit(F, order, j)) <=> j \in v
  <2>1. PICK s \in F.offset .. F.offset + w - 1 : s = ValueBit(F, order, j)
    <3>1. F.offset \in Nat /\ F.width \in Nat \ {0}
      BY DEF Lies
    <3> QED BY <1>00, <3>1, ValueBitRange
  <2>2. PICK t \in o .. o + w - 1 : s = 8 * a + t
    <3>1. s - 8 * a \in o .. o + w - 1 /\ s = 8 * a + (s - 8 * a)
      BY <1>1
    <3> QED BY <3>1
  <2>3. s \div 8 = a + (t \div 8) /\ s % 8 = t % 8 /\ t \div 8 \in 0 .. n - 1 /\ t % 8 \in 0 .. 7
    BY <1>2, <2>2
  <2>4. PICK x : x = p + (s \div 8)
    OBVIOUS
  <2>5. x \in p + a .. p + a + n - 1 /\ x - (p + a) = t \div 8
    BY <1>1, <1>2, <2>3, <2>4
  <2>6. x \in DOMAIN mem
    <3>1. (F.offset + w - 1) \div 8 = a + ((o + w - 1) \div 8)
      BY <1>1, <1>2
    <3>2. x \in p + F.offset \div 8 .. p + (F.offset + w - 1) \div 8
      BY <1>000, <1>1, <1>2, <2>5, <3>1
    <3> QED BY <1>00, <3>2 DEF Lies
  <2>7. new[x] = {b \in 0 .. 7 : 8 * (t \div 8) + b \in R}
    BY <1>3, <2>5, <2>6
  <2>8. BitAt(new, p, s) <=> 8 * (t \div 8) + (7 - (t % 8)) \in R
    BY <2>3, <2>4, <2>7 DEF BitAt
  <2>9. s - base = t
    BY <1>1, <2>2
  <2>10. Flip(ValueBit(F, order, j) - base) \in R <=> j \in v
    BY <1>00 DEF IsWordOf, base
  <2> QED BY <2>1, <2>8, <2>9, <2>10 DEF Flip
<1>6. ReadAs(new, F, p, order) = Truncate(v, F.width)
  BY <1>00, <1>5 DEF ReadAs, Truncate
<1>7. ASSUME NEW x \in DOMAIN mem, NEW b \in 0 .. 7, 8 * x + (7 - b) \notin BitsOf(F, p)
      PROVE  b \in new[x] <=> b \in mem[x]
  <2>1. CASE x \notin p + a .. p + a + n - 1
    BY <1>3, <2>1
  <2>2. CASE x \in p + a .. p + a + n - 1
    <3>1. PICK k \in 0 .. n - 1 : x = p + a + k
      <4>1. x - (p + a) \in 0 .. n - 1 /\ x = p + a + (x - (p + a))
        BY <1>1, <1>2, <2>2
      <4> QED BY <4>1
    <3>2. PICK i \in Nat : i = 8 * k + b
      BY <1>2, <3>1
    <3>3. i \div 8 = k /\ i % 8 = b /\ Flip(i) = 8 * k + (7 - b)
      BY <3>1, <3>2 DEF Flip
    <3>4. b \in new[x] <=> i \in R
      <4>1. x - (p + a) = k
        BY <1>1, <3>1
      <4> QED BY <1>3, <2>2, <3>2, <4>1
    <3>5. Flip(i) \notin o .. o + w - 1
      <4>1. 8 * x + (7 - b) = 8 * p + 8 * a + Flip(i)
        BY <1>1, <3>1, <3>3
      <4> QED BY <1>00, <1>1, <1>7, <3>3, <4>1 DEF BitsOf
    <3>6. i \notin fd.mask
      BY <1>2, <3>5, MaskBit
    <3>7. i \in FIELD_BYTES(mem, fd) <=> b \in mem[x]
      <4>1. PICK m \in Nat : m = IF n <= 2 THEN n ELSE 4
        BY <1>2
      <4>2. FIELD_BYTES(mem, fd) = Load(mem, p + a, m)
        BY <1>2, <4>1 DEF FIELD_BYTES, n
      <4>3. k < m
        BY <1>2, <3>1, <4>1
      <4>4. p + a \in Nat
        BY <1>1
      <4>5. i \in Load(mem, p + a, m) <=> i \div 8 < m /\ (p + a) + (i \div 8) \in DOMAIN mem /\ i % 8 \in mem[(p + a) + (i \div 8)]
        BY <4>4, LoadBit DEF Lies
      <4> QED BY <3>1, <3>3, <4>2, <4>3, <4>5
    <3> QED BY <3>4, <3>6, <3>7 DEF IsWordOf
  <2> QED BY <2>1, <2>2
<1> QED BY <1>4, <1>6, <1>7 DEF Wrote, SameBut, new

\* The facts about the word of a field that its reads and writes need.
LEMMA WordFacts ==
  ASSUME NEW F, NEW p, NEW mem, Lies(F, p, mem), InWord(F), NEW fd, fd = field_desc(F, p),
         NEW o, o = F.offset % 8, NEW w, w = F.width
  PROVE  /\ o \in 0 .. 7 /\ w \in 1 .. 32 /\ o + w <= 32 /\ F.offset \in Nat /\ F.offset - o \in Nat
         /\ FIELD_BITCOUNT(fd) = w + o /\ fd.bitoffset = o /\ fd.bitwidth = w
         /\ fd.bytecount = ((o + w - 1) \div 8) + 1 /\ LastByte(fd) = 8 * (fd.bytecount - 1)
         /\ \A i : i \in fd.mask <=> i \in Bit /\ Flip(i) \in o .. o + w - 1
<1>1. F.offset \in Nat /\ F.width \in Nat \ {0}
  BY DEF Lies
<1>2. /\ fd.bitwidth = w /\ fd.bitoffset = o /\ FIELD_BITCOUNT(fd) = w + o
      /\ o \in 0 .. 7 /\ w \in 1 .. 32 /\ o + w <= 32
      /\ fd.bytecount = ((o + w - 1) \div 8) + 1
      /\ LastByte(fd) = 8 * (fd.bytecount - 1) /\ fd.mask = field_mask(o, w)
  BY <1>1, DescFacts
<1>3. F.offset - o \in Nat
  BY <1>1
<1>4. \A i : i \in fd.mask <=> i \in Bit /\ Flip(i) \in o .. o + w - 1
  BY <1>2, MaskBit, ZenonT(60)
<1> QED BY <1>1, <1>2, <1>3, <1>4, ZenonT(60)

\* The bits around the field, with a value inside its mask, are such a word.
LEMMA WithRest ==
  ASSUME NEW F, NEW p, NEW mem, Lies(F, p, mem), InWord(F), NEW fd, fd = field_desc(F, p),
         NEW o, o = F.offset % 8, NEW order, NEW v, NEW res,
         \A i \in res : i \in fd.mask,
         \A j \in 0 .. F.width - 1 : \E i : /\ i = Flip(ValueBit(F, order, j) - (F.offset - o))
                                       /\ i \in fd.mask /\ (i \in res <=> j \in v)
  PROVE  IsWordOf(Rest(mem, fd) \union res, mem, F, fd, order, v)
BY DEF IsWordOf, Rest

\* Written in the order of the packet, a field gets the value and nothing else
\* changes.
LEMMA NetWrite ==
  ASSUME NEW F, NEW p, NEW mem, Lies(F, p, mem), InWord(F), NEW fd, fd = field_desc(F, p),
         NEW v, \A i \in v : i \in Nat
  PROVE  Wrote(MODIFY_INT32_INT32_HTON(mem, fd, v), mem, F, p, "net", v)
<1>1. PICK o, w : o = F.offset % 8 /\ w = F.width
  OBVIOUS
<1>2. /\ o \in 0 .. 7 /\ w \in 1 .. 32 /\ o + w <= 32 /\ F.offset \in Nat /\ F.offset - o \in Nat
      /\ FIELD_BITCOUNT(fd) = w + o
      /\ fd.bytecount = ((o + w - 1) \div 8) + 1
      /\ \A i : i \in fd.mask <=> i \in Bit /\ Flip(i) \in o .. o + w - 1
  BY <1>1, WordFacts
<1> DEFINE bits == FIELD_BITCOUNT(fd)
           res32 == CASE fd.bytecount = 1 -> ShiftLeft(v, 8 - bits)
                      [] fd.bytecount = 2 -> be_16(ShiftLeft(v, 16 - bits))
                      [] OTHER -> be_32(ShiftLeft(v, 32 - bits))
           res == res32 \intersect fd.mask
<1>3. MODIFY_INT32_INT32_HTON(mem, fd, v) = Store(mem, fd.byte_addr, Rest(mem, fd) \union res, fd.bytecount)
  BY DEF MODIFY_INT32_INT32_HTON
<1>4. \A j \in 0 .. w - 1 : ValueBit(F, "net", j) - (F.offset - o) = o + w - 1 - j
  BY <1>1, <1>2 DEF ValueBit
<1> HIDE DEF bits
<1>5. ASSUME NEW j \in 0 .. w - 1, NEW i, i = Flip(o + w - 1 - j) PROVE i \in fd.mask /\ (i \in res <=> j \in v)
  <2>1. PICK t \in o .. o + w - 1 : t = o + w - 1 - j
    BY <1>2
  <2>2. i = Flip(t) /\ i \in Bit /\ Flip(i) = t
    <3>1. Flip(t) \in Bit /\ Flip(Flip(t)) = t
      BY <1>2 DEF Flip, Bit
    <3> QED BY <1>5, <2>1, <3>1
  <2>3. i \in fd.mask
    BY <1>2, <2>2
  <2>4. CASE fd.bytecount = 1
    <3>1. PICK n \in Nat : n = 8 - bits
      BY <1>2, <2>4 DEF bits
    <3>2. i - n = j
      BY <1>2, <2>1, <2>2, <2>4, <3>1 DEF Flip, bits
    <3>3. i \in ShiftLeft(v, n) <=> j \in v
      BY <2>2, <3>2, ShiftLeftBit
    <3> QED BY <2>3, <2>4, <3>1, <3>3
  <2>5. CASE fd.bytecount = 2
    <3>1. PICK n \in Nat : n = 16 - bits
      BY <1>2, <2>5 DEF bits
    <3>2. PICK k : k = IF i < 8 THEN i + 8 ELSE i - 8
      OBVIOUS
    <3>3. i \in 0 .. 15 /\ k \in Bit /\ k - n = j
      BY <1>2, <2>1, <2>2, <2>5, <3>1, <3>2 DEF Flip, bits, Bit
    <3>4. k \in ShiftLeft(v, n) <=> j \in v
      BY <3>3, ShiftLeftBit
    <3>5. \A x \in ShiftLeft(v, n) : x \in Nat
      BY ShiftLeftBit DEF Bit
    <3>6. i \in be_16(ShiftLeft(v, n)) <=> j \in v
      BY <3>2, <3>3, <3>4, <3>5, be_16Bit
    <3> QED BY <2>3, <2>5, <3>1, <3>6
  <2>6. CASE fd.bytecount # 1 /\ fd.bytecount # 2
    <3>1. PICK n \in Nat : n = 32 - bits
      BY <1>2 DEF bits
    <3>2. PICK k : k = 8 * (3 - i \div 8) + (i % 8)
      OBVIOUS
    <3>3. k \in Bit /\ k - n = j
      BY <1>2, <2>1, <2>2, <3>1, <3>2 DEF Flip, bits, Bit
    <3>4. k \in ShiftLeft(v, n) <=> j \in v
      BY <3>3, ShiftLeftBit
    <3>5. \A x \in ShiftLeft(v, n) : x \in Bit
      BY ShiftLeftBit
    <3>6. i \in be_32(ShiftLeft(v, n)) <=> j \in v
      BY <2>2, <3>2, <3>4, <3>5, be_32Bit
    <3> QED BY <2>3, <2>6, <3>1, <3>6
  <2> QED BY <2>4, <2>5, <2>6
<1>6. IsWordOf(Rest(mem, fd) \union res, mem, F, fd, "net", v)
  <2>1. \A i \in res : i \in fd.mask
    OBVIOUS
  <2>2. \A j \in 0 .. F.width - 1 : \E i : /\ i = Flip(ValueBit(F, "net", j) - (F.offset - o))
                                       /\ i \in fd.mask /\ (i \in res <=> j \in v)
    <3> HIDE DEF res
    <3> QED BY <1>1, <1>4, <1>5
  <2> HIDE DEF res
  <2> QED BY <1>1, <2>1, <2>2, WithRest
<1> HIDE DEF res
<1> QED BY <1>3, <1>6, StoreWord

\* A write in the order of the host, as the BITS macros make it.
LEMMA HostWrite ==
  ASSUME NEW F, NEW p, NEW mem, Lies(F, p, mem), InWord(F), NEW fd, fd = field_desc(F, p),
         NEW v, \A i \in v : i \in Nat
  PROVE  Wrote(MODIFY_INT32_INT32_BITS(mem, fd, v), mem, F, p, "host", v)
<1>1. PICK o, w : o = F.offset % 8 /\ w = F.width
  OBVIOUS
<1>2. /\ o \in 0 .. 7 /\ w \in 1 .. 32 /\ o + w <= 32 /\ F.offset \in Nat /\ F.offset - o \in Nat
      /\ FIELD_BITCOUNT(fd) = w + o /\ fd.bitoffset = o /\ fd.bitwidth = w
      /\ fd.bytecount = ((o + w - 1) \div 8) + 1 /\ LastByte(fd) = 8 * (fd.bytecount - 1)
      /\ \A i : i \in fd.mask <=> i \in Bit /\ Flip(i) \in o .. o + w - 1
  BY <1>1, WordFacts
<1> DEFINE Part(mask, shift) == ShiftLeft(v \intersect ShiftRight(mask, shift), shift)
           res ==
             IF fd.bytecount = 1 THEN ShiftLeft(v, 8 - FIELD_BITCOUNT(fd)) \intersect fd.mask
             ELSE Part(BITS_MASK1(fd), 0)
                  \union (IF fd.bytecount = 2 THEN {} ELSE Part(BITS_MASK2(fd), fd.bitoffset))
                  \union Part(BITS_MASK3(fd), 8 * fd.bytecount - fd.bitwidth)
           Word(j) == HostWord(o, w, j)
<1>3. MODIFY_INT32_INT32_BITS(mem, fd, v) = Store(mem, fd.byte_addr, Rest(mem, fd) \union res, fd.bytecount)
  BY DEF MODIFY_INT32_INT32_BITS
<1>4. ASSUME NEW j \in 0 .. w - 1
      PROVE  /\ Word(j) \in Bit /\ Word(j) \in fd.mask
             /\ Flip(ValueBit(F, "host", j) - (F.offset - o)) = Word(j)
  <2>1. Word(j) \in Bit /\ Flip(Word(j)) \in o .. o + w - 1
    BY <1>2, HostWordFacts
  <2>2. Word(j) \in Nat /\ Flip(Word(j)) \in Nat /\ Flip(Flip(Word(j))) = Word(j)
    <3> HIDE DEF Word
    <3>1. Word(j) \in Nat
      BY <2>1 DEF Bit
    <3> QED BY <3>1, FlipFacts
  <2>3. ValueBit(F, "host", j) = F.offset - o + Flip(Word(j))
    BY <1>1 DEF ValueBit
  <2> HIDE DEF Word
  <2>4. ValueBit(F, "host", j) - (F.offset - o) = Flip(Word(j))
    BY <1>2, <2>2, <2>3
  <2> QED BY <1>2, <2>1, <2>2, <2>4
<1> HIDE DEF Word
<1>5. ASSUME NEW mask, \A i \in mask : i \in Bit, NEW n \in Nat, NEW i
      PROVE  i \in Part(mask, n) <=> i \in mask /\ i - n \in Nat /\ i - n \in v
  <2>1. \A y \in ShiftRight(mask, n) : y \in Nat
    BY <1>5, ShiftRightBit DEF Bit
  <2> DEFINE W == v \intersect ShiftRight(mask, n)
  <2>2. i \in ShiftLeft(W, n) <=> i \in Bit /\ i - n \in W
    <3>1. \A y \in W : y \in Nat
      BY <2>1
    <3> HIDE DEF W
    <3> QED BY <3>1, ShiftLeftBit
  <2>3. i - n \in ShiftRight(mask, n) <=> i - n \in Nat /\ (i - n) + n \in mask
    BY <1>5, ShiftRightBit DEF Bit
  <2>4. i \in Bit => (i - n) + n = i
    BY DEF Bit
  <2> QED BY <1>5, <2>2, <2>3, <2>4
<1> HIDE DEF Part
<1>6. /\ \A i \in fd.mask : i \in Bit
      /\ \A i \in BITS_MASK1(fd) : i \in Bit
      /\ \A i \in BITS_MASK2(fd) : i \in Bit
      /\ \A i \in BITS_MASK3(fd) : i \in Bit
  BY <1>2 DEF BITS_MASK1, BITS_MASK2, BITS_MASK3
<1>7. fd.bitoffset \in Nat /\ 8 * fd.bytecount - fd.bitwidth \in Nat
  BY <1>2
<1>8. ASSUME NEW i \in res PROVE i \in fd.mask
  <2>1. /\ \A k \in Part(BITS_MASK1(fd), 0) : k \in fd.mask
        /\ \A k \in Part(BITS_MASK2(fd), fd.bitoffset) : k \in fd.mask
        /\ \A k \in Part(BITS_MASK3(fd), 8 * fd.bytecount - fd.bitwidth) : k \in fd.mask
    <3>1. \A k \in Part(BITS_MASK1(fd), 0) : k \in BITS_MASK1(fd)
      BY <1>5, <1>6
    <3>2. \A k \in Part(BITS_MASK2(fd), fd.bitoffset) : k \in BITS_MASK2(fd)
      BY <1>5, <1>6, <1>7
    <3>3. \A k \in Part(BITS_MASK3(fd), 8 * fd.bytecount - fd.bitwidth) : k \in BITS_MASK3(fd)
      BY <1>5, <1>6, <1>7
    <3> QED BY <3>1, <3>2, <3>3 DEF BITS_MASK1, BITS_MASK2, BITS_MASK3
  <2> QED BY <2>1
<1>9. ASSUME NEW j \in 0 .. w - 1, NEW i, i = Word(j) PROVE i \in res <=> j \in v
  <2>1. i \in Bit /\ i \in fd.mask
    BY <1>4, <1>9
  <2>2. CASE fd.bytecount = 1
    <3>1. PICK n \in Nat : n = 8 - FIELD_BITCOUNT(fd)
      BY <1>2, <2>2
    <3>2. i - n = j
      BY <1>2, <1>9, <2>2, <3>1 DEF Word, HostWord
    <3>3. i \in ShiftLeft(v, n) <=> j \in v
      BY <2>1, <3>2, ShiftLeftBit
    <3> QED BY <2>1, <2>2, <3>1, <3>3
  <2>3. CASE fd.bytecount # 1
    <3>1. PICK L \in 1 .. 3 : L = (o + w - 1) \div 8
      BY <1>2, <2>3
    <3>2. PICK n \in Nat : n = 8 * fd.bytecount - fd.bitwidth
      BY <1>7
    <3>3. n = 8 * (L + 1) - w /\ LastByte(fd) = 8 * L /\ (fd.bytecount = 2 <=> L = 1)
      BY <1>2, <3>1, <3>2
    <3>4. \/ i \in 0 .. 7 /\ i = j
          \/ i \in 8 .. 8 * L - 1 /\ i = j + o
          \/ i \in 8 * L .. 8 * L + 7 /\ i = j + n
      <4>1. o \in 0 .. 7 /\ w \in 1 .. 32 /\ o + w <= 32
        BY <1>2
      <4>2. \A x \in 0 .. w - 1 :
              \/ Word(x) \in 0 .. 7 /\ Word(x) = x
              \/ Word(x) \in 8 .. 8 * L - 1 /\ Word(x) = x + o
              \/ Word(x) \in 8 * L .. 8 * L + 7 /\ Word(x) = x + (8 * (L + 1) - w)
        BY <3>1, <4>1, HostPart, Zenon DEF Word
      <4> QED BY <1>9, <3>3, <4>2
    <3>5. /\ i \in BITS_MASK1(fd) <=> i \in 0 .. 7
          /\ i \in BITS_MASK2(fd) <=> i \in 8 .. 8 * L - 1
          /\ i \in BITS_MASK3(fd) <=> i \in 8 * L .. 8 * L + 7
      BY <2>1, <3>3 DEF BITS_MASK1, BITS_MASK2, BITS_MASK3
    <3>6. /\ i \in Part(BITS_MASK1(fd), 0) <=> i \in BITS_MASK1(fd) /\ i - 0 \in Nat /\ i - 0 \in v
          /\ i \in Part(BITS_MASK2(fd), o) <=> i \in BITS_MASK2(fd) /\ i - o \in Nat /\ i - o \in v
          /\ i \in Part(BITS_MASK3(fd), n) <=> i \in BITS_MASK3(fd) /\ i - n \in Nat /\ i - n \in v
      <4>1. o \in Nat
        BY <1>2
      <4> QED BY <1>5, <1>6, <4>1
    <3>7. i \in res <=> \/ i \in Part(BITS_MASK1(fd), 0)
                        \/ L # 1 /\ i \in Part(BITS_MASK2(fd), o)
                        \/ i \in Part(BITS_MASK3(fd), n)
      BY <1>2, <2>3, <3>2, <3>3
    <3> HIDE DEF res
    <3>8. CASE i \in 0 .. 7 /\ i = j
      <4>1. i \notin 8 .. 8 * L - 1 /\ i \notin 8 * L .. 8 * L + 7 /\ i - 0 = j /\ j \in Nat
        BY <3>8
      <4> QED BY <3>5, <3>6, <3>7, <3>8, <4>1
    <3>9. CASE i \in 8 .. 8 * L - 1 /\ i = j + o
      <4>1. i \notin 0 .. 7 /\ i \notin 8 * L .. 8 * L + 7 /\ i - o = j /\ j \in Nat /\ L # 1
        BY <1>2, <3>9
      <4> QED BY <3>5, <3>6, <3>7, <3>9, <4>1
    <3>10. CASE i \in 8 * L .. 8 * L + 7 /\ i = j + n
      <4>1. i \notin 0 .. 7 /\ i \notin 8 .. 8 * L - 1 /\ i - n = j /\ j \in Nat
        BY <3>10
      <4> QED BY <3>5, <3>6, <3>7, <3>10, <4>1
    <3> QED BY <3>4, <3>8, <3>9, <3>10
  <2> QED BY <2>2, <2>3
<1>10. IsWordOf(Rest(mem, fd) \union res, mem, F, fd, "host", v)
  <2>1. \A i \in res : i \in fd.mask
    BY <1>8
  <2>2. \A j \in 0 .. F.width - 1 : \E i : /\ i = Flip(ValueBit(F, "host", j) - (F.offset - o))
                                       /\ i \in fd.mask /\ (i \in res <=> j \in v)
    <3> HIDE DEF res
    <3> QED BY <1>1, <1>4, <1>9
  <2> HIDE DEF res
  <2> QED BY <1>1, <2>1, <2>2, WithRest
<1> HIDE DEF res
<1> QED BY <1>3, <1>10, StoreWord

-----------------------------------------------------------------------------
(* What a write elsewhere leaves alone.                                    *)

\* A field of which the bits are elsewhere keeps its value.
LEMMA ReadOther ==
  ASSUME NEW G, NEW q, NEW mem, Lies(G, q, mem), NEW new, NEW S, SameBut(new, mem, S),
         BitsOf(G, q) \intersect S = {}, NEW order, order = "host" => InWord(G)
  PROVE  ReadAs(new, G, q, order) = ReadAs(mem, G, q, order)
<1>1. G.offset \in Nat /\ G.width \in Nat \ {0} /\ q \in Nat
  BY DEF Lies
<1>2. ASSUME NEW j \in 0 .. G.width - 1
      PROVE  BitAt(new, q, ValueBit(G, order, j)) <=> BitAt(mem, q, ValueBit(G, order, j))
  <2>1. PICK s \in G.offset .. G.offset + G.width - 1 : s = ValueBit(G, order, j)
    BY <1>1, ValueBitRange
  <2>2. PICK x, b : x = q + (s \div 8) /\ b = 7 - (s % 8)
    OBVIOUS
  <2>3. b \in 0 .. 7 /\ 8 * x + (7 - b) = 8 * q + s
    BY <1>1, <2>2
  <2>4. x \in DOMAIN mem
    <3>1. x \in q + G.offset \div 8 .. q + (G.offset + G.width - 1) \div 8
      BY <1>1, <2>2
    <3> QED BY <3>1 DEF Lies
  <2>5. 8 * x + (7 - b) \in BitsOf(G, q)
    BY <1>1, <2>3 DEF BitsOf
  <2>6. b \in new[x] <=> b \in mem[x]
    BY <2>3, <2>4, <2>5 DEF SameBut
  <2> QED BY <2>1, <2>2, <2>6 DEF BitAt
<1> QED BY <1>2 DEF ReadAs

-----------------------------------------------------------------------------
(* Arrays of bytes.                                                        *)

\* A bit of the number that bytes make in the order of the packet.
LEMMA BigEndianBit ==
  ASSUME NEW src, src \in Seq(Byte), NEW j \in Nat
  PROVE  j \in BigEndian(src) <=> j \div 8 < Len(src) /\ j % 8 \in src[Len(src) - (j \div 8)]
<1> DEFINE N == Len(src)
           Part(k) == {8 * (N - k) + b : b \in src[k]}
<1>1. N \in Nat /\ DOMAIN src = 1 .. N /\ \A k \in 1 .. N : src[k] \in Byte
  BY LenProperties, ElementOfSeq
<1>2. j \in BigEndian(src) <=> \E k \in 1 .. N : j \in Part(k)
  BY <1>1 DEF BigEndian
<1> HIDE DEF N
<1>3. ASSUME NEW k \in 1 .. N, j \in Part(k) PROVE j \div 8 < N /\ j % 8 \in src[N - (j \div 8)]
  <2>1. PICK b \in src[k] : j = 8 * (N - k) + b
    BY <1>3
  <2>2. b \in 0 .. 7
    BY <1>1 DEF Byte
  <2>3. j \div 8 = N - k /\ j % 8 = b
    BY <1>1, <2>1, <2>2
  <2>4. N - (j \div 8) = k
    BY <1>1, <2>3
  <2> QED BY <1>1, <2>3, <2>4
<1>4. ASSUME j \div 8 < N, j % 8 \in src[N - (j \div 8)] PROVE \E k \in 1 .. N : j \in Part(k)
  <2>1. N - (j \div 8) \in 1 .. N
    BY <1>1, <1>4
  <2>2. j = 8 * (N - (N - (j \div 8))) + (j % 8)
    BY <1>1
  <2> QED BY <1>4, <2>1, <2>2
<1> QED BY <1>2, <1>3, <1>4 DEF N

\* A bit of the number that bytes make in the order of the host.
LEMMA LittleEndianBit ==
  ASSUME NEW src, src \in Seq(Byte), NEW j \in Nat
  PROVE  j \in LittleEndian(src) <=> j \div 8 < Len(src) /\ j % 8 \in src[(j \div 8) + 1]
<1> DEFINE N == Len(src)
           Part(k) == {8 * (k - 1) + b : b \in src[k]}
<1>1. N \in Nat /\ DOMAIN src = 1 .. N /\ \A k \in 1 .. N : src[k] \in Byte
  BY LenProperties, ElementOfSeq
<1>2. j \in LittleEndian(src) <=> \E k \in 1 .. N : j \in Part(k)
  BY <1>1 DEF LittleEndian
<1> HIDE DEF N
<1>3. ASSUME NEW k \in 1 .. N, j \in Part(k) PROVE j \div 8 < N /\ j % 8 \in src[(j \div 8) + 1]
  <2>1. PICK b \in src[k] : j = 8 * (k - 1) + b
    BY <1>3
  <2>2. b \in 0 .. 7
    BY <1>1 DEF Byte
  <2>3. j \div 8 = k - 1 /\ j % 8 = b
    BY <1>1, <2>1, <2>2
  <2>4. (j \div 8) + 1 = k
    BY <1>1, <2>3
  <2> QED BY <1>1, <2>3, <2>4
<1>4. ASSUME j \div 8 < N, j % 8 \in src[(j \div 8) + 1] PROVE \E k \in 1 .. N : j \in Part(k)
  <2>1. (j \div 8) + 1 \in 1 .. N
    BY <1>1, <1>4
  <2>2. j = 8 * (((j \div 8) + 1) - 1) + (j % 8)
    BY <1>1
  <2> QED BY <1>4, <2>1, <2>2
<1> QED BY <1>2, <1>3, <1>4 DEF N

\* Both are sets of bits.
LEMMA EndianBits ==
  ASSUME NEW src, src \in Seq(Byte)
  PROVE  /\ \A j \in BigEndian(src) : j \in Nat
         /\ \A j \in LittleEndian(src) : j \in Nat
<1>1. Len(src) \in Nat /\ DOMAIN src = 1 .. Len(src) /\ \A k \in 1 .. Len(src) : src[k] \in Byte
  BY LenProperties, ElementOfSeq
<1>2. ASSUME NEW j \in BigEndian(src) PROVE j \in Nat
  <2>1. \E k \in DOMAIN src : j \in {8 * (Len(src) - k) + b : b \in src[k]}
    BY DEF BigEndian
  <2>2. PICK k \in DOMAIN src : \E b \in src[k] : j = 8 * (Len(src) - k) + b
    BY <2>1
  <2> QED BY <1>1, <2>2 DEF Byte
<1>3. ASSUME NEW j \in LittleEndian(src) PROVE j \in Nat
  <2>1. \E k \in DOMAIN src : j \in {8 * (k - 1) + b : b \in src[k]}
    BY DEF LittleEndian
  <2>2. PICK k \in DOMAIN src : \E b \in src[k] : j = 8 * (k - 1) + b
    BY <2>1
  <2> QED BY <1>1, <2>2 DEF Byte
<1> QED BY <1>2, <1>3

\* A field of whole bytes.
LEMMA AlignedFacts ==
  ASSUME NEW F, NEW p, NEW mem, Lies(F, p, mem), is_field_byte_aligned(F), NEW fd, fd = field_desc(F, p),
         NEW n, n = fd.bytewidth
  PROVE  /\ n \in Nat \ {0} /\ F.width = 8 * n /\ F.offset \in Nat /\ p \in Nat
         /\ fd.byte_addr = p + F.offset \div 8 /\ fd.byte_addr \in Nat
         /\ F.offset = 8 * (F.offset \div 8)
         /\ \A x \in fd.byte_addr .. fd.byte_addr + n - 1 : x \in DOMAIN mem
<1>1. F.offset \in Nat /\ F.width \in Nat \ {0} /\ p \in Nat
  BY DEF Lies
<1>2. F.width % 8 = 0 /\ F.offset % 8 = 0
  BY DEF is_field_byte_aligned
<1>3. n = (F.width + 7) \div 8 /\ fd.byte_addr = p + F.offset \div 8
  BY DEF field_desc
<1>4. n \in Nat \ {0} /\ F.width = 8 * n
  BY <1>1, <1>2, <1>3
<1>5. F.offset = 8 * (F.offset \div 8) /\ F.offset \div 8 \in Nat
  BY <1>1, <1>2
<1>6. (F.offset + F.width - 1) \div 8 = F.offset \div 8 + n - 1
  <2>1. PICK a \in Nat : a = F.offset \div 8
    BY <1>5
  <2>2. (8 * a + 8 * n - 1) \div 8 = a + n - 1
    BY <1>4
  <2> QED BY <1>4, <1>5, <2>1, <2>2
<1>7. \A x \in fd.byte_addr .. fd.byte_addr + n - 1 : x \in DOMAIN mem
  BY <1>1, <1>3, <1>4, <1>5, <1>6 DEF Lies
<1> QED BY <1>1, <1>3, <1>4, <1>5, <1>7

\* The byte and the bit of it that a bit of its value is in.
LEMMA AlignedBit ==
  ASSUME NEW F, NEW p \in Nat, F.offset \in Nat, F.offset = 8 * (F.offset \div 8),
         NEW n \in Nat \ {0}, F.width = 8 * n, NEW mem, NEW a, a = p + F.offset \div 8,
         NEW j \in 0 .. F.width - 1
  PROVE  /\ j \div 8 \in 0 .. n - 1 /\ j % 8 \in 0 .. 7
         /\ BitAt(mem, p, ValueBit(F, "net", j)) <=> j % 8 \in mem[a + (n - 1 - (j \div 8))]
         /\ n <= 4 => (BitAt(mem, p, ValueBit(F, "host", j)) <=> j % 8 \in mem[a + (j \div 8)])
<1>1. PICK c \in Nat : c = F.offset \div 8
  OBVIOUS
<1>2. j \div 8 \in 0 .. n - 1 /\ j % 8 \in 0 .. 7
  OBVIOUS
<1>3. ValueBit(F, "net", j) = 8 * (c + (n - 1 - (j \div 8))) + (7 - (j % 8))
  <2>1. ValueBit(F, "net", j) = F.offset + F.width - 1 - j
    BY DEF ValueBit
  <2>2. F.offset = 8 * c
    BY <1>1
  <2>3. j = 8 * (j \div 8) + (j % 8)
    OBVIOUS
  <2> QED BY <1>2, <2>1, <2>2, <2>3
<1>4. BitAt(mem, p, ValueBit(F, "net", j)) <=> j % 8 \in mem[a + (n - 1 - (j \div 8))]
  <2>1. PICK s \in Nat : s = ValueBit(F, "net", j) /\ s \div 8 = c + (n - 1 - (j \div 8)) /\ s % 8 = 7 - (j % 8)
    BY <1>2, <1>3
  <2>2. p + (s \div 8) = a + (n - 1 - (j \div 8)) /\ 7 - (s % 8) = j % 8
    BY <1>1, <1>2, <2>1
  <2> QED BY <2>1, <2>2 DEF BitAt
<1>5. ASSUME n <= 4 PROVE BitAt(mem, p, ValueBit(F, "host", j)) <=> j % 8 \in mem[a + (j \div 8)]
  <2>1. F.offset % 8 = 0
    BY <1>1
  <2>2. HostWord(0, F.width, j) = j
    <3>1. (0 + F.width - 1) \div 8 = n - 1
      OBVIOUS
    <3> QED BY <1>5, <3>1 DEF HostWord
  <2>3. ValueBit(F, "host", j) = 8 * c + Flip(j)
    BY <1>1, <2>1, <2>2 DEF ValueBit
  <2>4. PICK s \in Nat : s = ValueBit(F, "host", j) /\ s \div 8 = c + (j \div 8) /\ s % 8 = 7 - (j % 8)
    BY <1>2, <2>3 DEF Flip
  <2>5. p + (s \div 8) = a + (j \div 8) /\ 7 - (s % 8) = j % 8
    BY <1>1, <1>2, <2>4
  <2> QED BY <2>4, <2>5 DEF BitAt
<1> QED BY <1>2, <1>4, <1>5

Padded(src, n) == [k \in 1 .. n - Len(src) |-> {}] \o src

\* Bytes that are too few get zeros before them.
LEMMA PaddedIs ==
  ASSUME NEW src \in Seq(Byte), NEW n \in Nat \ {0}, NEW N, N = Len(src), N <= n
  PROVE  /\ Padded(src, n) \in Seq(Byte) /\ Len(Padded(src, n)) = n
         /\ \A k \in 1 .. n : Padded(src, n)[k] = IF k <= n - N THEN {} ELSE src[k - (n - N)]
<1> DEFINE zeros == [k \in 1 .. n - Len(src) |-> {}]
<1>1. Len(src) \in Nat /\ n - Len(src) \in Nat
  BY LenProperties
<1>2. zeros \in Seq(Byte) /\ Len(zeros) = n - Len(src)
  <2>1. {} \in Byte
    BY DEF Byte
  <2> QED BY <1>1, <2>1
<1>3. \A k \in 1 .. n - Len(src) : zeros[k] = {}
  OBVIOUS
<1> HIDE DEF zeros
<1>4. /\ zeros \o src \in Seq(Byte) /\ Len(zeros \o src) = Len(zeros) + Len(src)
      /\ \A k \in 1 .. Len(zeros) + Len(src) :
           (zeros \o src)[k] = IF k <= Len(zeros) THEN zeros[k] ELSE src[k - Len(zeros)]
  BY <1>2, ConcatProperties
<1>5. Padded(src, n) = zeros \o src
  BY DEF zeros, Padded
<1>6. N \in Nat /\ Len(zeros) = n - N /\ Len(zeros) + Len(src) = n
  BY <1>1, <1>2
<1>7. \A k \in 1 .. n : Padded(src, n)[k] = IF k <= n - N THEN {} ELSE src[k - (n - N)]
  <2>1. ASSUME NEW k \in 1 .. n PROVE Padded(src, n)[k] = IF k <= n - N THEN {} ELSE src[k - (n - N)]
    <3>1. Padded(src, n)[k] = IF k <= n - N THEN zeros[k] ELSE src[k - (n - N)]
      BY <1>4, <1>5, <1>6
    <3>2. k <= n - N => zeros[k] = {}
      BY <1>3, <1>6
    <3> QED BY <3>1, <3>2
  <2> QED BY <2>1
<1> QED BY <1>4, <1>5, <1>6, <1>7

\* An array of bytes that is not longer than the field.
LEMMA BytesWrite ==
  ASSUME NEW F, NEW p, NEW mem, Lies(F, p, mem), is_field_byte_aligned(F), NEW fd, fd = field_desc(F, p),
         NEW src, src \in Seq(Byte), Len(src) <= fd.bytewidth,
         NEW new, new = MODIFY_BYTEBUF_BYTEBUF(mem, fd, src)
  PROVE  /\ Wrote(new, mem, F, p, "net", BigEndian(src))
         /\ Len(src) = fd.bytewidth /\ Len(src) <= 4 => Wrote(new, mem, F, p, "host", LittleEndian(src))
<1>1. PICK n, a, N : n = fd.bytewidth /\ a = fd.byte_addr /\ N = Len(src)
  OBVIOUS
<1>2. /\ n \in Nat \ {0} /\ F.width = 8 * n /\ F.offset \in Nat /\ p \in Nat
      /\ a = p + F.offset \div 8 /\ a \in Nat /\ F.offset = 8 * (F.offset \div 8)
      /\ \A x \in a .. a + n - 1 : x \in DOMAIN mem
  BY <1>1, AlignedFacts
<1>3. N \in 0 .. n
  BY <1>1, <1>2, LenProperties
<1>4. PICK padded : padded = Padded(src, n)
  OBVIOUS
<1>5. /\ padded \in Seq(Byte) /\ Len(padded) = n
      /\ \A k \in 1 .. n : padded[k] = IF k <= n - N THEN {} ELSE src[k - (n - N)]
  <2>1. n \in Nat \ {0} /\ N = Len(src) /\ N <= n
    BY <1>1, <1>2, <1>3
  <2>2. src \in Seq(Byte)
    OBVIOUS
  <2>3. /\ Padded(src, n) \in Seq(Byte) /\ Len(Padded(src, n)) = n
        /\ \A k \in 1 .. n : Padded(src, n)[k] = IF k <= n - N THEN {} ELSE src[k - (n - N)]
    BY <2>1, <2>2, PaddedIs
  <2> QED BY <1>4, <2>3
<1>6. new = [x \in DOMAIN mem |-> IF x \in a .. a + n - 1 THEN padded[x - a + 1] ELSE mem[x]]
  BY <1>1, <1>4, <1>5 DEF MODIFY_BYTEBUF_BYTEBUF, Copy, Padded
<1>7. new \in [DOMAIN mem -> Byte]
  <2>1. \A x \in DOMAIN mem : mem[x] \in Byte
    BY DEF Lies
  <2>2. \A x \in a .. a + n - 1 : padded[x - a + 1] \in Byte
    <3>1. \A k \in 1 .. n : padded[k] \in Byte
      BY <1>5, ElementOfSeq
    <3>2. \A x \in a .. a + n - 1 : x - a + 1 \in 1 .. n
      <4>1. a \in Nat /\ n \in Nat
        BY <1>2
      <4> QED BY <4>1
    <3> QED BY <3>1, <3>2, Zenon
  <2> QED BY <1>6, <2>1, <2>2
<1>8. SameBut(new, mem, BitsOf(F, p))
  <2>1. ASSUME NEW x \in DOMAIN mem, NEW b \in 0 .. 7, 8 * x + (7 - b) \notin BitsOf(F, p)
        PROVE  b \in new[x] <=> b \in mem[x]
    <3>1. ASSUME x \in a .. a + n - 1 PROVE FALSE
      <4>1. PICK c \in Nat : c = F.offset \div 8
        BY <1>2
      <4>2. a = p + c /\ F.offset = 8 * c
        BY <1>2, <4>1
      <4>3. 8 * x + (7 - b) \in 8 * p + 8 * c .. 8 * p + 8 * c + 8 * n - 1
        BY <1>2, <3>1, <4>2
      <4> QED BY <1>2, <2>1, <4>2, <4>3 DEF BitsOf
    <3> QED BY <1>6, <3>1
  <2> QED BY <1>7, <2>1 DEF SameBut
<1>9. \A k \in 0 .. n - 1 : new[a + k] = padded[k + 1]
  <2>1. ASSUME NEW k \in 0 .. n - 1 PROVE new[a + k] = padded[k + 1]
    <3>0. a \in Nat /\ n \in Nat
      BY <1>2
    <3>1. a + k \in a .. a + n - 1 /\ (a + k) - a + 1 = k + 1
      BY <3>0
    <3>2. a + k \in DOMAIN mem
      BY <1>2, <3>1
    <3> QED BY <1>6, <3>1, <3>2
  <2> QED BY <2>1
<1>10. ReadAs(new, F, p, "net") = Truncate(BigEndian(src), F.width)
  <2>1. ASSUME NEW j \in 0 .. F.width - 1
        PROVE  BitAt(new, p, ValueBit(F, "net", j)) <=> j \in BigEndian(src)
    <3>1. /\ j \div 8 \in 0 .. n - 1 /\ j % 8 \in 0 .. 7
          /\ BitAt(new, p, ValueBit(F, "net", j)) <=> j % 8 \in new[a + (n - 1 - (j \div 8))]
      BY <1>2, AlignedBit, ZenonT(60)
    <3>2. PICK d \in 0 .. n - 1 : d = j \div 8
      BY <3>1
    <3>3. new[a + (n - 1 - d)] = padded[n - d]
      <4>1. n - 1 - d \in 0 .. n - 1 /\ (n - 1 - d) + 1 = n - d
        BY <1>2
      <4> QED BY <1>9, <4>1
    <3>4. j \in BigEndian(src) <=> d < N /\ j % 8 \in src[N - d]
      <4>1. j \in Nat
        BY <1>2
      <4> QED BY <1>1, <3>2, <4>1, BigEndianBit
    <3>5. n - d \in 1 .. n /\ (n - d <= n - N <=> ~(d < N)) /\ (n - d) - (n - N) = N - d
      BY <1>2, <1>3
    <3> QED BY <1>5, <3>1, <3>2, <3>3, <3>4, <3>5
  <2> QED BY <2>1 DEF ReadAs, Truncate
<1>11. ASSUME N = n, N <= 4 PROVE ReadAs(new, F, p, "host") = Truncate(LittleEndian(src), F.width)
  <2>1. ASSUME NEW j \in 0 .. F.width - 1
        PROVE  BitAt(new, p, ValueBit(F, "host", j)) <=> j \in LittleEndian(src)
    <3>1. /\ j \div 8 \in 0 .. n - 1 /\ j % 8 \in 0 .. 7
          /\ BitAt(new, p, ValueBit(F, "host", j)) <=> j % 8 \in new[a + (j \div 8)]
      BY <1>2, <1>11, AlignedBit
    <3>2. PICK d \in 0 .. n - 1 : d = j \div 8
      BY <3>1
    <3>3. new[a + d] = src[d + 1]
      <4>1. d + 1 \in 1 .. n /\ ~(d + 1 <= n - N) /\ (d + 1) - (n - N) = d + 1
        BY <1>2, <1>11
      <4> QED BY <1>5, <1>9, <4>1
    <3>4. j \in LittleEndian(src) <=> d < N /\ j % 8 \in src[d + 1]
      <4>1. j \in Nat
        BY <1>2
      <4> QED BY <1>1, <3>2, <4>1, LittleEndianBit
    <3> QED BY <1>2, <1>11, <3>1, <3>2, <3>3, <3>4
  <2> QED BY <2>1 DEF ReadAs, Truncate
<1> QED BY <1>1, <1>8, <1>10, <1>11 DEF Wrote

\* Read as bytes, a field of whole bytes has them in the order of the packet.
LEMMA BytesRead ==
  ASSUME NEW F, NEW p, NEW mem, Lies(F, p, mem), is_field_byte_aligned(F), NEW fd, fd = field_desc(F, p),
         NEW src, src = EXTRACT_BYTEBUF(mem, fd)
  PROVE  /\ src \in Seq(Byte) /\ Len(src) = fd.bytewidth
         /\ BigEndian(src) = ReadAs(mem, F, p, "net")
<1>1. PICK n, a : n = fd.bytewidth /\ a = fd.byte_addr
  OBVIOUS
<1>2. /\ n \in Nat \ {0} /\ F.width = 8 * n /\ F.offset \in Nat /\ p \in Nat
      /\ a = p + F.offset \div 8 /\ a \in Nat /\ F.offset = 8 * (F.offset \div 8)
      /\ \A x \in a .. a + n - 1 : x \in DOMAIN mem
  BY <1>1, AlignedFacts
<1>3. src = [k \in 1 .. n |-> mem[a + k - 1]]
  BY <1>1 DEF EXTRACT_BYTEBUF
<1>4. \A k \in 1 .. n : mem[a + k - 1] \in Byte
  <2>1. \A k \in 1 .. n : a + k - 1 \in a .. a + n - 1
    BY <1>2
  <2> QED BY <1>2, <2>1 DEF Lies
<1>5. src \in Seq(Byte) /\ Len(src) = n
  BY <1>2, <1>3, <1>4
<1>6. ASSUME NEW j PROVE j \in BigEndian(src) <=> j \in ReadAs(mem, F, p, "net")
  <2>1. CASE j \in 0 .. F.width - 1
    <3>1. /\ j \div 8 \in 0 .. n - 1 /\ j % 8 \in 0 .. 7
          /\ BitAt(mem, p, ValueBit(F, "net", j)) <=> j % 8 \in mem[a + (n - 1 - (j \div 8))]
      BY <1>2, <2>1, AlignedBit
    <3>2. PICK d \in 0 .. n - 1 : d = j \div 8
      BY <3>1
    <3>3. src[n - d] = mem[a + (n - 1 - d)]
      <4>1. n - d \in 1 .. n /\ a + (n - d) - 1 = a + (n - 1 - d)
        BY <1>2
      <4> QED BY <1>3, <4>1
    <3>4. j \in BigEndian(src) <=> d < n /\ j % 8 \in src[n - d]
      <4>1. j \in Nat
        BY <1>2, <2>1
      <4> QED BY <1>5, <3>2, <4>1, BigEndianBit
    <3> QED BY <1>2, <2>1, <3>1, <3>2, <3>3, <3>4 DEF ReadAs
  <2>2. CASE j \notin 0 .. F.width - 1
    <3>1. ASSUME j \in BigEndian(src) PROVE FALSE
      <4>1. j \in Nat
        BY <1>5, <3>1, EndianBits
      <4>2. j \div 8 < n
        BY <1>5, <3>1, <4>1, BigEndianBit
      <4> QED BY <1>2, <2>2, <4>1, <4>2
    <3> QED BY <2>2, <3>1 DEF ReadAs
  <2> QED BY <2>1, <2>2
<1> QED BY <1>1, <1>5, <1>6

\* The last bytes of an array have the last bits of its value.
LEMMA TrailingBytes ==
  ASSUME NEW src, src \in Seq(Byte), NEW n \in Nat, n <= Len(src)
  PROVE  /\ Trailing(src, n) \in Seq(Byte) /\ Len(Trailing(src, n)) = n
         /\ BigEndian(Trailing(src, n)) = Truncate(BigEndian(src), 8 * n)
<1>1. PICK N \in Nat : N = Len(src)
  BY LenProperties
<1>2. PICK last : last = Trailing(src, n)
  OBVIOUS
<1>3. /\ last \in Seq(Byte) /\ Len(last) = n
      /\ \A k \in 1 .. n : last[k] = src[k + (N - n)]
  <2>1. N - n + 1 \in 1 .. N + 1 /\ N - n + 1 \in Int /\ N \in Int
    BY <1>1
  <2>2. last = SubSeq(src, N - n + 1, N)
    BY <1>1, <1>2 DEF Trailing
  <2>3. PICK m \in 1 .. N + 1 : m = N - n + 1
    BY <2>1
  <2>4. /\ SubSeq(src, m, N) \in Seq(Byte) /\ Len(SubSeq(src, m, N)) = (IF m <= N THEN N - m + 1 ELSE 0)
        /\ \A k \in 1 .. N - m + 1 : SubSeq(src, m, N)[k] = src[m + k - 1]
    BY <1>1, <2>3, SubSeqProperties
  <2>5. \A k \in 1 .. n : m + k - 1 = k + (N - n)
    BY <2>3
  <2> QED BY <1>1, <2>2, <2>3, <2>4, <2>5
<1>4. ASSUME NEW j PROVE j \in BigEndian(last) <=> j \in Truncate(BigEndian(src), 8 * n)
  <2>1. CASE j \in Nat
    <3>1. PICK d \in Nat : d = j \div 8
      BY <2>1
    <3>2. j \in BigEndian(last) <=> d < n /\ j % 8 \in last[n - d]
      BY <1>3, <2>1, <3>1, BigEndianBit
    <3>3. j \in BigEndian(src) <=> d < N /\ j % 8 \in src[N - d]
      BY <1>1, <2>1, <3>1, BigEndianBit
    <3>4. j \in 0 .. 8 * n - 1 <=> d < n
      BY <2>1, <3>1
    <3>5. d < n => n - d \in 1 .. n /\ (n - d) + (N - n) = N - d /\ d < N
      BY <1>1, <3>1
    <3> QED BY <1>3, <3>2, <3>3, <3>4, <3>5 DEF Truncate
  <2>2. CASE j \notin Nat
    <3>1. j \notin BigEndian(last) /\ j \notin BigEndian(src)
      BY <1>3, <2>2, EndianBits
    <3> QED BY <3>1 DEF Truncate
  <2> QED BY <2>1, <2>2
<1> QED BY <1>2, <1>3, <1>4

\* Every bit of a field is one of the value's, as the host has it.
LEMMA HostOnto ==
  ASSUME NEW o \in 0 .. 7, NEW w \in 1 .. 32, o + w <= 32, NEW t \in o .. o + w - 1
  PROVE  \E j \in 0 .. w - 1 : Flip(HostWord(o, w, j)) = t
<1>1. t \in Nat
  OBVIOUS
<1>2. CASE (o + w - 1) \div 8 = 0
  <2>1. PICK j \in 0 .. w - 1 : j = o + w - 1 - t
    OBVIOUS
  <2>2. HostWord(o, w, j) = 7 - t /\ t \in 0 .. 7
    BY <1>2, <2>1 DEF HostWord
  <2> QED BY <2>2 DEF Flip
<1>3. CASE (o + w - 1) \div 8 # 0
  <2>1. PICK L \in 1 .. 3 : L = (o + w - 1) \div 8
    BY <1>3
  <2>2. PICK y \in Nat : y = Flip(t) /\ Flip(y) = t /\ y \div 8 = t \div 8
    BY <1>1, FlipFacts
  <2>3. y \in 0 .. 7 \/ y \in 8 .. 8 * L - 1 \/ y \in 8 * L .. 8 * L + 7
    BY <2>1, <2>2
  <2>4. /\ y \in 0 .. 7 => y \in 0 .. w - 1 /\ HostWord(o, w, y) = y
        /\ y \in 8 .. 8 * L - 1 => y - o \in 0 .. w - 1 /\ HostWord(o, w, y - o) = y
        /\ y \in 8 * L .. 8 * L + 7 =>
             y - (8 * (L + 1) - w) \in 0 .. w - 1 /\ HostWord(o, w, y - (8 * (L + 1) - w)) = y
    <3>1. /\ \A i \in 0 .. 7 : Flip(i) \in o .. o + w - 1 => i \in 0 .. w - 1 /\ HostWord(o, w, i) = i
          /\ \A i \in 8 .. 8 * L - 1 : i - o \in 0 .. w - 1 /\ HostWord(o, w, i - o) = i
          /\ \A i \in 8 * L .. 8 * L + 7 : Flip(i) \in o .. o + w - 1 =>
               i - (8 * (L + 1) - w) \in 0 .. w - 1 /\ HostWord(o, w, i - (8 * (L + 1) - w)) = i
      BY <2>1, HostParts, ZenonT(60)
    <3> QED BY <2>2, <3>1, Zenon
  <2> QED BY <2>2, <2>3, <2>4
<1> QED BY <1>2, <1>3

\* Two fields between which a value survives that is read and written as the
\* host has it: they lie alike, or each in one byte.
LEMMA AlikeValues ==
  ASSUME NEW F, NEW G, F.offset \in Nat, F.width \in Nat \ {0}, InWord(F),
         G.offset \in Nat, G.width \in Nat \ {0}, InWord(G),
         \/ F.offset % 8 = G.offset % 8 /\ F.width = G.width
         \/ (F.offset % 8) + F.width <= 8 /\ (G.offset % 8) + G.width <= 8,
         NEW p, NEW q, NEW mem, NEW new,
         ReadAs(new, G, q, "host") = Truncate(ReadAs(mem, F, p, "host"), G.width)
  PROVE  ReadAs(new, G, q, "net") = Truncate(ReadAs(mem, F, p, "net"), G.width)
<1>1. \A H, r, m : H.offset \in Nat /\ H.width \in Nat \ {0} /\ (H.offset % 8) + H.width <= 8 =>
        ReadAs(m, H, r, "net") = ReadAs(m, H, r, "host")
  <2>1. ASSUME NEW H, NEW r, NEW m, H.offset \in Nat, H.width \in Nat \ {0}, (H.offset % 8) + H.width <= 8
        PROVE  ReadAs(m, H, r, "net") = ReadAs(m, H, r, "host")
    <3>1. PICK o, w : o = H.offset % 8 /\ w = H.width
      OBVIOUS
    <3>2. o \in 0 .. 7 /\ w \in 1 .. 8 /\ o + w <= 8
      BY <2>1, <3>1
    <3>3. ASSUME NEW j \in 0 .. w - 1 PROVE ValueBit(H, "net", j) = ValueBit(H, "host", j)
      <4>1. (o + w - 1) \div 8 = 0
        BY <3>2
      <4>2. HostWord(o, w, j) = j + 8 - (o + w)
        BY <4>1 DEF HostWord
      <4>3. Flip(HostWord(o, w, j)) = o + w - 1 - j
        BY <3>2, <4>2 DEF Flip
      <4> QED BY <2>1, <3>1, <4>3 DEF ValueBit
    <3> QED BY <3>1, <3>3 DEF ReadAs
  <2> QED BY <2>1
<1>2. CASE (F.offset % 8) + F.width <= 8 /\ (G.offset % 8) + G.width <= 8
  BY <1>1, <1>2
<1>3. CASE F.offset % 8 = G.offset % 8 /\ F.width = G.width
  <2>1. PICK o, w : o = F.offset % 8 /\ w = F.width
    OBVIOUS
  <2>2. o \in 0 .. 7 /\ w \in 1 .. 32 /\ o + w <= 32 /\ o = G.offset % 8 /\ w = G.width
    <3>1. F.offset \in Nat /\ F.width \in Nat \ {0} /\ F.width <= 32 /\ (F.offset % 8) + F.width <= 32
      BY DEF InWord
    <3> QED BY <1>3, <2>1, <3>1
  <2>3. ASSUME NEW k \in 0 .. w - 1
        PROVE  BitAt(new, q, ValueBit(G, "net", k)) <=> BitAt(mem, p, ValueBit(F, "net", k))
    <3>0. o \in Nat /\ w \in Nat /\ o + w - 1 - k \in o .. o + w - 1
      <4>1. o \in Nat /\ w \in Nat
        BY <2>2
      <4> QED BY <4>1
    <3>1. PICK t \in o .. o + w - 1 : t = o + w - 1 - k
      BY <3>0
    <3>2. PICK j \in 0 .. w - 1 : Flip(HostWord(o, w, j)) = t
      BY <2>2, HostOnto, ZenonT(60)
    <3>3. /\ ValueBit(F, "net", k) = F.offset - o + t /\ ValueBit(F, "host", j) = F.offset - o + t
          /\ ValueBit(G, "net", k) = G.offset - o + t /\ ValueBit(G, "host", j) = G.offset - o + t
      <4>1. /\ ValueBit(F, "net", k) = F.offset + w - 1 - k /\ ValueBit(F, "host", j) = F.offset - o + t
            /\ ValueBit(G, "net", k) = G.offset + w - 1 - k /\ ValueBit(G, "host", j) = G.offset - o + t
        BY <2>1, <2>2, <3>2 DEF ValueBit
      <4>2. \A m \in Nat : m + w - 1 - k = m - o + t
        BY <3>0, <3>1
      <4>3. F.offset \in Nat /\ G.offset \in Nat
        OBVIOUS
      <4> QED BY <4>1, <4>2, <4>3
    <3>4. j \in ReadAs(new, G, q, "host") <=> j \in ReadAs(mem, F, p, "host")
      BY <2>2 DEF Truncate
    <3>5. j \in ReadAs(new, G, q, "host") <=> BitAt(new, q, ValueBit(G, "host", j))
      BY <2>2 DEF ReadAs
    <3>6. j \in ReadAs(mem, F, p, "host") <=> BitAt(mem, p, ValueBit(F, "host", j))
      BY <2>1 DEF ReadAs
    <3> QED BY <3>3, <3>4, <3>5, <3>6
  <2>4. ReadAs(new, G, q, "net") = {k \in 0 .. w - 1 : BitAt(new, q, ValueBit(G, "net", k))}
    BY <2>2 DEF ReadAs
  <2>5. ReadAs(mem, F, p, "net") = {k \in 0 .. w - 1 : BitAt(mem, p, ValueBit(F, "net", k))}
    BY <2>1 DEF ReadAs
  <2> QED BY <2>2, <2>3, <2>4, <2>5 DEF Truncate
<1> QED BY <1>2, <1>3

\* The lowest bits of a sum are those of the sum of the lowest bits.
LEMMA PlusTruncated ==
  ASSUME NEW c, NEW x, NEW y, NEW w \in Nat, Truncate(x, w) = Truncate(y, w)
  PROVE  Truncate(Plus(c, x), w) = Truncate(Plus(c, y), w)
<1>1. \A i \in 0 .. w - 1 : i \in x <=> i \in y
  BY DEF Truncate
<1> DEFINE Carry(u, i) == \E j \in 0 .. i - 1 : j \in c \intersect u /\ (j + 1) .. (i - 1) \subseteq c \union u
<1>2. \A i \in 0 .. w - 1 : Carry(x, i) <=> Carry(y, i)
  BY <1>1
<1>3. \A u, i : i \in Plus(c, u) <=> i \in Bit /\ ((i \in c) # ((i \in u) # Carry(u, i)))
  BY DEF Plus
<1> HIDE DEF Carry
<1>4. \A i \in 0 .. w - 1 : i \in Plus(c, x) <=> i \in Plus(c, y)
  <2>1. ASSUME NEW i \in 0 .. w - 1 PROVE i \in Plus(c, x) <=> i \in Plus(c, y)
    <3>1. (i \in x <=> i \in y) /\ (Carry(x, i) <=> Carry(y, i))
      BY <1>1, <1>2
    <3>2. /\ i \in Plus(c, x) <=> i \in Bit /\ ((i \in c) # ((i \in x) # Carry(x, i)))
          /\ i \in Plus(c, y) <=> i \in Bit /\ ((i \in c) # ((i \in y) # Carry(y, i)))
      BY <1>3
    <3>3. (i \in x) = (i \in y)
      BY <3>1
    <3>4. Carry(x, i) = Carry(y, i)
      <4>1. Carry(x, i) \in BOOLEAN /\ Carry(y, i) \in BOOLEAN
        BY DEF Carry
      <4> QED BY <3>1, <4>1
    <3> QED BY <3>2, <3>3, <3>4
  <2> QED BY <2>1
<1> QED BY <1>4 DEF Truncate

-----------------------------------------------------------------------------
(* Places.                                                                 *)

\* A set of numbers that is not empty has a least one.
LEMMA LeastNumber ==
  ASSUME NEW S, \A v \in S : v \in Nat, S # {}
  PROVE  \E x \in S : \A y \in S : x <= y
<1> DEFINE L == {p \in Nat \X Nat : p[1] < p[2]}
<1>1. IsWellFoundedOn(L, Nat)
  BY NatLessThanWellFounded DEF OpToRel
<1>2. PICK x \in S : \A y \in S : ~(<<y, x>> \in L)
  <2>1. S \subseteq Nat
    OBVIOUS
  <2> HIDE DEF L
  <2> QED BY <1>1, <2>1, WFMin
<1>3. \A v, w \in Nat : ~(<<v, w>> \in L) => w <= v
  OBVIOUS
<1> HIDE DEF L
<1> QED BY <1>2, <1>3, Zenon

Parsing == ctl.at \in {"parse", "select"}
Places == {"idle", "parse", "select", "node", "calls", "update", "send", "crashed"}
Nodes == DOMAIN program.node \union {"end"}

ProgramInv == \E name \in DOMAIN Program : program = Compiled(name)

PlaceInv ==
  /\ DOMAIN ctl = {"at", "name", "buf", "todo", "params"} /\ ctl.at \in Places
  /\ Parsing => ctl.name \in DOMAIN program.parse /\ ctl.buf \in Nat
  /\ ctl.at = "node" => ctl.name \in DOMAIN program.node
  /\ ctl.at = "calls" =>
       /\ ctl.name \in Nodes /\ ctl.todo # <<>>
       /\ \E a \in DOMAIN program.action :
            ParamsAreSound(program, a, ctl.params) /\ ctl.todo \in Seq(ToSet(program.action[a]))

\* The parts of a place.
LEMMA Literals ==
  ASSUME NEW place, NEW name
  PROVE  /\ DOMAIN At(place, name) = {"at", "name", "buf", "todo", "params"}
         /\ At(place, name).at = place /\ At(place, name).name = name /\ At(place, name).buf = 0
BY DEF At

\* A node, or update_packet if there is none.
LEMMA GotoPlace ==
  ASSUME NEW node
  PROVE  /\ DOMAIN Goto(node) = {"at", "name", "buf", "todo", "params"}
         /\ node = "end" => Goto(node).at = "update"
         /\ node # "end" => Goto(node).at = "node" /\ Goto(node).name = node
BY Literals DEF Goto

\* The program that runs is one of those assumed.
LEMMA SoundProgram == ProgramInv => ProgramIsSound(program)
BY PipelineAssumption DEF ProgramInv

\* One of the steps inside an action of a table.
LEMMA CallStep ==
  ASSUME PlaceInv, ctl.at = "calls", CallDone, program' = program
  PROVE  /\ PlaceInv' /\ ctl'.at \in {"node", "update", "calls"}
<1> USE DEF PlaceInv, Parsing, Places, Nodes
<1>1. PICK a \in DOMAIN program.action :
        ParamsAreSound(program, a, ctl.params) /\ ctl.todo \in Seq(ToSet(program.action[a]))
  BY DEF PlaceInv
<1>2. CASE Len(ctl.todo) = 1
  <2>1. ctl' = Goto(ctl.name)
    BY <1>2 DEF CallDone
  <2> QED BY <2>1, GotoPlace
<1>3. CASE Len(ctl.todo) # 1
  <2>1. ctl' = [ctl EXCEPT !.todo = Tail(@)]
    BY <1>3 DEF CallDone
  <2>2. Tail(ctl.todo) \in Seq(ToSet(program.action[a])) /\ Tail(ctl.todo) # <<>>
    <3> HIDE DEF PlaceInv, Parsing, Places, Nodes
    <3> DEFINE S == ToSet(program.action[a])
    <3> HIDE DEF S
    <3>1. ctl.todo \in Seq(S) /\ ctl.todo # <<>>
      BY <1>1 DEF S, PlaceInv
    <3>2. Len(ctl.todo) \in Nat /\ Len(ctl.todo) # 0
      BY <3>1, EmptySeq, LenProperties
    <3>3. Tail(ctl.todo) \in Seq(S) /\ Len(Tail(ctl.todo)) = Len(ctl.todo) - 1
      BY <3>1, HeadTailProperties
    <3>4. Len(Tail(ctl.todo)) # 0
      BY <3>2, <3>3, <1>3
    <3>5. Tail(ctl.todo) # <<>>
      BY <3>4, EmptySeq
    <3> QED BY <3>3, <3>5 DEF S
  <2>3. ctl'.todo = Tail(ctl.todo) /\ ctl'.params = ctl.params /\ ctl'.at = "calls" /\ ctl'.name = ctl.name
    BY <2>1
  <2> QED BY <1>1, <2>1, <2>2, <2>3
<1> QED BY <1>2, <1>3

\* From inside the program to one of its nodes.
LEMMA NodeStep ==
  ASSUME PlaceInv, program' = program, NEW next, next \in Nodes, ctl' = Goto(next)
  PROVE  PlaceInv' /\ ctl'.at \in {"node", "update"}
BY GotoPlace DEF PlaceInv, Parsing, Places, Nodes

\* A condition leads to a node of the program.
LEMMA ConditionStep ==
  ASSUME PlaceInv, ProgramInv, condition
  PROVE  PlaceInv' /\ ctl'.at \in {"node", "update"}
<1>1. Node.kind = "if" /\ ctl.at = "node" /\ ctl.name \in DOMAIN program.node
  BY DEF condition, AtCondition, PlaceInv
<1>2. {Node.then, Node.else} \subseteq Nodes
  BY <1>1, SoundProgram DEF ProgramIsSound, NodeIsSound, Nodes, Node
<1>3. PICK next \in Nodes : ctl' = Goto(next)
  BY <1>2 DEF condition
<1> QED BY <1>3, NodeStep DEF condition

\* A table leads to a node of the program, or into an action that leads to one.
LEMMA TableStep ==
  ASSUME PlaceInv, ProgramInv, apply_table
  PROVE  PlaceInv' /\ ctl'.at \in {"node", "update", "calls"}
<1>1. Node.kind = "table" /\ ctl.at = "node" /\ ctl.name \in DOMAIN program.node
  BY DEF apply_table, AtTable, PlaceInv
<1>2. NodeIsSound(program, Node)
  BY <1>1, SoundProgram DEF ProgramIsSound, Node
<1>3. /\ \A e \in Node.entries : ParamsAreSound(program, e.action, e.params)
      /\ \A a \in Node.default : ParamsAreSound(program, a, <<>>)
      /\ IF Node.by_hit THEN {Node.next.hit, Node.next.miss} \subseteq Nodes
         ELSE \A a \in {e.action : e \in Node.entries} \union Node.default : Node.next[a] \in Nodes
  BY <1>1, <1>2 DEF NodeIsSound, Nodes
<1>4. PICK res \in Lookups(Node) :
        LET calls == IF res = NoResult THEN <<>> ELSE program.action[res.action]
            next == AfterTable(Node, res)
        IN  ctl' = IF calls = <<>> THEN Goto(next)
                   ELSE [At("calls", next) EXCEPT !.todo = calls, !.params = res.params]
  BY DEF apply_table
<1>5. res # NoResult =>
        /\ ParamsAreSound(program, res.action, res.params)
        /\ ~Node.by_hit => Node.next[res.action] \in Nodes
  <2>1. CASE \E e \in Node.entries : res = [action |-> e.action, params |-> e.params, hit |-> TRUE]
    BY <1>3, <2>1
  <2>2. CASE \E a \in Node.default, hit \in BOOLEAN : res = [action |-> a, params |-> <<>>, hit |-> hit]
    BY <1>3, <2>2
  <2> QED BY <1>4, <2>1, <2>2 DEF Lookups
<1>6. AfterTable(Node, res) \in Nodes
  BY <1>3, <1>5 DEF AfterTable, Nodes
<1> DEFINE next == AfterTable(Node, res)
           calls == IF res = NoResult THEN <<>> ELSE program.action[res.action]
<1>7. program' = program
  BY DEF apply_table
<1>8. CASE calls = <<>>
  <2>1. ctl' = Goto(next)
    BY <1>4, <1>8
  <2> QED BY <1>6, <1>7, <2>1, NodeStep
<1>9. CASE calls # <<>>
  <2>1. ctl' = [At("calls", next) EXCEPT !.todo = calls, !.params = res.params]
    BY <1>4, <1>9
  <2>2. /\ DOMAIN ctl' = {"at", "name", "buf", "todo", "params"}
        /\ ctl'.at = "calls" /\ ctl'.name = next /\ ctl'.todo = calls /\ ctl'.params = res.params
    BY <2>1 DEF At
  <2>3. res # NoResult /\ calls = program.action[res.action]
    BY <1>9
  <2>4. res.action \in DOMAIN program.action
    BY <1>5, <2>3 DEF ParamsAreSound
  <2>5. calls \in Seq(ToSet(program.action[res.action]))
    BY <2>3, <2>4, SoundProgram DEF ProgramIsSound
  <2> HIDE DEF calls, next
  <2> QED BY <1>5, <1>6, <1>7, <1>9, <2>2, <2>3, <2>4, <2>5 DEF PlaceInv, Parsing, Places, next, Nodes
<1> QED BY <1>8, <1>9

\* The least of a set of numbers is one of them.
LEMMA LeastIsIn ==
  ASSUME NEW I, \A i \in I : i \in Nat, I # {}
  PROVE  Min(I) \in I
<1>1. \E n \in I : \A m \in I : n <= m
  BY LeastNumber
<1> QED BY <1>1, Zenon DEF Min

\* A parse state leads to one of its cases.
LEMMA ParseStep ==
  ASSUME PlaceInv, ProgramInv, parse_state
  PROVE  /\ PlaceInv' /\ ctl'.at \in {"parse", "node", "update"}
         /\ ctl'.at = "parse" =>
              /\ ctl'.buf = ctl.buf
              /\ \E n \in DOMAIN ToParse.cases :
                   ToParse.cases[n].to = "parse" /\ ToParse.cases[n].name = ctl'.name
<1> DEFINE key == build_key(ToParse.select)
           found == SelectInSeq(ToParse.cases, LAMBDA c : IsPrefix(c.bytes, key))
           next == ToParse.cases[found]
<1>1. ctl.at = "select" /\ ctl.name \in DOMAIN program.parse /\ ctl.buf \in Nat /\ program' = program
  BY DEF parse_state, PlaceInv, Parsing
<1>2. ToParse = program.parse[ctl.name]
  BY DEF ToParse
<1>3. /\ ToParse.cases \in Seq(ToSet(ToParse.cases))
      /\ \A n \in DOMAIN ToParse.cases :
           LET c == ToParse.cases[n]
           IN  \/ c.to = "parse" /\ c.name \in DOMAIN program.parse
               \/ c.to = "node" /\ c.name \in Nodes
  BY <1>1, <1>2, SoundProgram DEF ProgramIsSound, ParserIsSound, Nodes
<1>4. /\ found = 0 => ctl' = At("update", "end")
      /\ found # 0 /\ next.to = "parse" => ctl' = [At("parse", next.name) EXCEPT !.buf = ctl.buf]
      /\ found # 0 /\ next.to # "parse" => ctl' = Goto(next.name)
  BY DEF parse_state
<1>5. found # 0 => found \in DOMAIN ToParse.cases
  <2> DEFINE I == {i \in 1 .. Len(ToParse.cases) : IsPrefix(ToParse.cases[i].bytes, key)}
  <2>1. found = IF I # {} THEN Min(I) ELSE 0
    BY DEF SelectInSeq
  <2>2. Len(ToParse.cases) \in Nat /\ DOMAIN ToParse.cases = 1 .. Len(ToParse.cases)
    BY <1>3, LenProperties
  <2>3. \A i \in I : i \in Nat /\ i \in DOMAIN ToParse.cases
    BY <2>2
  <2> HIDE DEF I, found
  <2> QED BY <2>1, <2>3, LeastIsIn
<1> HIDE DEF found
<1>6. CASE found = 0
  BY <1>1, <1>4, <1>6, Literals DEF PlaceInv, Parsing, Places
<1>7. CASE found # 0 /\ next.to = "parse"
  <2>1. /\ DOMAIN ctl' = {"at", "name", "buf", "todo", "params"}
        /\ ctl'.at = "parse" /\ ctl'.name = next.name /\ ctl'.buf = ctl.buf
    BY <1>4, <1>7 DEF At
  <2> QED BY <1>1, <1>3, <1>5, <1>7, <2>1 DEF PlaceInv, Parsing, Places
<1>8. CASE found # 0 /\ next.to # "parse"
  <2>1. next.name \in Nodes /\ ctl' = Goto(next.name)
    BY <1>3, <1>4, <1>5, <1>8
  <2> QED BY <1>1, <2>1, NodeStep
<1> QED BY <1>6, <1>7, <1>8

-----------------------------------------------------------------------------
(* The headers of the packet.                                              *)

Inside == ctl.at \in {"parse", "select", "node", "calls", "update"}
Headers == DOMAIN program.length

\* Every place of the program is one of it, and its actions and the parameters
\* of their calls are.
LEMMA PlaceInit == Init => ProgramInv /\ PlaceInv
BY Literals DEF Init, ProgramInv, PlaceInv, Parsing, Places

\* The worker is always at a place the program has.
LEMMA PlaceNext == ProgramInv /\ PlaceInv /\ [Next]_vars => ProgramInv' /\ PlaceInv'
<1> SUFFICES ASSUME ProgramInv, PlaceInv, [Next]_vars PROVE ProgramInv' /\ PlaceInv'
  OBVIOUS
<1>1. program' = program
  BY DEF Next, vars, packet_received, extract_header, parse_state, condition, apply_table, modify_const,
     modify_param, copy_bytes, copy_int32, add_to_field, drop, generate_digest, update_packet, send_packet, Crash
<1>2. ProgramInv'
  BY <1>1 DEF ProgramInv
<1>3. CASE \E packet \in Packet[program.name], port \in Port : packet_received(packet, port)
  <2>1. ctl' = At("parse", program.start) /\ program.start \in DOMAIN program.parse
    BY <1>3, SoundProgram DEF packet_received, ProgramIsSound, ParserIsSound
  <2> QED BY <1>1, <1>2, <2>1, Literals DEF PlaceInv, Parsing, Places
<1>4. CASE extract_header
  <2>1. ctl.at = "parse" /\ ctl' = [ctl EXCEPT !.at = "select", !.buf = @ + program.length[ToParse.extract]]
    BY <1>4 DEF extract_header
  <2>2. ToParse.extract \in DOMAIN program.length /\ program.length[ToParse.extract] \in Nat
    <3>1. ctl.name \in DOMAIN program.parse
      BY <2>1 DEF PlaceInv, Parsing
    <3>2. \E f \in DOMAIN program.field : program.field[f].hdr = ToParse.extract
      BY <3>1, SoundProgram DEF ProgramIsSound, ParserIsSound, ToParse
    <3> QED BY <3>2, SoundProgram DEF ProgramIsSound, LayoutIsSound
  <2>3. ctl.buf + program.length[ToParse.extract] \in Nat
    BY <2>1, <2>2 DEF PlaceInv, Parsing
  <2> QED BY <1>1, <1>2, <2>1, <2>3 DEF PlaceInv, Parsing, Places
<1>5. CASE parse_state
  BY <1>2, <1>5, ParseStep
<1>6. CASE condition
  BY <1>2, <1>6, ConditionStep
<1>7. CASE apply_table
  BY <1>2, <1>7, TableStep
<1>8. CASE modify_const \/ modify_param \/ copy_bytes \/ copy_int32 \/ add_to_field \/ drop \/ generate_digest
  <2>1. ctl.at = "calls" /\ CallDone
    BY <1>8 DEF modify_const, modify_param, copy_bytes, copy_int32, add_to_field, drop, generate_digest, Calling
  <2> QED BY <1>1, <1>2, <2>1, CallStep
<1>9. CASE update_packet \/ send_packet \/ Crash
  <2>1. PICK place \in {"send", "idle", "crashed"} : ctl' = At(place, "none")
    BY <1>9 DEF update_packet, send_packet, Crash
  <2> QED BY <1>2, <2>1, Literals DEF PlaceInv, Parsing, Places
<1>10. CASE UNCHANGED vars
  <2>1. ctl' = ctl
    BY <1>10 DEF vars
  <2> QED BY <1>1, <1>2, <2>1 DEF PlaceInv, Parsing, Nodes
<1> QED BY <1>3, <1>4, <1>5, <1>6, <1>7, <1>8, <1>9, <1>10 DEF Next

-----------------------------------------------------------------------------
(* Where the process may end.                                              *)

MarkedInv ==
  /\ attr \in [Parsed -> {0, MODIFIED}]
  /\ Inside => \A f \in WrittenBack : Present(f) \/ outside \/ f \in leftover

CrashInv == ProgramInv /\ PlaceInv /\ MarkedInv /\ CrashOnlyOnMissingHeader

\* What a call uses in memory it also names.
LEMMA CallBytesAreNamed == \A c : CallBytes(c) \subseteq CallFields(c)
BY DEF CallBytes, CallFields

\* A crash happens where the program or a copy left MODIFIED uses a missing
\* header.
LEMMA CrashStep ==
  ASSUME CrashInv, Crash
  PROVE  ctl'.at = "crashed" /\ (outside' \/ \E f \in leftover' : ~Present(f)')
<1>1. PICK f \in BytesUsed : ~Present(f)
  BY DEF Crash, Safe
<1>2. outside' = Outside /\ leftover' = leftover /\ (Present(f)' <=> Present(f)) /\ ctl'.at = "crashed"
  BY Literals DEF Crash, pd, Present, Field
<1>3. f \in Named \/ (Inside /\ f \in WrittenBack)
  <2>1. CASE ctl.at = "calls"
    BY <1>1, <2>1, CallBytesAreNamed DEF BytesUsed, Named, AtTable, AtCondition
  <2>2. CASE ctl.at = "select"
    BY <1>1, <2>2 DEF BytesUsed, Calculated
  <2>3. CASE ctl.at = "update"
    BY <1>1, <2>3 DEF BytesUsed, Calculated, Inside
  <2>4. CASE ctl.at \notin {"calls", "select", "update"}
    BY <1>1, <2>4 DEF BytesUsed
  <2> QED BY <2>1, <2>2, <2>3, <2>4
<1>4. outside' \/ f \in leftover'
  BY <1>1, <1>2, <1>3 DEF Outside, CrashInv, MarkedInv
<1> QED BY <1>1, <1>2, <1>4

\* A step that marks a field of a call.
LEMMA MarkStep ==
  ASSUME MarkedInv, program' = program, pointer' = pointer, leftover' = leftover,
         Inside, ctl.at = "calls", outside' = Outside, NEW f \in CallFields(Call),
         attr' = [attr EXCEPT ![f] = MODIFIED] \/ attr' = attr
  PROVE  MarkedInv'
<1>1. attr' \in [Parsed -> {0, MODIFIED}] /\ Parsed' = Parsed
  BY DEF MarkedInv, Parsed
<1>2. \A g : Present(g)' <=> Present(g)
  BY DEF Present, Field
<1>3. Named = CallFields(Call)
  BY DEF Named, AtTable, AtCondition
<1>4. WrittenBack' \subseteq WrittenBack \union {f}
  BY <1>1 DEF WrittenBack, MarkedInv
<1>5. ASSUME NEW g \in WrittenBack' PROVE Present(g)' \/ outside' \/ g \in leftover'
  <2>1. CASE g \in WrittenBack
    BY <1>2, <2>1 DEF MarkedInv, Outside
  <2>2. CASE g = f
    BY <1>2, <1>3, <2>2 DEF Outside
  <2> QED BY <1>4, <1>5, <2>1, <2>2
<1> QED BY <1>1, <1>5 DEF MarkedInv

\* CrashInv is inductive.
LEMMA CrashNext == CrashInv /\ [Next]_vars => CrashInv'
<1> SUFFICES ASSUME CrashInv, [Next]_vars PROVE CrashInv'
  OBVIOUS
<1>1. ProgramInv' /\ PlaceInv'
  BY PlaceNext DEF CrashInv
<1> DEFINE Kept == program' = program /\ pointer' = pointer /\ attr' = attr /\ leftover' = leftover
<1>2. ASSUME Kept, outside' = outside, Inside, ctl'.at # "crashed" PROVE CrashInv'
  BY <1>1, <1>2 DEF CrashInv, MarkedInv, CrashOnlyOnMissingHeader, Inside, WrittenBack, Present, Parsed, Field
<1>3. CASE \E packet \in Packet[program.name], port \in Port : packet_received(packet, port)
  <2>1. leftover' = WrittenBack /\ attr' = attr /\ program' = program /\ ctl'.at = "parse"
    BY <1>3, Literals DEF packet_received
  <2> QED BY <1>1, <2>1 DEF CrashInv, MarkedInv, CrashOnlyOnMissingHeader, WrittenBack, Parsed
<1>4. CASE extract_header
  <2>1. /\ ctl.at = "parse" /\ ctl'.at = "select" /\ program' = program
        /\ attr' = [f \in Parsed |-> IF f \in FieldsOf(ToParse.extract) \intersect Parsed THEN 0 ELSE attr[f]]
        /\ outside' = outside /\ leftover' = leftover
    BY <1>4 DEF extract_header, CrashInv, PlaceInv
  <2>2. pointer' = Override(pointer, [x \in {ToParse.extract} |-> ctl.buf])
    BY <1>4 DEF extract_header
  <2>3. DOMAIN pointer \subseteq DOMAIN pointer'
    BY <2>2 DEF Override
  <2>4. attr' \in [Parsed' -> {0, MODIFIED}] /\ WrittenBack' \subseteq WrittenBack
    BY <2>1 DEF CrashInv, MarkedInv, WrittenBack, Parsed, MODIFIED
  <2>5. MarkedInv'
    BY <2>1, <2>3, <2>4 DEF CrashInv, MarkedInv, Inside, Present, Field, Parsed
  <2> QED BY <1>1, <2>1, <2>5 DEF CrashInv, CrashOnlyOnMissingHeader
<1>5. CASE parse_state
  <2>1. Kept /\ outside' = outside /\ Inside
    BY <1>5 DEF parse_state, history, Inside
  <2>2. ctl'.at # "crashed"
    BY <1>5, ParseStep DEF CrashInv
  <2> QED BY <1>2, <2>1, <2>2
<1>6. CASE condition \/ apply_table
  <2>1. Kept /\ outside' = outside /\ Inside
    BY <1>6 DEF condition, apply_table, pd, history, Inside, AtTable, AtCondition
  <2>2. ctl'.at # "crashed"
    BY <1>6, ConditionStep, TableStep DEF CrashInv
  <2> QED BY <1>2, <2>1, <2>2
<1>7. CASE drop \/ generate_digest
  <2>1. Kept /\ outside' = outside /\ Inside /\ ctl.at = "calls" /\ CallDone
    BY <1>7 DEF drop, generate_digest, pd, history, Inside, Calling
  <2>2. ctl'.at # "crashed"
    BY <2>1, CallStep DEF CrashInv
  <2> QED BY <1>2, <2>1, <2>2
<1>8. CASE modify_const \/ modify_param \/ copy_bytes \/ copy_int32 \/ add_to_field
  <2>1. /\ ctl.at = "calls" /\ CallDone /\ program' = program /\ pointer' = pointer /\ leftover' = leftover
        /\ outside' = Outside
        /\ \E f \in CallFields(Call) : attr' = [attr EXCEPT ![f] = MODIFIED] \/ attr' = attr
    <3>1. CASE modify_const
      BY <3>1 DEF modify_const, Calling, CallFields, modify_int32_int32
    <3>2. CASE modify_param
      BY <3>2 DEF modify_param, Calling, CallFields
    <3>3. CASE copy_bytes
      BY <3>3 DEF copy_bytes, Calling, CallFields
    <3>4. CASE copy_int32
      BY <3>4 DEF copy_int32, Calling, CallFields, modify_int32_int32
    <3>5. CASE add_to_field
      BY <3>5 DEF add_to_field, Calling, CallFields, modify_int32_int32
    <3> QED BY <1>8, <3>1, <3>2, <3>3, <3>4, <3>5
  <2>2. ctl'.at # "crashed" /\ Inside
    BY <2>1, CallStep DEF CrashInv, Inside
  <2>3. MarkedInv'
    BY <2>1, <2>2, MarkStep DEF CrashInv
  <2> QED BY <1>1, <2>2, <2>3 DEF CrashInv, CrashOnlyOnMissingHeader
<1>9. CASE update_packet \/ send_packet
  <2>1. program' = program /\ attr' = attr /\ ctl'.at \in {"send", "idle"}
    BY <1>9, Literals DEF update_packet, send_packet
  <2> QED BY <1>1, <2>1 DEF CrashInv, MarkedInv, CrashOnlyOnMissingHeader, Inside, Parsed
<1>10. CASE Crash
  <2>1. program' = program /\ attr' = attr
    BY <1>10 DEF Crash, pd
  <2> QED BY <1>1, <1>10, <2>1, CrashStep DEF CrashInv, MarkedInv, CrashOnlyOnMissingHeader, Inside, Parsed
<1>11. CASE UNCHANGED vars
  BY <1>1, <1>11 DEF vars, pd, history, CrashInv, MarkedInv, CrashOnlyOnMissingHeader, Inside, WrittenBack, Present, Parsed, Field
<1> QED BY <1>3, <1>4, <1>5, <1>6, <1>7, <1>8, <1>9, <1>10, <1>11 DEF Next

\* CrashInv holds before the first packet.
LEMMA CrashInit == Init => CrashInv
BY PlaceInit, Literals DEF Init, CrashInv, MarkedInv, CrashOnlyOnMissingHeader, Inside

\* The process ends inside a packet only where the program uses a header that
\* this packet has not, or an earlier packet left a copy of one MODIFIED.
THEOREM CrashOnly == Spec => []CrashOnlyOnMissingHeader
<1>1. CrashInv => CrashOnlyOnMissingHeader
  BY DEF CrashInv
<1> QED BY <1>1, CrashInit, CrashNext, PTL DEF Spec

-----------------------------------------------------------------------------
(* Where the headers lie.                                                  *)

Ends(h) == pointer[h] + program.length[h]

\* upto is a way through the parser.
Way(upto, size) ==
  /\ upto \in [DOMAIN program.parse -> 0 .. size]
  /\ \A s \in DOMAIN program.parse : \A n \in DOMAIN program.parse[s].cases :
       LET c == program.parse[s].cases[n]
       IN  c.to = "parse" => upto[s] + program.length[program.parse[c.name].extract] <= upto[c.name]
RoomLeft(upto) ==
  /\ ctl.at = "parse" => ctl.buf + program.length[ToParse.extract] <= upto[ctl.name]
  /\ ctl.at = "select" => ctl.buf <= upto[ctl.name]

PointersLie(size) ==
  \A h \in DOMAIN pointer \ MetaHeaders :
    /\ pointer[h] \in Nat /\ Ends(h) <= size
    /\ Parsing => Ends(h) <= ctl.buf
    /\ \A k \in DOMAIN pointer \ MetaHeaders : h # k => Ends(h) <= pointer[k] \/ Ends(k) <= pointer[h]

MemoryInv ==
  /\ DOMAIN memory = MetaHeaders \union {"packet"}
  /\ \A h \in MetaHeaders : memory[h] \in [0 .. program.length[h] - 1 -> Byte]
  /\ MetaHeaders \subseteq DOMAIN pointer /\ DOMAIN pointer \subseteq Headers
  /\ \A h \in MetaHeaders : pointer[h] = 0
  /\ \E size \in Nat :
       /\ memory["packet"] \in [0 .. size - 1 -> Byte] /\ PointersLie(size)
       /\ Parsing => \E upto : Way(upto, size) /\ RoomLeft(upto)
  /\ ctl.at = "idle" =>
       /\ DOMAIN pointer = MetaHeaders
       /\ \A h \in MetaHeaders : memory[h] = Zeros(h)

\* What a program's layout is.
LEMMA Layout ==
  ASSUME ProgramInv, NEW f \in DOMAIN Field
  PROVE  /\ Field[f].offset \in Nat /\ Field[f].width \in Nat \ {0} /\ Field[f].meta \in BOOLEAN
         /\ Field[f].hdr \in Headers /\ program.length[Field[f].hdr] \in Nat
         /\ Field[f].offset + Field[f].width <= 8 * program.length[Field[f].hdr]
         /\ Field[f].hdr # "packet"
         /\ IsMeta(f) <=> Field[f].hdr \in MetaHeaders
<1>1. LayoutIsSound(program)
  BY SoundProgram DEF ProgramIsSound
<1>2. /\ Field[f].offset \in Nat /\ Field[f].width \in Nat \ {0} /\ Field[f].meta \in BOOLEAN
      /\ Field[f].hdr \in Headers /\ program.length[Field[f].hdr] \in Nat
      /\ Field[f].offset + Field[f].width <= 8 * program.length[Field[f].hdr]
      /\ Field[f].hdr # "packet"
  BY <1>1 DEF LayoutIsSound, Field, Headers
<1>3. \A g \in DOMAIN Field : Field[f].hdr = Field[g].hdr => Field[f].meta = Field[g].meta
  BY <1>1 DEF LayoutIsSound, Field
<1>4. IsMeta(f) <=> Field[f].hdr \in MetaHeaders
  BY <1>3 DEF IsMeta, MetaHeaders
<1> QED BY <1>2, <1>4

\* Two fields of a header do not overlap.
LEMMA LayoutApart ==
  ASSUME ProgramInv, NEW f \in DOMAIN Field, NEW g \in DOMAIN Field, f # g, Field[f].hdr = Field[g].hdr
  PROVE  \/ Field[f].offset + Field[f].width <= Field[g].offset
         \/ Field[g].offset + Field[g].width <= Field[f].offset
<1>1. LayoutIsSound(program)
  BY SoundProgram DEF ProgramIsSound
<1> QED BY <1>1 DEF LayoutIsSound, Field

\* A header has a length, and none is called the packet.
LEMMA HeaderLengths ==
  ASSUME ProgramInv
  PROVE  /\ \A h \in Headers : program.length[h] \in Nat /\ h # "packet"
         /\ MetaHeaders \subseteq Headers
<1>1. LayoutIsSound(program)
  BY SoundProgram DEF ProgramIsSound
<1>2. Headers = {Field[f].hdr : f \in DOMAIN Field}
  BY <1>1 DEF LayoutIsSound, Field, Headers
<1> QED BY <1>2, Layout DEF MetaHeaders

\* A field of a header that is there lies in the memory of that header.
LEMMA PresentLies ==
  ASSUME ProgramInv, MemoryInv, NEW f \in DOMAIN Field, Present(f)
  PROVE  /\ Lies(Field[f], pointer[Field[f].hdr], Mem(f))
         /\ Region(f) \in DOMAIN memory
         /\ DOMAIN Mem(f) \subseteq Nat /\ Mem(f) \in [DOMAIN Mem(f) -> Byte]
<1>1. PICK o, w, h : o = Field[f].offset /\ w = Field[f].width /\ h = Field[f].hdr
  OBVIOUS
<1>2. /\ o \in Nat /\ w \in Nat \ {0} /\ program.length[h] \in Nat /\ o + w <= 8 * program.length[h]
      /\ IsMeta(f) <=> h \in MetaHeaders
  BY <1>1, Layout
<1>3. PICK len \in Nat : len = program.length[h]
  BY <1>2
<1>4. o \div 8 \in Nat /\ (o + w - 1) \div 8 \in 0 .. len - 1
  BY <1>2, <1>3
<1>5. PICK d, e \in Nat : d = o \div 8 /\ e = (o + w - 1) \div 8
  BY <1>4
<1>6. CASE IsMeta(f)
  <2>1. Region(f) = h /\ pointer[h] = 0 /\ h \in MetaHeaders
    BY <1>1, <1>2, <1>6 DEF Region, MemoryInv
  <2>2. Mem(f) \in [0 .. len - 1 -> Byte] /\ Region(f) \in DOMAIN memory
    BY <1>3, <2>1 DEF Mem, MemoryInv
  <2>3. \A x \in 0 + d .. 0 + e : x \in 0 .. len - 1
    BY <1>3, <1>4, <1>5
  <2> QED BY <1>1, <1>2, <1>5, <2>1, <2>2, <2>3 DEF Lies
<1>7. CASE ~IsMeta(f)
  <2>1. Region(f) = "packet" /\ h \in DOMAIN pointer \ MetaHeaders
    BY <1>1, <1>2, <1>7 DEF Region, Present
  <2>2. PICK size \in Nat : memory["packet"] \in [0 .. size - 1 -> Byte] /\ PointersLie(size)
    BY DEF MemoryInv
  <2>3. pointer[h] \in Nat /\ pointer[h] + len <= size
    BY <1>3, <2>1, <2>2 DEF PointersLie, Ends
  <2>4. PICK p \in Nat : p = pointer[h]
    BY <2>3
  <2>5. \A x \in p + d .. p + e : x \in 0 .. size - 1
    BY <1>3, <1>4, <1>5, <2>3, <2>4
  <2>6. Mem(f) \in [0 .. size - 1 -> Byte] /\ Region(f) \in DOMAIN memory
    BY <2>1, <2>2 DEF Mem, MemoryInv
  <2>7. /\ \A x \in DOMAIN Mem(f) : x \in Nat /\ Mem(f)[x] \in Byte
        /\ \A x \in p + d .. p + e : x \in DOMAIN Mem(f)
    BY <2>5, <2>6
  <2>8. Lies(Field[f], pointer[Field[f].hdr], Mem(f))
    BY <1>1, <1>2, <1>5, <2>4, <2>7 DEF Lies
  <2> QED BY <2>6, <2>7, <2>8
<1> QED BY <1>6, <1>7

\* Two fields have no bit in common.
LEMMA FieldsApart ==
  ASSUME ProgramInv, MemoryInv, NEW f \in DOMAIN Field, Present(f), NEW g \in DOMAIN Field, Present(g),
         f # g, Region(f) = Region(g)
  PROVE  BitsOf(Field[f], pointer[Field[f].hdr]) \intersect BitsOf(Field[g], pointer[Field[g].hdr]) = {}
<1>1. PICK o, w, h, p : o = Field[f].offset /\ w = Field[f].width /\ h = Field[f].hdr /\ p = pointer[h]
  OBVIOUS
<1>2. PICK oo, ww, k, q : oo = Field[g].offset /\ ww = Field[g].width /\ k = Field[g].hdr /\ q = pointer[k]
  OBVIOUS
<1>3. /\ o \in Nat /\ w \in Nat /\ oo \in Nat /\ ww \in Nat
      /\ program.length[h] \in Nat /\ program.length[k] \in Nat
      /\ o + w <= 8 * program.length[h] /\ oo + ww <= 8 * program.length[k]
      /\ h # "packet" /\ k # "packet"
      /\ IsMeta(f) <=> h \in MetaHeaders
      /\ IsMeta(g) <=> k \in MetaHeaders
  BY <1>1, <1>2, Layout
<1>4. p \in Nat /\ q \in Nat
  BY <1>1, <1>2, PresentLies DEF Lies
<1>5. CASE h = k
  <2>1. o + w <= oo \/ oo + ww <= o
    BY <1>1, <1>2, <1>5, LayoutApart
  <2>2. p = q
    BY <1>1, <1>2, <1>5
  <2>3. \A i \in 8 * p + o .. 8 * p + o + w - 1 : i \notin 8 * p + oo .. 8 * p + oo + ww - 1
    BY <1>3, <1>4, <2>1
  <2> QED BY <1>1, <1>2, <2>2, <2>3 DEF BitsOf
<1>6. CASE h # k
  <2>1. ~IsMeta(f) /\ ~IsMeta(g)
    BY <1>1, <1>2, <1>3, <1>6 DEF Region
  <2>2. h \in DOMAIN pointer \ MetaHeaders /\ k \in DOMAIN pointer \ MetaHeaders
    BY <1>1, <1>2, <1>3, <2>1 DEF Present
  <2>3. p + program.length[h] <= q \/ q + program.length[k] <= p
    BY <1>1, <1>2, <1>6, <2>2 DEF MemoryInv, PointersLie, Ends
  <2>4. PICK m, n \in Nat : m = program.length[h] /\ n = program.length[k]
    BY <1>3
  <2>5. \A i \in 8 * p + o .. 8 * p + o + w - 1 : i \notin 8 * q + oo .. 8 * q + oo + ww - 1
    BY <1>3, <1>4, <2>3, <2>4
  <2> QED BY <1>1, <1>2, <2>5 DEF BitsOf
<1> QED BY <1>5, <1>6

-----------------------------------------------------------------------------
(* What the bytes of a field say, and what a write to them changes.        *)

Base(f) == pointer[Field[f].hdr]
Order(f) == IF IsMeta(f) /\ Short(f) THEN "host" ELSE "net"
Said(mem, f) ==
  IF IsMeta(f) /\ Short(f) THEN EXTRACT_INT32_BITS(mem, Desc(f)) ELSE P4Value(mem, Field[f], Base(f))
Bytes(f) == Said(Mem(f), f)
Readable(f) == IsMeta(f) /\ Short(f) => InWord(Field[f])

\* What is said of a field is the field, read in the order it is kept in.
LEMMA SaidIsRead ==
  ASSUME NEW f \in DOMAIN Field, Readable(f), NEW mem, Lies(Field[f], Base(f), mem)
  PROVE  Said(mem, f) = ReadAs(mem, Field[f], Base(f), Order(f))
<1>1. CASE IsMeta(f) /\ Short(f)
  <2>1. InWord(Field[f])
    BY <1>1 DEF Readable
  <2>2. EXTRACT_INT32_BITS(mem, Desc(f)) = ReadAs(mem, Field[f], Base(f), "host")
    BY <2>1, HostRead DEF Desc, Base
  <2> QED BY <1>1, <2>2 DEF Said, Order
<1>2. CASE ~(IsMeta(f) /\ Short(f))
  BY <1>2, NetIsP4Value DEF Said, Order
<1> QED BY <1>1, <1>2

\* The same of what its bytes say now.
LEMMA BytesAreRead ==
  ASSUME ProgramInv, MemoryInv, NEW f \in DOMAIN Field, Present(f), Readable(f)
  PROVE  Bytes(f) = ReadAs(Mem(f), Field[f], Base(f), Order(f))
BY PresentLies, SaidIsRead DEF Bytes, Base

\* Metadata of at most 32 bits that lies in five bytes is never given a value.
LEMMA NotReadable ==
  ASSUME ProgramInv, NEW f \in DOMAIN Field, ~Readable(f), NEW mem
  PROVE  Said(mem, f) = {}
<1>1. IsMeta(f) /\ Short(f) /\ ~InWord(Field[f])
  BY DEF Readable
<1>2. PICK o, w : o = Field[f].offset % 8 /\ w = Field[f].width
  OBVIOUS
<1>3. o \in Nat /\ w \in Nat /\ o <= 7 /\ w <= 32 /\ o + w > 32
  <2>1. Field[f].offset \in Nat /\ Field[f].width \in Nat
    BY Layout
  <2> QED BY <1>1, <1>2, <2>1 DEF InWord, Short
<1>4. PICK fd : fd = Desc(f)
  OBVIOUS
<1>5. fd.mask = {} /\ fd.bytecount = (w + 7 + o) \div 8 /\ fd.bitoffset = o /\ fd.bitwidth = w
  BY <1>2, <1>3, <1>4 DEF Desc, field_desc, field_mask
<1>6. fd.bytecount # 1
  BY <1>3, <1>5
<1>7. \A n : ShiftRight({}, n) = {}
  BY DEF ShiftRight
<1>8. \A W : /\ W \intersect BITS_MASK1(fd) = {}
             /\ W \intersect BITS_MASK2(fd) = {}
             /\ W \intersect BITS_MASK3(fd) = {}
  BY <1>5 DEF BITS_MASK1, BITS_MASK2, BITS_MASK3
<1>9. EXTRACT_INT32_BITS(mem, fd) = {}
  BY <1>6, <1>7, <1>8 DEF EXTRACT_INT32_BITS
<1> QED BY <1>1, <1>4, <1>9 DEF Said

\* A step that writes the bytes of one field.
WroteField(g, order, v) ==
  \E new : /\ memory' = [memory EXCEPT ![Region(g)] = new]
           /\ Wrote(new, Mem(g), Field[g], Base(g), order, v)

\* A step that writes one field leaves the values of all others.
LEMMA WriteStep ==
  ASSUME ProgramInv, MemoryInv, program' = program, pointer' = pointer,
         NEW g \in DOMAIN Field, Present(g), NEW order, NEW v, WroteField(g, order, v)
  PROVE  /\ \A f \in DOMAIN Field : Present(f) /\ f # g => Bytes(f)' = Bytes(f)
         /\ order = Order(g) /\ Readable(g) => Bytes(g)' = Truncate(v, Field[g].width)
         /\ \E new : new \in [DOMAIN memory[Region(g)] -> Byte] /\ memory' = [memory EXCEPT ![Region(g)] = new]
<1>1. PICK new : /\ memory' = [memory EXCEPT ![Region(g)] = new]
                 /\ Wrote(new, Mem(g), Field[g], Base(g), order, v)
  BY DEF WroteField
<1>2. Region(g) \in DOMAIN memory
  BY PresentLies
<1>3. /\ \A f : Region(f)' = Region(f) /\ Base(f)' = Base(f) /\ Order(f)' = Order(f) /\ Desc(f)' = Desc(f)
      /\ \A f : Field'[f] = Field[f] /\ (Readable(f)' <=> Readable(f)) /\ (Present(f)' <=> Present(f))
      /\ Field' = Field /\ ProgramInv'
  BY DEF Region, Base, Order, Desc, Readable, Present, IsMeta, Short, Field, ProgramInv
<1>4. Mem(g)' = new
  BY <1>1, <1>2, <1>3 DEF Mem
<1>5. ASSUME NEW f \in DOMAIN Field, Present(f), f # g PROVE Bytes(f)' = Bytes(f)
  <2>0. Bytes(f)' = Said(Mem(f)', f)
    BY <1>3 DEF Bytes, Said, IsMeta, Short
  <2>1. CASE Region(f) # Region(g)
    <3>1. Mem(f)' = Mem(f)
      BY <1>1, <1>3, <2>1 DEF Mem
    <3> QED BY <2>0, <3>1 DEF Bytes
  <2>2. CASE ~Readable(f)
    BY <1>5, <2>0, <2>2, NotReadable DEF Bytes
  <2>3. CASE Region(f) = Region(g) /\ Readable(f)
    <3>1. Mem(f) = Mem(g) /\ Mem(f)' = new
      BY <1>1, <1>2, <1>3, <2>3 DEF Mem
    <3>2. Lies(Field[f], Base(f), Mem(f))
      BY <1>5, PresentLies DEF Base
    <3>3. SameBut(new, Mem(f), BitsOf(Field[g], Base(g)))
      BY <1>1, <3>1 DEF Wrote
    <3>4. BitsOf(Field[f], Base(f)) \intersect BitsOf(Field[g], Base(g)) = {}
      BY <1>5, <2>3, FieldsApart DEF Base
    <3>5. Order(f) = "host" => InWord(Field[f])
      BY <2>3 DEF Order, Readable
    <3>6. ReadAs(new, Field[f], Base(f), Order(f)) = ReadAs(Mem(f), Field[f], Base(f), Order(f))
      BY <3>2, <3>3, <3>4, <3>5, ReadOther
    <3>7. Lies(Field[f], Base(f), new)
      BY <3>2, <3>3 DEF Lies, SameBut
    <3> QED BY <2>0, <2>3, <3>1, <3>2, <3>6, <3>7, SaidIsRead DEF Bytes
  <2> QED BY <2>1, <2>2, <2>3
<1>6. ASSUME order = Order(g), Readable(g) PROVE Bytes(g)' = Truncate(v, Field[g].width)
  <2>1. ReadAs(new, Field[g], Base(g), Order(g)) = Truncate(v, Field[g].width)
    BY <1>1, <1>6 DEF Wrote
  <2>2. Lies(Field[g], Base(g), new)
    <3>1. Lies(Field[g], Base(g), Mem(g)) /\ SameBut(new, Mem(g), BitsOf(Field[g], Base(g)))
      BY <1>1, PresentLies DEF Base, Wrote
    <3> QED BY <3>1 DEF Lies, SameBut
  <2>3. Bytes(g)' = Said(new, g)
    BY <1>3, <1>4 DEF Bytes, Said, IsMeta, Short
  <2> QED BY <1>6, <2>1, <2>2, <2>3, SaidIsRead
<1>7. new \in [DOMAIN memory[Region(g)] -> Byte]
  BY <1>1 DEF Wrote, SameBut, Mem
<1> QED BY <1>1, <1>5, <1>6, <1>7

-----------------------------------------------------------------------------
(* What the calls of an action name.                                       *)

\* A call is one of an action of the program, with the parameters of that
\* action.
LEMMA CallFacts ==
  ASSUME ProgramInv, PlaceInv, ctl.at = "calls"
  PROVE  /\ CallIsSound(program, Call)
         /\ \E a \in DOMAIN program.action :
              Call \in ToSet(program.action[a]) /\ ParamsAreSound(program, a, ctl.params)
<1>1. PICK a \in DOMAIN program.action :
        ParamsAreSound(program, a, ctl.params) /\ ctl.todo \in Seq(ToSet(program.action[a])) /\ ctl.todo # <<>>
  BY DEF PlaceInv
<1>2. PICK S : S = ToSet(program.action[a])
  OBVIOUS
<1>3. Call \in S
  BY <1>1, <1>2, HeadTailProperties DEF Call
<1>4. \A c \in S : CallIsSound(program, c)
  BY <1>2, SoundProgram DEF ProgramIsSound
<1> QED BY <1>1, <1>2, <1>3, <1>4

\* The fields that are copied are those of headers that are used as integers.
LEMMA ParsedFacts ==
  ASSUME ProgramInv
  PROVE  /\ \A f \in Parsed : /\ f \in DOMAIN Field /\ ~IsMeta(f) /\ Short(f) /\ InWord(Field[f])
                              /\ Order(f) = "net"
         /\ \A a \in DOMAIN program.action : \A c \in ToSet(program.action[a]) :
              /\ c.op \in {"const", "param", "add"} /\ c.dst \in DOMAIN Field /\ ~IsMeta(c.dst) /\ Short(c.dst) =>
                   c.dst \in Parsed
              /\ c.op = "field" => \A f \in {c.src, c.dst} : f \in DOMAIN Field /\ ~IsMeta(f) /\ Short(f) => f \in Parsed
<1>1. PICK name \in DOMAIN Program : program = Compiled(name)
  BY DEF ProgramInv
<1>2. program.field = Program[name].field /\ program.action = Program[name].action
      /\ program.parsed = ParsedOf(Program[name])
  BY <1>1 DEF Compiled
<1>3. PICK Calls : Calls = UNION {ToSet(program.action[a]) : a \in DOMAIN program.action}
  OBVIOUS
<1>4. \A f : f \in Parsed <=>
        /\ f \in DOMAIN Field /\ ~IsMeta(f) /\ Short(f)
        /\ \E c \in Calls : \/ c.op \in {"const", "param", "add"} /\ f = c.dst
                            \/ c.op = "field" /\ f \in {c.dst, c.src}
  BY <1>2, <1>3 DEF Parsed, ParsedOf, Field, IsMeta, Short
<1>5. \A c \in Calls : CallIsSound(program, c)
  BY <1>3, SoundProgram DEF ProgramIsSound
<1>6. ASSUME NEW f \in Parsed PROVE InWord(Field[f])
  <2>1. PICK c \in Calls : \/ c.op \in {"const", "param", "add"} /\ f = c.dst
                           \/ c.op = "field" /\ f \in {c.dst, c.src}
    BY <1>4
  <2>2. IsNamed(Field[f])
    BY <1>5, <2>1 DEF CallIsSound, Field
  <2>3. Field[f].width \in Nat /\ Field[f].width <= 32
    BY <1>4, Layout DEF Short
  <2> QED BY <2>2, <2>3 DEF IsNamed
<1>7. \A a \in DOMAIN program.action : \A c \in ToSet(program.action[a]) : c \in Calls
  BY <1>3
<1> QED BY <1>4, <1>6, <1>7 DEF Order

\* The fields of a call are of the program, and a short one is in a word.
LEMMA CallNames ==
  ASSUME ProgramInv, PlaceInv, ctl.at = "calls"
  PROVE  /\ Call.op \in {"const", "add"} =>
              Call.dst \in DOMAIN Field /\ InWord(Field[Call.dst]) /\ Call.value \subseteq Bit
         /\ Call.op \in {"const", "add", "param"} =>
              /\ Call.dst \in DOMAIN Field /\ IsNamed(Field[Call.dst])
              /\ ~IsMeta(Call.dst) /\ Short(Call.dst) => Call.dst \in Parsed
         /\ Call.op = "field" =>
              \A f \in {Call.src, Call.dst} :
                /\ f \in DOMAIN Field /\ IsNamed(Field[f])
                /\ ~IsMeta(f) /\ Short(f) => f \in Parsed
<1>1. CallIsSound(program, Call)
  BY CallFacts
<1>2. PICK a \in DOMAIN program.action : Call \in ToSet(program.action[a])
  BY CallFacts
<1>3. Call.op \in {"const", "add"} =>
        Call.dst \in DOMAIN Field /\ IsNamed(Field[Call.dst]) /\ Field[Call.dst].width <= 32 /\ Call.value \subseteq Bit
  BY <1>1 DEF CallIsSound, Field
<1>4. Call.op = "param" => Call.dst \in DOMAIN Field /\ IsNamed(Field[Call.dst])
  BY <1>1 DEF CallIsSound, Field
<1>5. Call.op = "field" => \A f \in {Call.src, Call.dst} : f \in DOMAIN Field /\ IsNamed(Field[f])
  BY <1>1 DEF CallIsSound, Field
<1>6. \A f \in DOMAIN Field : IsNamed(Field[f]) /\ Field[f].width <= 32 => InWord(Field[f])
  <2>1. \A f \in DOMAIN Field : Field[f].width \in Nat
    BY Layout
  <2> QED BY <2>1 DEF IsNamed
<1> QED BY <1>2, <1>3, <1>4, <1>5, <1>6, ParsedFacts

\* A field in a word, read and written as an integer.
LEMMA ReadWord ==
  ASSUME ProgramInv, MemoryInv, NEW f \in DOMAIN Field, Present(f), InWord(Field[f])
  PROVE  /\ EXTRACT_INT32_AUTO(Mem(f), Desc(f)) = Bytes(f)
         /\ GET_INT32_AUTO(Mem(f), Desc(f)) = Bytes(f)
         /\ Short(f) /\ Readable(f) /\ \A i \in Bytes(f) : i \in Bit
<1>1. Lies(Field[f], Base(f), Mem(f)) /\ Desc(f) = field_desc(Field[f], Base(f))
  BY PresentLies DEF Base, Desc
<1>2. Short(f) /\ Readable(f)
  BY DEF Short, Readable, InWord
<1>3. Bytes(f) = ReadAs(Mem(f), Field[f], Base(f), Order(f))
  BY <1>2, BytesAreRead
<1>4. Desc(f).meta = IsMeta(f)
  BY <1>1 DEF field_desc, IsMeta
<1>5. ASSUME IsMeta(f)
      PROVE  EXTRACT_INT32_AUTO(Mem(f), Desc(f)) = Bytes(f) /\ GET_INT32_AUTO(Mem(f), Desc(f)) = Bytes(f)
  BY <1>2, <1>4, <1>5 DEF EXTRACT_INT32_AUTO, GET_INT32_AUTO, Bytes, Said
<1>6. ASSUME ~IsMeta(f)
      PROVE  EXTRACT_INT32_AUTO(Mem(f), Desc(f)) = Bytes(f) /\ GET_INT32_AUTO(Mem(f), Desc(f)) = Bytes(f)
  <2>1. /\ EXTRACT_INT32_NTOH(Mem(f), Desc(f)) = ReadAs(Mem(f), Field[f], Base(f), "net")
        /\ ~Desc(f).meta => GET_INT32_AUTO(Mem(f), Desc(f)) = ReadAs(Mem(f), Field[f], Base(f), "net")
    BY <1>1, NetRead
  <2>2. Order(f) = "net" /\ ~Desc(f).meta
    BY <1>4, <1>6 DEF Order
  <2>3. EXTRACT_INT32_AUTO(Mem(f), Desc(f)) = EXTRACT_INT32_NTOH(Mem(f), Desc(f))
    BY <2>2 DEF EXTRACT_INT32_AUTO
  <2> QED BY <1>3, <2>1, <2>2, <2>3
<1>7. \A i \in Bytes(f) : i \in Bit
  <2>1. Field[f].width \in Nat /\ Field[f].width <= 32
    BY Layout DEF InWord
  <2>2. \A i \in Bytes(f) : i \in 0 .. Field[f].width - 1
    BY <1>3 DEF ReadAs
  <2> QED BY <2>1, <2>2 DEF Bit
<1> QED BY <1>2, <1>5, <1>6, <1>7

\* MODIFY_INT32_INT32_AUTO writes a field in the order it is kept in.
LEMMA WriteWord ==
  ASSUME ProgramInv, MemoryInv, NEW f \in DOMAIN Field, Present(f), InWord(Field[f]),
         NEW v, \A i \in v : i \in Nat, SetMem(f, MODIFY_INT32_INT32_AUTO(Mem(f), Desc(f), v))
  PROVE  WroteField(f, Order(f), v)
<1>1. Lies(Field[f], Base(f), Mem(f)) /\ Desc(f) = field_desc(Field[f], Base(f))
  BY PresentLies DEF Base, Desc
<1>2. Short(f) /\ Desc(f).meta = IsMeta(f)
  BY <1>1 DEF Short, InWord, field_desc, IsMeta
<1>3. PICK new : new = MODIFY_INT32_INT32_AUTO(Mem(f), Desc(f), v)
  OBVIOUS
<1>4. CASE IsMeta(f)
  <2>1. Wrote(new, Mem(f), Field[f], Base(f), "host", v)
    BY <1>1, <1>2, <1>3, <1>4, HostWrite DEF MODIFY_INT32_INT32_AUTO
  <2> QED BY <1>2, <1>3, <1>4, <2>1 DEF Order, SetMem, WroteField
<1>5. CASE ~IsMeta(f)
  <2>1. Wrote(new, Mem(f), Field[f], Base(f), "net", v)
    BY <1>1, <1>2, <1>3, <1>5, NetWrite DEF MODIFY_INT32_INT32_AUTO
  <2> QED BY <1>2, <1>3, <1>5, <2>1 DEF Order, SetMem, WroteField
<1> QED BY <1>4, <1>5

-----------------------------------------------------------------------------
(* The memory.                                                             *)

\* Before the first packet the memory is that of the metadata.
LEMMA MemoryInit == Init /\ ProgramInv => MemoryInv
<1> SUFFICES ASSUME Init, ProgramInv PROVE MemoryInv
  OBVIOUS
<1>1. MetaHeaders \subseteq Headers /\ "packet" \notin MetaHeaders
  BY HeaderLengths
<1>2. /\ DOMAIN memory = MetaHeaders \union {"packet"} /\ \A h \in MetaHeaders : memory[h] = Zeros(h)
      /\ memory["packet"] = [i \in {} |-> {}]
      /\ pointer = [h \in MetaHeaders |-> 0] /\ ctl.at = "idle"
  BY <1>1, Literals DEF Init
<1>3. \A h \in MetaHeaders : Zeros(h) \in [0 .. program.length[h] - 1 -> Byte]
  BY DEF Zeros, Byte
<1>4. memory["packet"] \in [0 .. 0 - 1 -> Byte]
  BY <1>2
<1>5. PointersLie(0)
  BY <1>2 DEF PointersLie
<1> QED BY <1>1, <1>2, <1>3, <1>4, <1>5 DEF MemoryInv, Parsing

\* A step after the parser that writes into one region at most.
LEMMA MemoryStep ==
  ASSUME ProgramInv, MemoryInv, program' = program, pointer' = pointer, ctl'.at \notin {"idle", "parse", "select"},
         \/ memory' = memory
         \/ \E r \in DOMAIN memory :
              \E new : new \in [DOMAIN memory[r] -> Byte] /\ memory' = [memory EXCEPT ![r] = new]
  PROVE  MemoryInv'
<1>1. MetaHeaders' = MetaHeaders /\ Headers' = Headers /\ ~Parsing'
  BY DEF MetaHeaders, Headers, Parsing, IsMeta, Field
<1>2. /\ DOMAIN memory' = DOMAIN memory
      /\ \A r \in DOMAIN memory : DOMAIN memory'[r] = DOMAIN memory[r] /\ (memory'[r] = memory[r] \/ memory'[r] \in [DOMAIN memory[r] -> Byte])
  OBVIOUS
<1>3. \A r \in DOMAIN memory : \A S : memory[r] \in [S -> Byte] => memory'[r] \in [S -> Byte]
  BY <1>2
<1>4. PICK size \in Nat : memory["packet"] \in [0 .. size - 1 -> Byte] /\ PointersLie(size)
  BY DEF MemoryInv
<1>5. memory'["packet"] \in [0 .. size - 1 -> Byte]
  BY <1>3, <1>4 DEF MemoryInv
<1>6. PointersLie(size)'
  BY <1>1, <1>4 DEF PointersLie, Ends
<1>7. \A h \in MetaHeaders : memory'[h] \in [0 .. program.length[h] - 1 -> Byte]
  BY <1>3 DEF MemoryInv
<1> QED BY <1>1, <1>2, <1>5, <1>6, <1>7 DEF MemoryInv

\* A packet and the port it came in at are all that is in memory at first.
LEMMA ReceiveMemory ==
  ASSUME ProgramInv, PlaceInv, MemoryInv, NEW packet \in Packet[program.name], NEW port \in Port,
         packet_received(packet, port)
  PROVE  /\ MemoryInv' /\ ctl'.at = "parse"
         /\ IngressPort \in DOMAIN Field /\ IsMeta(IngressPort) /\ Readable(IngressPort)
         /\ Field[IngressPort].hdr = Metadata /\ Order(IngressPort) = "host"
         /\ Truncate(port, Field[IngressPort].width) = port
         /\ memory[Metadata] = Zeros(Metadata)
         /\ Wrote(memory'[Metadata], memory[Metadata], Field[IngressPort], Base(IngressPort), "host", port)
         /\ \A h \in MetaHeaders : h # Metadata => memory'[h] = Zeros(h)
<1>1. /\ program \in {Compiled(name) : name \in DOMAIN Program} /\ program.name \in DOMAIN Program
      /\ program = Compiled(program.name)
  BY DEF ProgramInv, Compiled
<1>2. /\ \E size \in Nat : packet \in [0 .. size - 1 -> Byte] /\ LongEnough(program, size)
      /\ port \subseteq 0 .. Field[IngressPort].width - 1
  BY <1>1, PipelineAssumption DEF Field
<1>3. /\ IngressPort \in DOMAIN Field /\ Field[IngressPort].hdr = Metadata /\ Field[IngressPort].meta
      /\ InWord(Field[IngressPort])
  BY SoundProgram DEF ProgramIsSound, LayoutIsSound, Field
<1>4. IsMeta(IngressPort) /\ Readable(IngressPort) /\ Order(IngressPort) = "host" /\ Metadata \in MetaHeaders
  BY <1>3 DEF IsMeta, Readable, Order, Short, InWord, MetaHeaders
<1>5. /\ ctl.at = "idle" /\ program' = program /\ pointer' = pointer /\ ctl' = At("parse", program.start)
      /\ memory' = [memory EXCEPT
            !["packet"] = packet,
            ![Metadata] = MODIFY_INT32_INT32_BITS(@, Desc(IngressPort), port)]
  BY DEF packet_received
<1>6. /\ \A h \in MetaHeaders : memory[h] = Zeros(h) /\ h # "packet"
      /\ DOMAIN pointer = MetaHeaders /\ DOMAIN memory = MetaHeaders \union {"packet"}
  BY <1>5, HeaderLengths DEF MemoryInv
<1>7. Lies(Field[IngressPort], Base(IngressPort), memory[Metadata])
  <2>1. Present(IngressPort) /\ Mem(IngressPort) = memory[Metadata]
    BY <1>3, <1>4, <1>6 DEF Present, Mem, Region
  <2> QED BY <1>3, <2>1, PresentLies DEF Base
<1>8. PICK new : new = MODIFY_INT32_INT32_BITS(memory[Metadata], Desc(IngressPort), port)
  OBVIOUS
<1>9. Wrote(new, memory[Metadata], Field[IngressPort], Base(IngressPort), "host", port)
  <2>1. \A i \in port : i \in Nat
    BY <1>2
  <2>2. Desc(IngressPort) = field_desc(Field[IngressPort], Base(IngressPort))
    BY DEF Desc, Base
  <2> QED BY <1>3, <1>7, <1>8, <2>1, <2>2, HostWrite
<1>10. memory' = [memory EXCEPT !["packet"] = packet, ![Metadata] = new]
  BY <1>4, <1>5, <1>6, <1>8
<1>11. /\ memory'[Metadata] = new /\ memory'["packet"] = packet /\ DOMAIN memory' = DOMAIN memory
       /\ \A h \in MetaHeaders : h # Metadata => memory'[h] = Zeros(h)
  BY <1>4, <1>6, <1>10
<1>12. MemoryInv'
  <2>1. MetaHeaders' = MetaHeaders /\ Headers' = Headers /\ program' = program
    BY <1>5 DEF MetaHeaders, Headers, IsMeta, Field
  <2>2. \A h \in MetaHeaders : memory'[h] \in [0 .. program.length[h] - 1 -> Byte]
    <3>1. new \in [DOMAIN memory[Metadata] -> Byte]
      BY <1>9 DEF Wrote, SameBut
    <3>2. memory[Metadata] \in [0 .. program.length[Metadata] - 1 -> Byte]
      BY <1>4 DEF MemoryInv
    <3>3. memory'[Metadata] \in [0 .. program.length[Metadata] - 1 -> Byte]
      BY <1>11, <3>1, <3>2
    <3>4. \A h \in MetaHeaders : memory[h] \in [0 .. program.length[h] - 1 -> Byte]
      BY DEF MemoryInv
    <3>5. \A h \in MetaHeaders : h # Metadata => memory'[h] = memory[h]
      BY <1>6, <1>11
    <3> QED BY <3>3, <3>4, <3>5
  <2>3. PICK size \in Nat : packet \in [0 .. size - 1 -> Byte] /\ LongEnough(program, size)
    BY <1>2
  <2>4. PICK upto \in [DOMAIN program.parse -> 0 .. size] :
          /\ program.length[program.parse[program.start].extract] <= upto[program.start]
          /\ Way(upto, size)
    BY <2>3 DEF LongEnough, Way
  <2>5. /\ ctl'.at = "parse" /\ ctl'.name = program.start /\ ctl'.buf = 0
    BY <1>5, Literals
  <2>6. 0 + program.length[program.parse[program.start].extract] = program.length[program.parse[program.start].extract]
    <3>1. \E f \in DOMAIN Field : Field[f].hdr = program.parse[program.start].extract
      BY SoundProgram DEF ProgramIsSound, ParserIsSound, Field
    <3> QED BY <3>1, Layout
  <2>7. Way(upto, size)' /\ RoomLeft(upto)'
    BY <1>5, <2>4, <2>5, <2>6 DEF Way, RoomLeft, ToParse
  <2>8. PointersLie(size)'
    BY <1>5, <1>6, <2>1 DEF PointersLie
  <2>9. MetaHeaders \subseteq DOMAIN pointer' /\ DOMAIN pointer' \subseteq Headers /\ \A h \in MetaHeaders : pointer'[h] = 0
    BY <1>5 DEF MemoryInv
  <2> QED BY <1>5, <1>6, <1>11, <2>1, <2>2, <2>3, <2>5, <2>7, <2>8, <2>9 DEF MemoryInv
<1>13. Truncate(port, Field[IngressPort].width) = port
  BY <1>2 DEF Truncate
<1> QED BY <1>3, <1>4, <1>5, <1>6, <1>9, <1>11, <1>12, <1>13, Literals

\* The header a parse state extracts is of the packet, and there is room for it.
LEMMA ExtractFacts ==
  ASSUME ProgramInv, PlaceInv, ctl.at = "parse"
  PROVE  /\ ToParse.extract \in Headers \ MetaHeaders /\ program.length[ToParse.extract] \in Nat
         /\ ctl.name \in DOMAIN program.parse /\ ctl.buf \in Nat
<1>1. ctl.name \in DOMAIN program.parse /\ ctl.buf \in Nat
  BY DEF PlaceInv, Parsing
<1>2. \E f \in DOMAIN Field : Field[f].hdr = ToParse.extract /\ ~IsMeta(f)
  BY <1>1, SoundProgram DEF ProgramIsSound, ParserIsSound, Field, ToParse, IsMeta
<1> QED BY <1>1, <1>2, Layout

\* A header is extracted after the ones before it and inside the packet.
LEMMA ExtractMemory ==
  ASSUME ProgramInv, PlaceInv, MemoryInv, extract_header
  PROVE  MemoryInv'
<1>1. PICK h, len, b : h = ToParse.extract /\ len = program.length[h] /\ b = ctl.buf
  OBVIOUS
<1>2. /\ ctl.at = "parse" /\ program' = program /\ memory' = memory
      /\ pointer' = Override(pointer, [x \in {h} |-> b])
      /\ ctl' = [ctl EXCEPT !.at = "select", !.buf = b + len]
  BY <1>1 DEF extract_header
<1>3. h \in Headers \ MetaHeaders /\ len \in Nat /\ b \in Nat /\ ctl.name \in DOMAIN program.parse
  BY <1>1, <1>2, ExtractFacts
<1>4. ctl'.at = "select" /\ ctl'.buf = b + len /\ ctl'.name = ctl.name
  BY <1>2 DEF PlaceInv
<1>5. /\ DOMAIN pointer' = DOMAIN pointer \union {h} /\ pointer'[h] = b
      /\ \A k \in DOMAIN pointer : k # h => pointer'[k] = pointer[k]
  BY <1>2 DEF Override
<1>6. MetaHeaders' = MetaHeaders /\ Headers' = Headers /\ Parsing /\ Parsing'
  BY <1>2, <1>4 DEF MetaHeaders, Headers, IsMeta, Field, Parsing
<1>7. PICK size \in Nat :
        /\ memory["packet"] \in [0 .. size - 1 -> Byte] /\ PointersLie(size)
        /\ \E upto : Way(upto, size) /\ RoomLeft(upto)
  BY <1>6 DEF MemoryInv
<1>8. PICK upto : Way(upto, size) /\ RoomLeft(upto)
  BY <1>7
<1>9. b + len <= upto[ctl.name] /\ upto[ctl.name] \in 0 .. size
  BY <1>1, <1>2, <1>3, <1>8 DEF Way, RoomLeft
<1>10. Way(upto, size)' /\ RoomLeft(upto)'
  BY <1>2, <1>4, <1>8, <1>9 DEF Way, RoomLeft
<1>11. PointersLie(size)'
  <2>1. \A k \in DOMAIN pointer \ MetaHeaders :
          /\ pointer[k] \in Nat /\ pointer[k] + program.length[k] <= size /\ pointer[k] + program.length[k] <= b
          /\ \A n \in DOMAIN pointer \ MetaHeaders :
               k # n => pointer[k] + program.length[k] <= pointer[n] \/ pointer[n] + program.length[n] <= pointer[k]
    BY <1>1, <1>6, <1>7 DEF PointersLie, Ends
  <2>2. ASSUME NEW k \in DOMAIN pointer' \ MetaHeaders
        PROVE  /\ pointer'[k] \in Nat /\ pointer'[k] + program.length[k] <= size
               /\ pointer'[k] + program.length[k] <= b + len
               /\ \A n \in DOMAIN pointer' \ MetaHeaders :
                    k # n => pointer'[k] + program.length[k] <= pointer'[n] \/ pointer'[n] + program.length[n] <= pointer'[k]
    <3>1. CASE k = h
      BY <1>1, <1>3, <1>5, <1>9, <2>1, <3>1
    <3>2. CASE k # h
      <4>1. k \in DOMAIN pointer \ MetaHeaders /\ pointer'[k] = pointer[k] /\ program.length[k] \in Nat
        BY <1>5, <2>2, <3>2, HeaderLengths DEF MemoryInv
      <4>2. pointer[k] \in Nat /\ pointer[k] + program.length[k] <= b
        BY <2>1, <4>1
      <4>3. pointer[k] + program.length[k] <= b + len
        BY <1>3, <4>1, <4>2
      <4> QED BY <1>5, <2>1, <4>1, <4>2, <4>3
    <3> QED BY <3>1, <3>2
  <2> QED BY <1>2, <1>4, <1>6, <2>2 DEF PointersLie, Ends
<1> QED BY <1>2, <1>3, <1>4, <1>5, <1>6, <1>7, <1>10, <1>11 DEF MemoryInv

\* After a parse state there is room for the header the next one extracts.
LEMMA ParseMemory ==
  ASSUME ProgramInv, PlaceInv, MemoryInv, parse_state
  PROVE  MemoryInv'
<1>1. program' = program /\ memory' = memory /\ pointer' = pointer /\ ctl.at = "select"
  BY DEF parse_state
<1>2. /\ ctl'.at \in {"parse", "node", "update"}
      /\ ctl'.at = "parse" =>
           /\ ctl'.buf = ctl.buf
           /\ \E n \in DOMAIN ToParse.cases :
                ToParse.cases[n].to = "parse" /\ ToParse.cases[n].name = ctl'.name
  BY ParseStep
<1>3. CASE ctl'.at # "parse"
  BY <1>1, <1>2, <1>3, MemoryStep
<1>4. CASE ctl'.at = "parse"
  <2>1. MetaHeaders' = MetaHeaders /\ Headers' = Headers /\ Parsing /\ Parsing' /\ ctl'.buf = ctl.buf
    BY <1>1, <1>2, <1>4 DEF MetaHeaders, Headers, IsMeta, Field, Parsing
  <2>2. PICK size \in Nat :
          /\ memory["packet"] \in [0 .. size - 1 -> Byte] /\ PointersLie(size)
          /\ \E upto : Way(upto, size) /\ RoomLeft(upto)
    BY <2>1 DEF MemoryInv
  <2>3. PICK upto : Way(upto, size) /\ RoomLeft(upto)
    BY <2>2
  <2>4. PointersLie(size)'
    BY <1>1, <2>1, <2>2 DEF PointersLie, Ends
  <2>5. ctl.buf <= upto[ctl.name] /\ ctl.name \in DOMAIN program.parse /\ ctl.buf \in Nat
    BY <1>1, <2>1, <2>3 DEF RoomLeft, PlaceInv
  <2>6. PICK len : len = program.length[program.parse[ctl'.name].extract]
    OBVIOUS
  <2>7. upto[ctl.name] + len <= upto[ctl'.name]
    BY <1>2, <1>4, <2>3, <2>5, <2>6 DEF Way, ToParse
  <2>8. upto[ctl.name] \in 0 .. size /\ upto[ctl'.name] \in 0 .. size /\ len \in Nat
    <3>1. PlaceInv'
      BY ParseStep
    <3>2. ctl'.name \in DOMAIN program.parse
      BY <1>1, <2>1, <3>1 DEF PlaceInv
    <3>3. \E f \in DOMAIN Field : Field[f].hdr = program.parse[ctl'.name].extract
      BY <3>2, SoundProgram DEF ProgramIsSound, ParserIsSound, Field
    <3> QED BY <2>3, <2>5, <2>6, <3>2, <3>3, Layout DEF Way
  <2>9. ctl.buf + len <= upto[ctl'.name]
    BY <2>5, <2>7, <2>8
  <2>10. Way(upto, size)' /\ RoomLeft(upto)'
    BY <1>1, <1>4, <2>1, <2>3, <2>6, <2>9 DEF Way, RoomLeft, ToParse
  <2> QED BY <1>1, <1>4, <2>1, <2>2, <2>4, <2>10 DEF MemoryInv
<1> QED BY <1>3, <1>4

\* Once the packet is sent, the memory is that of the metadata again.
LEMMA SendMemory ==
  ASSUME ProgramInv, MemoryInv, send_packet
  PROVE  MemoryInv'
<1>1. /\ program' = program /\ ctl'.at = "idle" /\ pointer' = Restrict(pointer, MetaHeaders)
      /\ memory' = [r \in DOMAIN memory |-> IF r = "packet" THEN [i \in {} |-> {}] ELSE Zeros(r)]
  BY Literals DEF send_packet, reset_headers
<1>2. MetaHeaders' = MetaHeaders /\ Headers' = Headers /\ ~Parsing' /\ \A h : Zeros(h)' = Zeros(h)
  BY <1>1 DEF MetaHeaders, Headers, IsMeta, Field, Parsing, Zeros
<1>3. /\ DOMAIN memory = MetaHeaders \union {"packet"} /\ "packet" \notin MetaHeaders
      /\ MetaHeaders \subseteq Headers /\ \A h \in MetaHeaders : pointer[h] = 0
  BY HeaderLengths DEF MemoryInv
<1>4. /\ DOMAIN memory' = MetaHeaders \union {"packet"} /\ \A h \in MetaHeaders : memory'[h] = Zeros(h)
      /\ memory'["packet"] = [i \in {} |-> {}]
  BY <1>1, <1>3
<1>5. DOMAIN pointer' = MetaHeaders /\ \A h \in MetaHeaders : pointer'[h] = 0
  BY <1>1, <1>3 DEF Restrict
<1>6. \A h \in MetaHeaders : Zeros(h) \in [0 .. program.length[h] - 1 -> Byte]
  BY DEF Zeros, Byte
<1>7. memory'["packet"] \in [0 .. 0 - 1 -> Byte]
  BY <1>4
<1>8. PointersLie(0)'
  BY <1>2, <1>5 DEF PointersLie
<1> QED BY <1>1, <1>2, <1>3, <1>4, <1>5, <1>6, <1>7, <1>8 DEF MemoryInv

-----------------------------------------------------------------------------
(* Folds over a finite set.                                                *)

\* A set that has 0, and with a number the next one, has every number.
LEMMA AllNumbers ==
  ASSUME NEW S, 0 \in S, \A n \in Nat : n \in S => n + 1 \in S
  PROVE  Nat \subseteq S
<1> DEFINE T == Nat \ S
<1>1. SUFFICES ASSUME T # {} PROVE FALSE
  OBVIOUS
<1>2. PICK x \in T : \A y \in T : x <= y
  <2>1. \A v \in T : v \in Nat
    OBVIOUS
  <2> HIDE DEF T
  <2> QED BY <1>1, <2>1, LeastNumber
<1>3. x # 0 /\ x - 1 \in Nat /\ (x - 1) + 1 = x
  OBVIOUS
<1> QED BY <1>2, <1>3

\* A function on the subsets of a finite set is defined by what it has for a
\* set with one element less.
FoldStep(F, base, w, s) == IF s = {} THEN base ELSE F[<<CHOOSE x \in s : TRUE, w[s \ {CHOOSE x \in s : TRUE}]>>]
IsFold(w, P, F, base) == w = [s \in SUBSET P |-> FoldStep(F, base, w, s)]

\* There is a function that says what a fold gives over every subset of a
\* finite set.
LEMMA FoldExists ==
  ASSUME NEW P, IsFiniteSet(P), NEW F, NEW base
  PROVE  \E w : IsFold(w, P, F, base)
<1>1. \A s \in SUBSET P : IsFiniteSet(s) /\ Cardinality(s) \in Nat /\ (Cardinality(s) = 0 <=> s = {})
                         /\ Cardinality(s) <= Cardinality(P)
  BY FS_Subset, FS_CardinalityType, FS_EmptySet
<1>2. \A s \in SUBSET P : s # {} =>
        \E x \in s : /\ x = CHOOSE y \in s : TRUE
                     /\ s \ {x} \in SUBSET P /\ Cardinality(s \ {x}) = Cardinality(s) - 1
  <2>1. ASSUME NEW s \in SUBSET P, s # {}
        PROVE  \E x \in s : /\ x = CHOOSE y \in s : TRUE
                            /\ s \ {x} \in SUBSET P /\ Cardinality(s \ {x}) = Cardinality(s) - 1
    <3>1. PICK x : x = CHOOSE y \in s : TRUE
      OBVIOUS
    <3>2. x \in s
      BY <2>1, <3>1
    <3>3. Cardinality(s \ {x}) = Cardinality(s) - 1
      BY <1>1, <3>2, FS_RemoveElement
    <3> QED BY <3>1, <3>2, <3>3
  <2> QED BY <2>1
<1> DEFINE UpTo(n) == \E w : /\ w = [s \in SUBSET P |-> w[s]]
                             /\ \A s \in SUBSET P : Cardinality(s) <= n => w[s] = FoldStep(F, base, w, s)
           S == {n \in Nat : UpTo(n)}
<1>3. 0 \in S
  <2>1. PICK w : w = [s \in SUBSET P |-> base]
    OBVIOUS
  <2>2. w = [s \in SUBSET P |-> w[s]] /\ \A s \in SUBSET P : Cardinality(s) <= 0 => w[s] = FoldStep(F, base, w, s)
    BY <1>1, <2>1 DEF FoldStep
  <2> QED BY <2>2
<1>4. ASSUME NEW n \in Nat, n \in S PROVE n + 1 \in S
  <2>1. PICK w : /\ w = [s \in SUBSET P |-> w[s]]
                 /\ \A s \in SUBSET P : Cardinality(s) <= n => w[s] = FoldStep(F, base, w, s)
    BY <1>4
  <2>2. PICK v : v = [s \in SUBSET P |-> IF Cardinality(s) <= n THEN w[s] ELSE FoldStep(F, base, w, s)]
    OBVIOUS
  <2>3. ASSUME NEW s \in SUBSET P, Cardinality(s) <= n + 1 PROVE v[s] = FoldStep(F, base, v, s)
    <3>1. v[s] = FoldStep(F, base, w, s)
      BY <2>1, <2>2
    <3>2. CASE s = {}
      BY <3>1, <3>2 DEF FoldStep
    <3>3. CASE s # {}
      <4>1. PICK x \in s : /\ x = CHOOSE y \in s : TRUE
                           /\ s \ {x} \in SUBSET P /\ Cardinality(s \ {x}) = Cardinality(s) - 1
        BY <1>2, <3>3
      <4>2. Cardinality(s \ {x}) <= n
        BY <1>1, <2>3, <4>1
      <4>3. v[s \ {x}] = w[s \ {x}]
        BY <2>2, <4>1, <4>2
      <4> QED BY <3>1, <3>3, <4>1, <4>3 DEF FoldStep
    <3> QED BY <3>2, <3>3
  <2>4. v = [s \in SUBSET P |-> v[s]]
    BY <2>2
  <2> QED BY <2>3, <2>4
<1> HIDE DEF S
<1>5. Cardinality(P) \in S
  BY <1>1, <1>3, <1>4, AllNumbers
<1>6. PICK w : /\ w = [s \in SUBSET P |-> w[s]]
               /\ \A s \in SUBSET P : Cardinality(s) <= Cardinality(P) => w[s] = FoldStep(F, base, w, s)
  BY <1>5 DEF S
<1>7. IsFold(w, P, F, base)
  BY <1>1, <1>6 DEF IsFold
<1> QED BY <1>7

\* What holds of nothing, and with a set holds of one with an element more.
LEMMA FoldInduction ==
  ASSUME NEW P, IsFiniteSet(P), NEW w, NEW G, <<{}, w[{}]>> \in G,
         \A s \in SUBSET P : s # {} => \E x \in s : <<s \ {x}, w[s \ {x}]>> \in G => <<s, w[s]>> \in G
  PROVE  \A s \in SUBSET P : <<s, w[s]>> \in G
<1> DEFINE S == {n \in Nat : \A s \in SUBSET P : Cardinality(s) = n => <<s, w[s]>> \in G}
<1>1. \A s \in SUBSET P : IsFiniteSet(s) /\ Cardinality(s) \in Nat /\ (Cardinality(s) = 0 <=> s = {})
  BY FS_Subset, FS_CardinalityType, FS_EmptySet
<1>2. 0 \in S
  BY <1>1
<1>3. ASSUME NEW n \in Nat, n \in S PROVE n + 1 \in S
  <2>1. ASSUME NEW s \in SUBSET P, Cardinality(s) = n + 1 PROVE <<s, w[s]>> \in G
    <3>1. s # {}
      BY <1>1, <2>1
    <3>2. PICK x \in s : <<s \ {x}, w[s \ {x}]>> \in G => <<s, w[s]>> \in G
      BY <3>1
    <3>3. Cardinality(s \ {x}) = n /\ s \ {x} \in SUBSET P
      BY <1>1, <2>1, FS_RemoveElement
    <3> QED BY <1>3, <3>2, <3>3
  <2> QED BY <2>1
<1> HIDE DEF S
<1>4. Nat \subseteq S
  BY <1>2, <1>3, AllNumbers
<1> QED BY <1>1, <1>4 DEF S

-----------------------------------------------------------------------------
(* What update_packet writes.                                              *)

PacketMemory == [DOMAIN memory["packet"] -> Byte]

\* The fields of the packet's headers.
Here == {f \in DOMAIN Field : Present(f) /\ ~IsMeta(f)}

\* A field of a header that is there lies in every packet of this length.
LEMMA HereLies ==
  ASSUME ProgramInv, MemoryInv, NEW f \in Here, NEW m \in PacketMemory
  PROVE  Lies(Field[f], Base(f), m) /\ Order(f) = "net" /\ Readable(f) /\ memory["packet"] \in PacketMemory
<1>1. Mem(f) = memory["packet"]
  BY DEF Here, Mem, Region
<1>2. Lies(Field[f], Base(f), Mem(f)) /\ Mem(f) \in [DOMAIN Mem(f) -> Byte]
  BY PresentLies DEF Here, Base
<1>3. DOMAIN m = DOMAIN memory["packet"] /\ \A x \in DOMAIN m : m[x] \in Byte
  BY DEF PacketMemory
<1>4. Lies(Field[f], Base(f), m)
  BY <1>1, <1>2, <1>3 DEF Lies
<1> QED BY <1>1, <1>2, <1>4 DEF Here, Order, Readable, PacketMemory

\* A write to one field of the packet leaves the others as they were.
LEMMA WriteIn ==
  ASSUME ProgramInv, MemoryInv, NEW x \in Here, NEW m \in PacketMemory, NEW new,
         SameBut(new, m, BitsOf(Field[x], Base(x)))
  PROVE  /\ new \in PacketMemory
         /\ \A g \in Here : g # x =>
              /\ Said(new, g) = Said(m, g)
              /\ InWord(Field[g]) => ReadAs(new, Field[g], Base(g), "host") = ReadAs(m, Field[g], Base(g), "host")
<1>1. new \in PacketMemory
  BY DEF SameBut, PacketMemory
<1>2. ASSUME NEW g \in Here, g # x
      PROVE  /\ Said(new, g) = Said(m, g)
             /\ InWord(Field[g]) => ReadAs(new, Field[g], Base(g), "host") = ReadAs(m, Field[g], Base(g), "host")
  <2>1. Lies(Field[g], Base(g), m) /\ Lies(Field[g], Base(g), new) /\ Order(g) = "net" /\ Readable(g)
    BY <1>1, HereLies
  <2>2. BitsOf(Field[g], Base(g)) \intersect BitsOf(Field[x], Base(x)) = {}
    <3>1. Region(g) = Region(x) /\ Present(g) /\ Present(x) /\ g \in DOMAIN Field /\ x \in DOMAIN Field
      BY DEF Here, Region
    <3> QED BY <1>2, <3>1, FieldsApart DEF Base
  <2>3. ReadAs(new, Field[g], Base(g), "net") = ReadAs(m, Field[g], Base(g), "net")
    BY <2>1, <2>2, ReadOther
  <2>4. InWord(Field[g]) => ReadAs(new, Field[g], Base(g), "host") = ReadAs(m, Field[g], Base(g), "host")
    BY <2>1, <2>2, ReadOther
  <2>5. g \in DOMAIN Field
    BY DEF Here
  <2> QED BY <2>1, <2>3, <2>4, <2>5, SaidIsRead
<1> QED BY <1>1, <1>2

\* The copies.
CopyOp(f, m) == MODIFY_INT32_INT32_AUTO(m, Desc(f), fields[f])

\* A copy that is written back is what the bytes say then, and no other field
\* changes.
LEMMA CopyStep ==
  ASSUME ProgramInv, MemoryInv, fields \in [Parsed -> SUBSET Bit], NEW x \in Parsed, Present(x), NEW m \in PacketMemory
  PROVE  /\ CopyOp(x, m) \in PacketMemory
         /\ Said(CopyOp(x, m), x) = Truncate(fields[x], Field[x].width)
         /\ \A g \in Here : g # x => Said(CopyOp(x, m), g) = Said(m, g)
<1>1. x \in Here /\ InWord(Field[x]) /\ ~IsMeta(x)
  BY ParsedFacts DEF Here
<1>2. Lies(Field[x], Base(x), m) /\ Order(x) = "net" /\ Readable(x)
  BY <1>1, HereLies
<1>3. Desc(x) = field_desc(Field[x], Base(x)) /\ ~Desc(x).meta
  BY <1>1 DEF Desc, Base, field_desc, IsMeta
<1>4. \A i \in fields[x] : i \in Nat
  BY DEF Bit
<1>5. Wrote(CopyOp(x, m), m, Field[x], Base(x), "net", fields[x])
  BY <1>1, <1>2, <1>3, <1>4, NetWrite DEF CopyOp, MODIFY_INT32_INT32_AUTO
<1>6. /\ SameBut(CopyOp(x, m), m, BitsOf(Field[x], Base(x)))
      /\ ReadAs(CopyOp(x, m), Field[x], Base(x), "net") = Truncate(fields[x], Field[x].width)
  BY <1>5 DEF Wrote
<1>7. CopyOp(x, m) \in PacketMemory /\ \A g \in Here : g # x => Said(CopyOp(x, m), g) = Said(m, g)
  BY <1>1, <1>6, WriteIn
<1>8. Said(CopyOp(x, m), x) = ReadAs(CopyOp(x, m), Field[x], Base(x), "net")
  <2>1. Lies(Field[x], Base(x), CopyOp(x, m)) /\ x \in DOMAIN Field
    BY <1>1, <1>7, HereLies DEF Here
  <2> QED BY <1>2, <2>1, SaidIsRead
<1> QED BY <1>6, <1>7, <1>8

\* The copies and the calculated fields are finitely many.
LEMMA FinitelyParsed == ProgramInv => IsFiniteSet(Parsed) /\ IsFiniteSet(program.calculated)
<1> SUFFICES ASSUME ProgramInv PROVE IsFiniteSet(Parsed) /\ IsFiniteSet(program.calculated)
  OBVIOUS
<1>1. IsFiniteSet(DOMAIN Field) /\ program.calculated \subseteq DOMAIN Field
  BY SoundProgram DEF ProgramIsSound, LayoutIsSound, CalculationsAreSound, Field
<1>2. Parsed \subseteq DOMAIN Field
  BY ParsedFacts
<1> QED BY <1>1, <1>2, FS_Subset

\* Every copy is in the bytes of its field then, and no other field is changed.
LEMMA CopiesAreWritten ==
  ASSUME ProgramInv, MemoryInv, fields \in [Parsed -> SUBSET Bit], \A f \in WrittenBack : Present(f),
         NEW mem \in PacketMemory
  PROVE  /\ CopiesWritten(mem) \in PacketMemory
         /\ \A g \in Here : Said(CopiesWritten(mem), g) =
              IF g \in WrittenBack THEN Truncate(fields[g], Field[g].width) ELSE Said(mem, g)
<1> DEFINE AnyOf(s) == CHOOSE x \in s : TRUE
           Step(w, s) == IF s = {} THEN mem ELSE CopyOp(AnyOf(s), w[s \ {AnyOf(s)}])
           iter == CHOOSE w : w = [s \in SUBSET WrittenBack |-> Step(w, s)]
           Good(s, m) == \A g \in Here : Said(m, g) = IF g \in s THEN Truncate(fields[g], Field[g].width) ELSE Said(mem, g)
           G == {e \in (SUBSET WrittenBack) \X PacketMemory : Good(e[1], e[2])}
           F == [e \in WrittenBack \X PacketMemory |-> CopyOp(e[1], e[2])]
<1>1. CopiesWritten(mem) = iter[WrittenBack]
  BY DEF CopiesWritten, CopyOp, FoldSet, MapThenFoldSet
<1>2. IsFiniteSet(WrittenBack) /\ WrittenBack \subseteq Parsed
  BY FinitelyParsed, FS_Subset DEF WrittenBack
<1>3. <<{}, mem>> \in G
  OBVIOUS
<1>4. ASSUME NEW s \in SUBSET WrittenBack, NEW x \in s, NEW m, <<s \ {x}, m>> \in G
      PROVE  <<s, CopyOp(x, m)>> \in G
  <2>1. m \in PacketMemory /\ Good(s \ {x}, m) /\ x \in Parsed /\ Present(x)
    BY <1>2, <1>4
  <2>2. /\ CopyOp(x, m) \in PacketMemory
        /\ Said(CopyOp(x, m), x) = Truncate(fields[x], Field[x].width)
        /\ \A g \in Here : g # x => Said(CopyOp(x, m), g) = Said(m, g)
    BY <2>1, CopyStep
  <2>3. Good(s, CopyOp(x, m))
    BY <2>1, <2>2
  <2> QED BY <2>2, <2>3
<1>5. \A s \in SUBSET WrittenBack : s # {} => AnyOf(s) \in s
  OBVIOUS
<1>6. \A e \in G : e[2] \in PacketMemory
  OBVIOUS
<1> HIDE DEF G, F
<1>7. PICK w : w = [s \in SUBSET WrittenBack |-> FoldStep(F, mem, w, s)]
  <2>1. \E w : IsFold(w, WrittenBack, F, mem)
    BY <1>2, FoldExists
  <2> QED BY <2>1 DEF IsFold
<1>8. \A s \in SUBSET WrittenBack : <<s, w[s]>> \in G
  <2>1. w[{}] = mem
    BY <1>7 DEF FoldStep
  <2>2. ASSUME NEW s \in SUBSET WrittenBack, s # {}, NEW x, x = AnyOf(s), <<s \ {x}, w[s \ {x}]>> \in G
        PROVE  <<s, w[s]>> \in G
    <3>1. x \in s /\ w[s \ {x}] \in PacketMemory
      BY <1>5, <1>6, <2>2
    <3>2. w[s] = F[<<x, w[s \ {x}]>>]
      BY <1>7, <2>2 DEF FoldStep
    <3>3. w[s] = CopyOp(x, w[s \ {x}])
      BY <3>1, <3>2 DEF F
    <3> QED BY <1>4, <2>2, <3>1, <3>3
  <2>3. \A s \in SUBSET WrittenBack : s # {} => \E x \in s : <<s \ {x}, w[s \ {x}]>> \in G => <<s, w[s]>> \in G
    BY <1>5, <2>2
  <2> QED BY <1>2, <1>3, <2>1, <2>3, FoldInduction
<1>9. w = [s \in SUBSET WrittenBack |-> Step(w, s)]
  <2>1. ASSUME NEW s \in SUBSET WrittenBack PROVE FoldStep(F, mem, w, s) = Step(w, s)
    <3>1. CASE s = {}
      BY <3>1 DEF FoldStep
    <3>2. CASE s # {}
      <4>1. PICK x \in s : x = AnyOf(s)
        BY <1>5, <3>2
      <4>2. <<s \ {x}, w[s \ {x}]>> \in G
        BY <1>8
      <4>3. w[s \ {x}] \in PacketMemory
        BY <1>6, <4>2
      <4> QED BY <3>2, <4>1, <4>3 DEF FoldStep, F
    <3> QED BY <3>1, <3>2
  <2> QED BY <1>7, <2>1
<1> HIDE DEF Step
<1>10. iter = [s \in SUBSET WrittenBack |-> Step(iter, s)]
  BY <1>9
<1> HIDE DEF iter
<1> USE DEF Step
<1>11. \A s \in SUBSET WrittenBack : <<s, iter[s]>> \in G
  <2>1. iter[{}] = mem
    BY <1>10
  <2>2. ASSUME NEW s \in SUBSET WrittenBack, s # {}, NEW x, x = AnyOf(s), <<s \ {x}, iter[s \ {x}]>> \in G
        PROVE  <<s, iter[s]>> \in G
    <3>1. x \in s
      BY <1>5, <2>2
    <3>2. iter[s] = CopyOp(x, iter[s \ {x}])
      BY <1>10, <2>2
    <3> QED BY <1>4, <2>2, <3>1, <3>2
  <2>3. \A s \in SUBSET WrittenBack : s # {} => \E x \in s : <<s \ {x}, iter[s \ {x}]>> \in G => <<s, iter[s]>> \in G
    BY <1>5, <2>2
  <2> QED BY <1>2, <1>3, <2>1, <2>3, FoldInduction
<1>12. <<WrittenBack, iter[WrittenBack]>> \in G
  BY <1>11
<1> QED BY <1>1, <1>12 DEF G

-----------------------------------------------------------------------------
(* Calculated fields.                                                      *)

\* A calculated field is a word of a header that is there, and the only one of
\* it.
LEMMA CalculatedFacts ==
  ASSUME ProgramInv, NEW f \in Calculated
  PROVE  /\ f \in Here /\ f \in program.calculated /\ InWord(Field[f])
         /\ Field[f].width = 16 /\ Field[f].offset \in Nat /\ Field[f].offset % 16 = 0
         /\ \A g \in Calculated : g # f => Field[g].hdr # Field[f].hdr
<1>1. CalculationsAreSound(program)
  BY SoundProgram DEF ProgramIsSound
<1>2. f \in Here /\ f \in program.calculated /\ Field[f].width = 16 /\ Field[f].offset % 16 = 0
  BY <1>1 DEF Calculated, Here, CalculationsAreSound, Field, IsMeta
<1>3. \A g \in Calculated : g # f => Field[g].hdr # Field[f].hdr
  BY <1>1 DEF Calculated, CalculationsAreSound, Field
<1>4. PICK o \in Nat : o = Field[f].offset
  BY <1>2, Layout DEF Here
<1>5. o % 16 = 0 => o % 8 = 0
  OBVIOUS
<1>6. InWord(Field[f])
  BY <1>2, <1>4, <1>5 DEF InWord
<1> QED BY <1>2, <1>3, <1>4, <1>6

\* A byte none of whose bits are written is the same.
LEMMA ByteStays ==
  ASSUME NEW m, NEW new, NEW S, SameBut(new, m, S), NEW y \in DOMAIN m, m[y] \in Byte,
         \A b \in 0 .. 7 : 8 * y + (7 - b) \notin S
  PROVE  new[y] = m[y]
<1>1. \A b \in 0 .. 7 : b \in new[y] <=> b \in m[y]
  BY DEF SameBut
<1>2. new[y] \in Byte
  BY DEF SameBut
<1> QED BY <1>1, <1>2 DEF Byte

\* The sum over a header leaves out the field's own word, and the other
\* calculated fields are in other headers.
LEMMA CalculateStays ==
  ASSUME ProgramInv, MemoryInv, NEW f \in Calculated, NEW x \in Calculated, NEW m \in PacketMemory, NEW new,
         SameBut(new, m, BitsOf(Field[x], Base(x)))
  PROVE  calculate(new, f) = calculate(m, f)
<1>1. PICK b, len, o : b = pointer[Field[f].hdr] /\ len = program.length[Field[f].hdr] /\ o = Field[f].offset
  OBVIOUS
<1>2. PICK c, n, q : c = pointer[Field[x].hdr] /\ n = program.length[Field[x].hdr] /\ q = Field[x].offset
  OBVIOUS
<1>3. /\ f \in DOMAIN Field /\ x \in DOMAIN Field /\ Present(f) /\ Present(x) /\ ~IsMeta(f) /\ ~IsMeta(x)
      /\ Field[x].width = 16 /\ o % 16 = 0 /\ q % 16 = 0
      /\ f = x \/ Field[f].hdr # Field[x].hdr
  BY <1>1, <1>2, CalculatedFacts DEF Here
<1>4. o \in Nat /\ q \in Nat /\ len \in Nat /\ n \in Nat /\ q + 16 <= 8 * n
  BY <1>1, <1>2, <1>3, Layout
<1>5. Field[f].hdr \in DOMAIN pointer \ MetaHeaders /\ Field[x].hdr \in DOMAIN pointer \ MetaHeaders
  BY <1>3, Layout DEF Present
<1>6. PICK size \in Nat : memory["packet"] \in [0 .. size - 1 -> Byte] /\ PointersLie(size)
  BY DEF MemoryInv
<1>7. /\ b \in Nat /\ c \in Nat /\ b + len <= size
      /\ f # x => b + len <= c \/ c + n <= b
  BY <1>1, <1>2, <1>3, <1>5, <1>6 DEF PointersLie, Ends
<1>8. PICK Words : Words = {k \in 0 .. len - 2 : k % 2 = 0 /\ k # o \div 8}
  OBVIOUS
<1>9. \A z : z \in BitsOf(Field[x], Base(x)) <=> z \in 8 * c + q .. 8 * c + q + 16 - 1
  BY <1>2, <1>3 DEF BitsOf, Base
<1>10. ASSUME NEW k \in Words, NEW y \in {b + k, b + k + 1} PROVE new[y] = m[y]
  <2>1. k \in Nat /\ k <= len - 2 /\ k % 2 = 0 /\ k # o \div 8
    BY <1>4, <1>8
  <2>2. y \in Nat /\ y < b + len /\ y >= b /\ y \in DOMAIN m /\ m[y] \in Byte
    <3>1. DOMAIN m = 0 .. size - 1 /\ m \in [DOMAIN m -> Byte]
      BY <1>6 DEF PacketMemory
    <3>2. y \in Nat /\ y < b + len /\ y >= b
      BY <1>4, <1>7, <1>10, <2>1
    <3>3. y \in 0 .. size - 1
      BY <1>4, <1>7, <3>2
    <3> QED BY <3>1, <3>2, <3>3
  <2>3. PICK d \in Nat : d = q \div 8
    BY <1>4
  <2>4. q = 8 * d /\ d % 2 = 0 /\ d + 2 <= n
    BY <1>3, <1>4, <2>3
  <2>5. y # c + d /\ y # c + d + 1
    <3>1. CASE f = x
      <4>1. b = c /\ o = q
        BY <1>1, <1>2, <3>1
      <4>2. k # d /\ k % 2 = 0 /\ d % 2 = 0
        BY <2>1, <2>3, <2>4, <4>1
      <4> QED BY <1>7, <1>10, <2>1, <2>3, <4>1, <4>2
    <3>2. CASE f # x
      BY <1>4, <1>7, <2>2, <2>3, <2>4, <3>2
    <3> QED BY <3>1, <3>2
  <2>6. \A i \in 0 .. 7 : 8 * y + (7 - i) \notin 8 * c + q .. 8 * c + q + 16 - 1
    BY <1>7, <2>2, <2>3, <2>4, <2>5
  <2> QED BY <1>9, <2>2, <2>6, ByteStays
<1>11. \A k \in Words : new[b + k] = m[b + k] /\ new[b + k + 1] = m[b + k + 1]
  BY <1>10
<1>12. [k \in Words |-> NumberOf[new[b + k]] + 256 * NumberOf[new[b + k + 1]]]
       = [k \in Words |-> NumberOf[m[b + k]] + 256 * NumberOf[m[b + k + 1]]]
  BY <1>11
<1>13. \A mem : calculate(mem, f) = csum16(SumFunction([k \in Words |-> NumberOf[mem[b + k]] + 256 * NumberOf[mem[b + k + 1]]]))
  BY <1>1, <1>8 DEF calculate
<1> QED BY <1>12, <1>13

\* A checksum has 16 bits.
LEMMA CalculateBits == \A mem, f : calculate(mem, f) \subseteq 0 .. 15
<1>1. \A n : csum16(n) \subseteq 0 .. 15
  BY DEF csum16
<1> QED BY <1>1 DEF calculate

CalculationOp(f, m) == MODIFY_INT32_INT32_BITS(m, Desc(f), calculate(m, f))
Checksum(m, f) == EXTRACT_INT32_BITS(m, Desc(f)) = calculate(m, f)

\* A checksum that is written is right, and leaves right those that were.
LEMMA CalculationStep ==
  ASSUME ProgramInv, MemoryInv, NEW x \in Calculated, NEW m \in PacketMemory
  PROVE  /\ CalculationOp(x, m) \in PacketMemory /\ Checksum(CalculationOp(x, m), x)
         /\ \A g \in Here : g # x => Said(CalculationOp(x, m), g) = Said(m, g)
         /\ \A g \in Calculated : g # x /\ Checksum(m, g) => Checksum(CalculationOp(x, m), g)
<1>1. x \in Here /\ InWord(Field[x]) /\ Field[x].width = 16
  BY CalculatedFacts
<1>2. PICK new, v : new = CalculationOp(x, m) /\ v = calculate(m, x)
  OBVIOUS
<1>3. v \subseteq 0 .. 15
  BY <1>2, CalculateBits
<1>4. Lies(Field[x], Base(x), m) /\ Desc(x) = field_desc(Field[x], Base(x))
  BY <1>1, HereLies DEF Desc, Base
<1>5. Wrote(new, m, Field[x], Base(x), "host", v)
  <2>1. \A i \in v : i \in Nat
    BY <1>3
  <2> QED BY <1>1, <1>2, <1>4, <2>1, HostWrite DEF CalculationOp
<1>6. SameBut(new, m, BitsOf(Field[x], Base(x))) /\ ReadAs(new, Field[x], Base(x), "host") = Truncate(v, 16)
  BY <1>1, <1>5 DEF Wrote
<1>7. /\ new \in PacketMemory
      /\ \A g \in Here : g # x =>
           /\ Said(new, g) = Said(m, g)
           /\ InWord(Field[g]) => ReadAs(new, Field[g], Base(g), "host") = ReadAs(m, Field[g], Base(g), "host")
  BY <1>1, <1>6, WriteIn
<1>8. \A g \in Calculated : /\ EXTRACT_INT32_BITS(new, Desc(g)) = ReadAs(new, Field[g], Base(g), "host")
                            /\ EXTRACT_INT32_BITS(m, Desc(g)) = ReadAs(m, Field[g], Base(g), "host")
  <2>1. ASSUME NEW g \in Calculated
        PROVE  /\ EXTRACT_INT32_BITS(new, Desc(g)) = ReadAs(new, Field[g], Base(g), "host")
               /\ EXTRACT_INT32_BITS(m, Desc(g)) = ReadAs(m, Field[g], Base(g), "host")
    <3>1. g \in Here /\ InWord(Field[g])
      BY CalculatedFacts
    <3>2. Lies(Field[g], Base(g), m) /\ Lies(Field[g], Base(g), new) /\ Desc(g) = field_desc(Field[g], Base(g))
      BY <1>7, <3>1, HereLies DEF Desc, Base
    <3> QED BY <3>1, <3>2, HostRead
  <2> QED BY <2>1
<1>9. \A g \in Calculated : calculate(new, g) = calculate(m, g)
  BY <1>6, CalculateStays
<1>10. Checksum(new, x)
  <2>1. Truncate(v, 16) = v
    <3>1. 0 .. 16 - 1 = 0 .. 15
      OBVIOUS
    <3> QED BY <1>3, <3>1 DEF Truncate
  <2> QED BY <1>2, <1>6, <1>8, <1>9, <2>1 DEF Checksum
<1>11. \A g \in Calculated : g # x /\ Checksum(m, g) => Checksum(new, g)
  BY <1>7, <1>8, <1>9, CalculatedFacts DEF Checksum
<1> QED BY <1>2, <1>7, <1>10, <1>11

\* Every calculated field has the sum of its header then, and no other field is
\* changed.
LEMMA CalculationsAreWritten ==
  ASSUME ProgramInv, MemoryInv, NEW mem \in PacketMemory
  PROVE  /\ CalculationsWritten(mem) \in PacketMemory
         /\ \A g \in Calculated : Checksum(CalculationsWritten(mem), g)
         /\ \A g \in Here \ Calculated : Said(CalculationsWritten(mem), g) = Said(mem, g)
<1> DEFINE AnyOf(s) == CHOOSE x \in s : TRUE
           Step(w, s) == IF s = {} THEN mem ELSE CalculationOp(AnyOf(s), w[s \ {AnyOf(s)}])
           iter == CHOOSE w : w = [s \in SUBSET Calculated |-> Step(w, s)]
           Good(s, m) == /\ \A g \in Here \ s : Said(m, g) = Said(mem, g)
                         /\ \A g \in s : Checksum(m, g)
           G == {e \in (SUBSET Calculated) \X PacketMemory : Good(e[1], e[2])}
           F == [e \in Calculated \X PacketMemory |-> CalculationOp(e[1], e[2])]
<1>1. CalculationsWritten(mem) = iter[Calculated]
  BY DEF CalculationsWritten, CalculationOp, FoldSet, MapThenFoldSet
<1>2. IsFiniteSet(Calculated)
  BY FinitelyParsed, FS_Subset DEF Calculated
<1>3. <<{}, mem>> \in G
  OBVIOUS
<1>4. ASSUME NEW s \in SUBSET Calculated, NEW x \in s, NEW m, <<s \ {x}, m>> \in G
      PROVE  <<s, CalculationOp(x, m)>> \in G
  <2>1. m \in PacketMemory /\ Good(s \ {x}, m) /\ x \in Calculated /\ s \subseteq Calculated
    BY <1>4
  <2>2. /\ CalculationOp(x, m) \in PacketMemory /\ Checksum(CalculationOp(x, m), x)
        /\ \A g \in Here : g # x => Said(CalculationOp(x, m), g) = Said(m, g)
        /\ \A g \in Calculated : g # x /\ Checksum(m, g) => Checksum(CalculationOp(x, m), g)
    BY <2>1, CalculationStep
  <2>3. Good(s, CalculationOp(x, m))
    BY <2>1, <2>2
  <2> QED BY <2>2, <2>3
<1>5. \A s \in SUBSET Calculated : s # {} => AnyOf(s) \in s
  OBVIOUS
<1>6. \A e \in G : e[2] \in PacketMemory
  OBVIOUS
<1> HIDE DEF G, F
<1>7. PICK w : w = [s \in SUBSET Calculated |-> FoldStep(F, mem, w, s)]
  <2>1. \E w : IsFold(w, Calculated, F, mem)
    BY <1>2, FoldExists
  <2> QED BY <2>1 DEF IsFold
<1>8. \A s \in SUBSET Calculated : <<s, w[s]>> \in G
  <2>1. w[{}] = mem
    BY <1>7 DEF FoldStep
  <2>2. ASSUME NEW s \in SUBSET Calculated, s # {}, NEW x, x = AnyOf(s), <<s \ {x}, w[s \ {x}]>> \in G
        PROVE  <<s, w[s]>> \in G
    <3>1. x \in s /\ w[s \ {x}] \in PacketMemory
      BY <1>5, <1>6, <2>2
    <3>2. w[s] = F[<<x, w[s \ {x}]>>]
      BY <1>7, <2>2 DEF FoldStep
    <3>3. w[s] = CalculationOp(x, w[s \ {x}])
      BY <3>1, <3>2 DEF F
    <3> QED BY <1>4, <2>2, <3>1, <3>3
  <2>3. \A s \in SUBSET Calculated : s # {} => \E x \in s : <<s \ {x}, w[s \ {x}]>> \in G => <<s, w[s]>> \in G
    BY <1>5, <2>2
  <2> QED BY <1>2, <1>3, <2>1, <2>3, FoldInduction
<1>9. w = [s \in SUBSET Calculated |-> Step(w, s)]
  <2>1. ASSUME NEW s \in SUBSET Calculated PROVE FoldStep(F, mem, w, s) = Step(w, s)
    <3>1. CASE s = {}
      BY <3>1 DEF FoldStep
    <3>2. CASE s # {}
      <4>1. PICK x \in s : x = AnyOf(s)
        BY <1>5, <3>2
      <4>2. <<s \ {x}, w[s \ {x}]>> \in G
        BY <1>8
      <4>3. w[s \ {x}] \in PacketMemory
        BY <1>6, <4>2
      <4> QED BY <3>2, <4>1, <4>3 DEF FoldStep, F
    <3> QED BY <3>1, <3>2
  <2> QED BY <1>7, <2>1
<1> HIDE DEF Step
<1>10. iter = [s \in SUBSET Calculated |-> Step(iter, s)]
  BY <1>9
<1> HIDE DEF iter
<1> USE DEF Step
<1>11. \A s \in SUBSET Calculated : <<s, iter[s]>> \in G
  <2>1. iter[{}] = mem
    BY <1>10
  <2>2. ASSUME NEW s \in SUBSET Calculated, s # {}, NEW x, x = AnyOf(s), <<s \ {x}, iter[s \ {x}]>> \in G
        PROVE  <<s, iter[s]>> \in G
    <3>1. x \in s
      BY <1>5, <2>2
    <3>2. iter[s] = CalculationOp(x, iter[s \ {x}])
      BY <1>10, <2>2
    <3> QED BY <1>4, <2>2, <3>1, <3>2
  <2>3. \A s \in SUBSET Calculated : s # {} => \E x \in s : <<s \ {x}, iter[s \ {x}]>> \in G => <<s, iter[s]>> \in G
    BY <1>5, <2>2
  <2> QED BY <1>2, <1>3, <2>1, <2>3, FoldInduction
<1>12. <<Calculated, iter[Calculated]>> \in G
  BY <1>11
<1> QED BY <1>1, <1>12 DEF G

\* What update_packet leaves: right checksums, and of every other field its
\* copy if that was MODIFIED.
LEMMA UpdateFacts ==
  ASSUME ProgramInv, MemoryInv, fields \in [Parsed -> SUBSET Bit], update_packet
  PROVE  /\ MemoryInv'
         /\ \A g \in Calculated : Checksum(memory'["packet"], g)
         /\ \A g \in Here \ Calculated : Said(memory'["packet"], g) =
              IF g \in WrittenBack THEN Truncate(fields[g], Field[g].width) ELSE Bytes(g)
         /\ \A h \in MetaHeaders : memory'[h] = memory[h]
<1>1. /\ ctl.at = "update" /\ Safe /\ program' = program /\ pointer' = pointer /\ ctl' = At("send", "none")
      /\ memory' = [memory EXCEPT !["packet"] = Updated(memory["packet"])]
  BY DEF update_packet
<1>2. \A f \in WrittenBack : Present(f)
  BY <1>1 DEF Safe, BytesUsed, AtTable, AtCondition, Named
<1>3. PICK old, mid, new : old = memory["packet"] /\ mid = CopiesWritten(old) /\ new = CalculationsWritten(mid)
  OBVIOUS
<1>4. "packet" \in DOMAIN memory /\ "packet" \notin MetaHeaders /\ old \in PacketMemory
  BY <1>3, HeaderLengths DEF MemoryInv, PacketMemory
<1>5. /\ mid \in PacketMemory
      /\ \A g \in Here : Said(mid, g) = IF g \in WrittenBack THEN Truncate(fields[g], Field[g].width) ELSE Said(old, g)
  BY <1>2, <1>3, <1>4, CopiesAreWritten
<1>6. /\ new \in PacketMemory /\ \A g \in Calculated : Checksum(new, g)
      /\ \A g \in Here \ Calculated : Said(new, g) = Said(mid, g)
  BY <1>3, <1>5, CalculationsAreWritten
<1>7. memory' = [memory EXCEPT !["packet"] = new] /\ memory'["packet"] = new
  BY <1>1, <1>3, <1>4 DEF Updated
<1>8. MemoryInv'
  <2>1. new \in [DOMAIN memory["packet"] -> Byte]
    BY <1>6 DEF PacketMemory
  <2>2. ctl'.at = "send"
    BY <1>1, Literals
  <2> QED BY <1>1, <1>4, <1>7, <2>1, <2>2, MemoryStep
<1>9. \A g \in Here : Said(old, g) = Bytes(g)
  BY <1>3 DEF Here, Bytes, Mem, Region
<1>10. \A h \in MetaHeaders : memory'[h] = memory[h]
  BY <1>4, <1>7 DEF MemoryInv
<1> QED BY <1>5, <1>6, <1>7, <1>8, <1>9, <1>10

-----------------------------------------------------------------------------
(* What the copies and the bytes hold.                                     *)

CopyHolds(f) == f \in Parsed \ direct => Truncate(fields[f], Field[f].width) = value[f]
BytesHold(f) == f \notin WrittenBack => Bytes(f) = value[f]

ValuesInv ==
  /\ fields \in [Parsed -> SUBSET Bit]
  /\ Inside \/ ctl.at = "send" => DOMAIN value = {f \in DOMAIN Field : Present(f)}
  /\ ctl.at \in {"idle", "parse", "select"} => direct = {} /\ tainted = {}
  /\ Inside => \A f \in DOMAIN value \ tainted : CopyHolds(f) /\ BytesHold(f)
  /\ ctl.at = "send" =>
       /\ \A f \in DOMAIN value \ (tainted \union Calculated) : Bytes(f) = value[f] \/ Mixed(f)
       /\ ChecksumsHold

Marks == attr \in [Parsed -> {0, MODIFIED}]

\* A call that changes one field, in its copy or in its bytes.
LEMMA CallValues ==
  ASSUME ProgramInv, MemoryInv, ValuesInv, Inside, program' = program, pointer' = pointer,
         ctl'.at \in {"node", "update", "calls"}, NEW d \in DOMAIN Field, NEW u, SetValue(d, u),
         fields' \in [Parsed -> SUBSET Bit], \A f \in Parsed : f # d => fields'[f] = fields[f],
         WrittenBack \subseteq WrittenBack',
         memory' = memory \/ (Present(d) /\ \E order, v : WroteField(d, order, v)),
         direct \subseteq direct', tainted \ {d} \subseteq tainted',
         d \in DOMAIN value /\ d \notin tainted' => CopyHolds(d)' /\ BytesHold(d)'
  PROVE  MemoryInv' /\ ValuesInv'
<1>1. /\ Parsed' = Parsed /\ Field' = Field /\ \A f : Present(f)' <=> Present(f)
      /\ Inside' /\ ctl'.at \notin {"idle", "parse", "select", "send"}
  BY DEF Parsed, Field, Present, Inside
<1>2. DOMAIN value' = DOMAIN value /\ \A f \in DOMAIN value : f # d => value'[f] = value[f]
  BY DEF SetValue
<1>3. DOMAIN value = {f \in DOMAIN Field : Present(f)}
  BY DEF ValuesInv
<1>4. ASSUME NEW f \in DOMAIN value, f # d, f \notin tainted' PROVE CopyHolds(f)' /\ BytesHold(f)'
  <2>1. CopyHolds(f) /\ BytesHold(f)
    BY <1>4 DEF ValuesInv
  <2>2. Bytes(f)' = Bytes(f)
    <3>1. CASE memory' = memory
      BY <1>1, <3>1 DEF Bytes, Said, Mem, Region, Base, Desc, IsMeta, Short
    <3>2. CASE Present(d) /\ \E order, v : WroteField(d, order, v)
      BY <1>3, <1>4, <3>2, WriteStep
    <3> QED BY <3>1, <3>2
  <2>3. CopyHolds(f)'
    BY <1>1, <1>2, <1>4, <2>1 DEF CopyHolds
  <2> QED BY <1>2, <1>4, <2>1, <2>2, <2>3 DEF BytesHold
<1>5. \A f \in DOMAIN value' \ tainted' : CopyHolds(f)' /\ BytesHold(f)'
  BY <1>2, <1>4
<1>6. MemoryInv'
  <2>1. \/ memory' = memory
        \/ \E r \in DOMAIN memory :
             \E new : new \in [DOMAIN memory[r] -> Byte] /\ memory' = [memory EXCEPT ![r] = new]
    <3>1. CASE Present(d) /\ \E order, v : WroteField(d, order, v)
      <4>1. \E new : new \in [DOMAIN memory[Region(d)] -> Byte] /\ memory' = [memory EXCEPT ![Region(d)] = new]
        BY <3>1, WriteStep
      <4>2. Region(d) \in DOMAIN memory
        BY <3>1, PresentLies
      <4> QED BY <4>1, <4>2
    <3> QED BY <3>1
  <2> QED BY <1>1, <2>1, MemoryStep
<1> QED BY <1>1, <1>2, <1>3, <1>5, <1>6 DEF ValuesInv

\* modify_int32_int32 gives the field the value, in its copy or in its bytes.
LEMMA ModifyInt32 ==
  ASSUME ProgramInv, MemoryInv, ValuesInv, Marks, program' = program, pointer' = pointer, NEW d \in DOMAIN Field,
         InWord(Field[d]), d \in Parsed \/ Present(d), NEW v, v \subseteq Bit, modify_int32_int32(d, v)
  PROVE  /\ fields' \in [Parsed -> SUBSET Bit] /\ \A f \in Parsed : f # d => fields'[f] = fields[f]
         /\ WrittenBack \subseteq WrittenBack'
         /\ memory' = memory \/ (Present(d) /\ \E order, x : WroteField(d, order, x))
         /\ value'[d] = Truncate(v, Field[d].width) => CopyHolds(d)' /\ BytesHold(d)'
<1>1. Parsed' = Parsed /\ Field' = Field /\ fields \in [Parsed -> SUBSET Bit] /\ attr \in [Parsed -> {0, MODIFIED}]
  BY DEF Parsed, Field, ValuesInv, Marks
<1>2. CASE d \in Parsed
  <2>1. /\ fields' = [fields EXCEPT ![d] = v] /\ attr' = [attr EXCEPT ![d] = MODIFIED] /\ memory' = memory
    BY <1>2 DEF modify_int32_int32, parsed_field
  <2>2. attr'[d] = MODIFIED /\ fields'[d] = v /\ d \in WrittenBack' /\ WrittenBack \subseteq WrittenBack'
    BY <1>1, <1>2, <2>1 DEF WrittenBack
  <2>3. value'[d] = Truncate(v, Field[d].width) => CopyHolds(d)' /\ BytesHold(d)'
    BY <1>1, <2>2 DEF CopyHolds, BytesHold
  <2> QED BY <1>1, <1>2, <2>1, <2>2, <2>3
<1>3. CASE d \notin Parsed
  <2>1. /\ SetMem(d, MODIFY_INT32_INT32_AUTO(Mem(d), Desc(d), v)) /\ fields' = fields /\ attr' = attr /\ Present(d)
    BY <1>3 DEF modify_int32_int32, parsed_field
  <2>2. \A i \in v : i \in Nat
    BY DEF Bit
  <2>3. WroteField(d, Order(d), v)
    BY <2>1, <2>2, WriteWord
  <2>4. Bytes(d)' = Truncate(v, Field[d].width)
    <3>1. Readable(d)
      BY DEF Readable
    <3> QED BY <2>1, <2>3, <3>1, WriteStep
  <2>5. WrittenBack \subseteq WrittenBack'
    BY <1>1, <2>1 DEF WrittenBack
  <2>6. value'[d] = Truncate(v, Field[d].width) => CopyHolds(d)' /\ BytesHold(d)'
    BY <1>1, <1>3, <2>4 DEF CopyHolds, BytesHold
  <2> QED BY <1>1, <2>1, <2>3, <2>5, <2>6
<1> QED BY <1>2, <1>3

\* What is used of a call's fields is of a header that the packet has.
LEMMA CallUses ==
  ASSUME ProgramInv, ctl.at = "calls", Safe
  PROVE  \A f \in CallBytes(Call) : Present(f)
BY DEF Safe, BytesUsed, AtTable, AtCondition

\* After a call comes another one, a node or update_packet.
LEMMA CallPlace ==
  ASSUME ProgramInv, PlaceInv, ctl.at = "calls", CallDone, program' = program
  PROVE  ctl'.at \in {"node", "update", "calls"} /\ Inside
BY CallStep DEF Inside

\* What is cut is not cut again.
LEMMA TruncateTwice == \A v, w : Truncate(Truncate(v, w), w) = Truncate(v, w)
BY DEF Truncate

\* A value that is set is cut to the width of the field.
LEMMA ValueIs ==
  ASSUME NEW d \in DOMAIN value, NEW u, SetValue(d, u)
  PROVE  value'[d] = Truncate(u, Field[d].width)
BY DEF SetValue

\* modify_field with a constant.
LEMMA ConstValues ==
  ASSUME ProgramInv, PlaceInv, MemoryInv, ValuesInv, Marks, modify_const
  PROVE  MemoryInv' /\ ValuesInv'
<1>1. PICK d, v : d = Call.dst /\ v = Call.value
  OBVIOUS
<1>2. /\ ctl.at = "calls" /\ Call.op = "const" /\ Safe /\ modify_int32_int32(d, v) /\ SetValue(d, v)
      /\ tainted' = tainted \ {d} /\ CallDone /\ program' = program /\ pointer' = pointer /\ direct' = direct
  BY <1>1 DEF modify_const, Calling
<1>3. d \in DOMAIN Field /\ InWord(Field[d]) /\ v \subseteq Bit
  BY <1>1, <1>2, CallNames
<1>4. d \in Parsed \/ Present(d)
  BY <1>1, <1>2, CallUses DEF CallBytes
<1>5. /\ fields' \in [Parsed -> SUBSET Bit] /\ \A f \in Parsed : f # d => fields'[f] = fields[f]
      /\ WrittenBack \subseteq WrittenBack'
      /\ memory' = memory \/ (Present(d) /\ \E order, x : WroteField(d, order, x))
      /\ value'[d] = Truncate(v, Field[d].width) => CopyHolds(d)' /\ BytesHold(d)'
  BY <1>2, <1>3, <1>4, ModifyInt32
<1>6. d \in DOMAIN value => CopyHolds(d)' /\ BytesHold(d)'
  BY <1>2, <1>5, ValueIs
<1>7. ctl'.at \in {"node", "update", "calls"} /\ Inside
  BY <1>2, CallPlace
<1> QED BY <1>2, <1>3, <1>5, <1>6, <1>7, CallValues

-----------------------------------------------------------------------------
(* What the primitive actions leave true.                                  *)

\* An array cut to the length of a field, as ParamBytes and copy_bytes do.
Cut(src, fd) == IF Len(src) < fd.bytewidth THEN src ELSE Trailing(src, fd.bytewidth)

\* Bytes that are too many lose the first ones, so that the field gets the same
\* value.
LEMMA CutBytes ==
  ASSUME NEW F, NEW p, NEW mem, Lies(F, p, mem), is_field_byte_aligned(F), NEW fd, fd = field_desc(F, p),
         NEW src, src \in Seq(Byte)
  PROVE  /\ Cut(src, fd) \in Seq(Byte) /\ Len(Cut(src, fd)) <= fd.bytewidth
         /\ Truncate(BigEndian(Cut(src, fd)), F.width) = Truncate(BigEndian(src), F.width)
         /\ Len(src) = fd.bytewidth => Cut(src, fd) = src
<1>1. PICK n, N : n = fd.bytewidth /\ N = Len(src) /\ N \in Nat
  BY LenProperties
<1>2. n \in Nat \ {0} /\ F.width = 8 * n
  BY <1>1, AlignedFacts
<1>3. CASE N < n
  BY <1>1, <1>2, <1>3 DEF Cut
<1>4. CASE ~(N < n)
  <2>1. n <= N /\ n \in Nat
    BY <1>1, <1>2, <1>4
  <2>2. /\ Trailing(src, n) \in Seq(Byte) /\ Len(Trailing(src, n)) = n
        /\ BigEndian(Trailing(src, n)) = Truncate(BigEndian(src), 8 * n)
    BY <1>1, <2>1, TrailingBytes
  <2>3. Cut(src, fd) = Trailing(src, n)
    BY <1>1, <1>4 DEF Cut
  <2>4. N = n => Trailing(src, n) = src
    <3>1. ASSUME N = n PROVE SubSeq(src, 1, N) = src
      BY <1>1, SMT
    <3>2. N = n => N - n + 1 = 1
      BY <1>1, <1>2
    <3> QED BY <1>1, <3>1, <3>2 DEF Trailing
  <2>5. Truncate(BigEndian(Cut(src, fd)), F.width) = Truncate(BigEndian(src), F.width)
    BY <1>2, <2>2, <2>3, TruncateTwice
  <2>6. Len(Cut(src, fd)) <= n
    BY <1>2, <2>2, <2>3
  <2> QED BY <1>1, <2>2, <2>3, <2>4, <2>5, <2>6
<1> QED BY <1>3, <1>4

\* Only the bits of a value that fit into the field are written.
LEMMA WroteTruncated ==
  ASSUME NEW new, NEW mem, NEW F, NEW p, NEW order, NEW v, NEW u, Wrote(new, mem, F, p, order, v),
         Truncate(v, F.width) = Truncate(u, F.width)
  PROVE  Wrote(new, mem, F, p, order, u)
BY DEF Wrote

\* A parameter has as many bytes as its action says.
LEMMA ParamFacts ==
  ASSUME ProgramInv, PlaceInv, Calling("param")
  PROVE  /\ Call.width \in Nat /\ Param \in Seq(Byte) /\ Len(Param) = (Call.width + 7) \div 8
         /\ ByBytes(Call.dst, Call.width) /\ IsMeta(Call.dst) =>
              Field[Call.dst].width = Call.width
         /\ ~ByBytes(Call.dst, Call.width) => InWord(Field[Call.dst])
<1>1. CallIsSound(program, Call) /\ ctl.at = "calls" /\ Call.op = "param"
  BY CallFacts DEF Calling
<1>2. PICK a \in DOMAIN program.action :
        Call \in ToSet(program.action[a]) /\ ParamsAreSound(program, a, ctl.params)
  BY <1>1, CallFacts
<1>3. /\ Call.width \in Nat /\ Call.dst \in DOMAIN Field /\ IsNamed(Field[Call.dst])
      /\ \/ Field[Call.dst].width <= 32
         \/ is_field_byte_aligned(Field[Call.dst]) /\ Call.width % 8 = 0
      /\ is_field_byte_aligned(Field[Call.dst]) /\ Call.width % 8 = 0 =>
           Field[Call.dst].width = Call.width \/ ~Field[Call.dst].meta
  BY <1>1 DEF CallIsSound, Field
<1>4. Param \in Seq(Byte) /\ Len(Param) = (Call.width + 7) \div 8
  BY <1>1, <1>2 DEF ParamsAreSound, Param
<1>5. Field[Call.dst].width \in Nat
  BY <1>3, Layout
<1> QED BY <1>3, <1>4, <1>5 DEF ByBytes, IsMeta, IsNamed, InWord

\* The field gets the value the controller means.
LEMMA ParamIsWritten ==
  ASSUME ProgramInv, PlaceInv, MemoryInv, modify_param, NEW d, d = Call.dst
  PROVE  /\ d \in DOMAIN Field /\ Present(d) /\ Readable(d)
         /\ WroteField(d, Order(d), ParamValue(Call))
<1>1. /\ Calling("param") /\ Safe /\ ctl.at = "calls" /\ Call.op = "param"
      /\ IF ByBytes(d, Call.width)
         THEN SetMem(d, MODIFY_BYTEBUF_BYTEBUF(Mem(d), Desc(d), ParamBytes(Call)))
         ELSE SetMem(d, MODIFY_INT32_BYTEBUF(Mem(d), Desc(d), Param))
  BY DEF modify_param, Calling
<1>2. d \in DOMAIN Field /\ IsNamed(Field[d])
  BY <1>1, CallNames
<1>3. Present(d)
  BY <1>1, CallUses DEF CallBytes
<1>4. Readable(d)
  BY <1>2 DEF Readable, IsNamed, Short, IsMeta
<1>5. /\ Call.width \in Nat /\ Param \in Seq(Byte) /\ Len(Param) = (Call.width + 7) \div 8
      /\ ByBytes(d, Call.width) /\ IsMeta(d) => Field[d].width = Call.width
      /\ ~ByBytes(d, Call.width) => InWord(Field[d])
  BY <1>1, ParamFacts
<1>6. CASE ByBytes(d, Call.width)
  <2>1. Lies(Field[d], Base(d), Mem(d)) /\ is_field_byte_aligned(Field[d]) /\ Call.width % 8 = 0
    BY <1>2, <1>3, <1>6, PresentLies DEF Base, ByBytes
  <2>2. PICK fd : fd = Desc(d) /\ fd = field_desc(Field[d], Base(d))
    BY DEF Desc, Base
  <2>3. PICK src : src = ParamBytes(Call) /\ src = Cut(Param, fd)
    BY <2>2 DEF ParamBytes, Cut
  <2>4. PICK new : new = MODIFY_BYTEBUF_BYTEBUF(Mem(d), fd, src)
    OBVIOUS
  <2>5. memory' = [memory EXCEPT ![Region(d)] = new]
    BY <1>1, <1>6, <2>2, <2>3, <2>4 DEF SetMem
  <2>6. /\ src \in Seq(Byte) /\ Len(src) <= fd.bytewidth
        /\ Truncate(BigEndian(src), Field[d].width) = Truncate(BigEndian(Param), Field[d].width)
        /\ Len(Param) = fd.bytewidth => src = Param
    BY <1>5, <2>1, <2>2, <2>3, CutBytes
  <2>7. /\ Wrote(new, Mem(d), Field[d], Base(d), "net", BigEndian(src))
        /\ Len(src) = fd.bytewidth /\ Len(src) <= 4 => Wrote(new, Mem(d), Field[d], Base(d), "host", LittleEndian(src))
    BY <2>1, <2>2, <2>4, <2>6, BytesWrite
  <2>8. CASE ~IsMeta(d)
    <3>1. Order(d) = "net" /\ ParamValue(Call) = BigEndian(Param)
      BY <1>6, <2>8 DEF Order, ParamValue
    <3>2. Wrote(new, Mem(d), Field[d], Base(d), "net", BigEndian(Param))
      BY <2>6, <2>7, WroteTruncated
    <3> QED BY <1>2, <1>3, <1>4, <2>5, <3>1, <3>2 DEF WroteField
  <2>9. CASE IsMeta(d)
    <3>1. Field[d].width = Call.width /\ Field[d].width <= 32
      BY <1>2, <1>5, <1>6, <2>9 DEF IsNamed, InWord, IsMeta
    <3>2. fd.bytewidth = (Field[d].width + 7) \div 8
      BY <2>2 DEF field_desc
    <3>3. Len(Param) = fd.bytewidth /\ Len(Param) <= 4
      <4>1. PICK w \in Nat : w = Call.width
        BY <1>5
      <4>2. (w + 7) \div 8 <= 4
        BY <3>1, <4>1
      <4> QED BY <1>5, <3>1, <3>2, <4>1, <4>2
    <3>4. Order(d) = "host" /\ ParamValue(Call) = LittleEndian(Param)
      BY <2>9, <3>1 DEF Order, ParamValue, Short
    <3>5. Wrote(new, Mem(d), Field[d], Base(d), "host", LittleEndian(Param))
      BY <2>6, <2>7, <3>3
    <3> QED BY <1>2, <1>3, <1>4, <2>5, <3>4, <3>5 DEF WroteField
  <2> QED BY <2>8, <2>9
<1>7. CASE ~ByBytes(d, Call.width)
  <2>1. InWord(Field[d]) /\ \A i \in LittleEndian(Param) : i \in Nat
    BY <1>5, <1>7, EndianBits
  <2>2. SetMem(d, MODIFY_INT32_INT32_AUTO(Mem(d), Desc(d), LittleEndian(Param)))
    BY <1>1, <1>7 DEF MODIFY_INT32_BYTEBUF
  <2>3. WroteField(d, Order(d), LittleEndian(Param))
    BY <1>2, <1>3, <2>1, <2>2, WriteWord
  <2>4. ParamValue(Call) = LittleEndian(Param)
    BY <1>7 DEF ParamValue
  <2> QED BY <1>2, <1>3, <1>4, <2>3, <2>4
<1> QED BY <1>6, <1>7

\* modify_field with a parameter.
LEMMA ParamValues ==
  ASSUME ProgramInv, PlaceInv, MemoryInv, ValuesInv, Marks, modify_param
  PROVE  MemoryInv' /\ ValuesInv'
<1>1. PICK d, v : d = Call.dst /\ v = ParamValue(Call)
  OBVIOUS
<1>2. /\ ctl.at = "calls" /\ SetValue(d, v) /\ direct' = direct \union {d} /\ fields' = fields /\ attr' = attr
      /\ tainted' = tainted \ {d} /\ CallDone /\ program' = program /\ pointer' = pointer
  BY <1>1 DEF modify_param, Calling
<1>3. d \in DOMAIN Field /\ Present(d) /\ Readable(d) /\ WroteField(d, Order(d), v)
  BY <1>1, ParamIsWritten
<1>4. Bytes(d)' = Truncate(v, Field[d].width)
  BY <1>2, <1>3, WriteStep
<1>5. d \in DOMAIN value => CopyHolds(d)' /\ BytesHold(d)'
  <2>1. d \in DOMAIN value => value'[d] = Truncate(v, Field[d].width)
    BY <1>2, ValueIs
  <2>2. d \in direct'
    BY <1>2
  <2> QED BY <1>4, <2>1, <2>2 DEF CopyHolds, BytesHold
<1>6. ctl'.at \in {"node", "update", "calls"} /\ Inside
  BY <1>2, CallPlace
<1>7. WrittenBack' = WrittenBack /\ Parsed' = Parsed
  BY <1>2 DEF WrittenBack, Parsed
<1>8. fields' \in [Parsed -> SUBSET Bit] /\ \A f \in Parsed : f # d => fields'[f] = fields[f]
  BY <1>2 DEF ValuesInv
<1>9. Present(d) /\ \E order, x : WroteField(d, order, x)
  BY <1>3
<1>10. /\ direct \subseteq direct' /\ tainted \ {d} \subseteq tainted' /\ WrittenBack \subseteq WrittenBack'
       /\ d \in DOMAIN value /\ d \notin tainted' => CopyHolds(d)' /\ BytesHold(d)'
  BY <1>2, <1>5, <1>7
<1> QED BY <1>2, <1>3, <1>6, <1>8, <1>9, <1>10, CallValues

\* A copy between fields of one kind, if both lie alike.
LEMMA CopyIsWritten ==
  ASSUME ProgramInv, PlaceInv, MemoryInv, copy_bytes, NEW d, d = Call.dst, NEW s, s = Call.src
  PROVE  /\ d \in DOMAIN Field /\ Present(d) /\ Readable(d) /\ s \in DOMAIN Field /\ Present(s)
         /\ \/ WroteField(d, Order(d), Bytes(s))
            \/ /\ \E v : WroteField(d, "host", v)
               /\ Short(s) /\ Short(d) /\ ~IsMeta(s) /\ ~Alike(s, d)
<1>1. PICK bytes : bytes = EXTRACT_BYTEBUF(Mem(s), Desc(s))
  OBVIOUS
<1>2. PICK fd : fd = Desc(d) /\ fd = field_desc(Field[d], Base(d))
  BY DEF Desc, Base
<1>3. PICK fs : fs = Desc(s) /\ fs = field_desc(Field[s], Base(s))
  BY DEF Desc, Base
<1>4. PICK new : new = IF Short(s) /\ Short(d) THEN MODIFY_INT32_INT32_BITS(Mem(d), fd, EXTRACT_INT32_BITS(Mem(s), fs))
                       ELSE MODIFY_BYTEBUF_BYTEBUF(Mem(d), fd, Cut(bytes, fd))
  OBVIOUS
<1>5. /\ ctl.at = "calls" /\ Call.op = "field" /\ Safe /\ IsMeta(s) = IsMeta(d) /\ SameKind(Call)
      /\ memory' = [memory EXCEPT ![Region(d)] = new]
  BY <1>1, <1>2, <1>3, <1>4 DEF copy_bytes, Calling, SameKind, SetMem, Cut
<1>6. /\ d \in DOMAIN Field /\ IsNamed(Field[d]) /\ s \in DOMAIN Field /\ IsNamed(Field[s])
  BY <1>5, CallNames
<1>7. Present(d) /\ Present(s)
  BY <1>5, CallUses DEF CallBytes
<1>8. Readable(d) /\ Readable(s)
  BY <1>6 DEF Readable, IsNamed, Short, IsMeta
<1>9. Lies(Field[d], Base(d), Mem(d)) /\ Lies(Field[s], Base(s), Mem(s))
  BY <1>6, <1>7, PresentLies DEF Base
<1>10. IsMeta(d) \in BOOLEAN /\ IsMeta(s) \in BOOLEAN
  BY <1>6, Layout DEF IsMeta
<1>11. Bytes(s) = ReadAs(Mem(s), Field[s], Base(s), Order(s))
  BY <1>6, <1>7, <1>8, BytesAreRead
<1>12. CASE Short(s) /\ Short(d)
  <2>1. InWord(Field[d]) /\ InWord(Field[s])
    <3>1. Field[d].width \in Nat /\ Field[s].width \in Nat /\ Field[d].width <= 32 /\ Field[s].width <= 32
      BY <1>6, <1>12, Layout DEF Short
    <3> QED BY <1>6, <3>1 DEF IsNamed
  <2>2. PICK v : v = EXTRACT_INT32_BITS(Mem(s), fs) /\ v = ReadAs(Mem(s), Field[s], Base(s), "host")
    BY <1>3, <1>9, <2>1, HostRead
  <2>3. \A i \in v : i \in Nat
    <3>1. Field[s].width \in Nat
      BY <1>6, Layout
    <3> QED BY <2>2, <3>1 DEF ReadAs
  <2>4. new = MODIFY_INT32_INT32_BITS(Mem(d), fd, v)
    BY <1>4, <1>12, <2>2
  <2>5. Wrote(new, Mem(d), Field[d], Base(d), "host", v)
    BY <1>2, <1>9, <2>1, <2>3, <2>4, HostWrite
  <2>6. WroteField(d, "host", v)
    BY <1>5, <2>5 DEF WroteField
  <2>7. CASE IsMeta(s)
    <3>1. Order(d) = "host" /\ Order(s) = "host"
      BY <1>5, <1>12, <2>7 DEF Order
    <3> QED BY <1>6, <1>7, <1>8, <1>11, <2>2, <2>6, <3>1
  <2>8. CASE ~IsMeta(s) /\ Alike(s, d)
    <3>1. Order(d) = "net" /\ Order(s) = "net"
      BY <1>5, <2>8 DEF Order
    <3>2. /\ Field[d].offset \in Nat /\ Field[d].width \in Nat \ {0}
          /\ Field[s].offset \in Nat /\ Field[s].width \in Nat \ {0}
      BY <1>6, Layout
    <3>3. \/ Field[s].offset % 8 = Field[d].offset % 8 /\ Field[s].width = Field[d].width
          \/ (Field[s].offset % 8) + Field[s].width <= 8 /\ (Field[d].offset % 8) + Field[d].width <= 8
      BY <2>8 DEF Alike
    <3>4. ReadAs(new, Field[d], Base(d), "host") = Truncate(ReadAs(Mem(s), Field[s], Base(s), "host"), Field[d].width)
      BY <2>2, <2>5 DEF Wrote
    <3>5. ReadAs(new, Field[d], Base(d), "net") = Truncate(ReadAs(Mem(s), Field[s], Base(s), "net"), Field[d].width)
      BY <2>1, <3>2, <3>3, <3>4, AlikeValues
    <3>6. Wrote(new, Mem(d), Field[d], Base(d), "net", Bytes(s))
      BY <1>11, <2>5, <3>1, <3>5 DEF Wrote
    <3>7. WroteField(d, Order(d), Bytes(s))
      BY <1>5, <3>1, <3>6 DEF WroteField
    <3> QED BY <1>6, <1>7, <1>8, <3>7
  <2>9. CASE ~IsMeta(s) /\ ~Alike(s, d)
    BY <1>6, <1>7, <1>8, <1>12, <2>6, <2>9
  <2> QED BY <2>7, <2>8, <2>9
<1>13. CASE ~(Short(s) /\ Short(d))
  <2>1. is_field_byte_aligned(Field[s]) /\ is_field_byte_aligned(Field[d])
    <3>1. CallIsSound(program, Call)
      BY <1>5, CallFacts
    <3> QED BY <1>5, <1>13, <3>1 DEF CallIsSound, Short, Field
  <2>2. ~IsMeta(s) /\ ~IsMeta(d)
    <3>1. \A f \in {s, d} : ~Short(f) => ~IsMeta(f)
      BY <1>6 DEF IsNamed, InWord, Short, IsMeta
    <3> QED BY <1>5, <1>10, <1>13, <3>1
  <2>3. bytes \in Seq(Byte) /\ BigEndian(bytes) = Bytes(s)
    <3>1. Order(s) = "net"
      BY <2>2 DEF Order
    <3> QED BY <1>1, <1>3, <1>9, <1>11, <2>1, <3>1, BytesRead
  <2>4. PICK src : src = Cut(bytes, fd)
    OBVIOUS
  <2>5. /\ src \in Seq(Byte) /\ Len(src) <= fd.bytewidth
        /\ Truncate(BigEndian(src), Field[d].width) = Truncate(BigEndian(bytes), Field[d].width)
    <3>1. Lies(Field[d], Base(d), Mem(d)) /\ is_field_byte_aligned(Field[d]) /\ bytes \in Seq(Byte)
      BY <1>9, <2>1, <2>3
    <3>2. fd = field_desc(Field[d], Base(d))
      BY <1>2
    <3>3. /\ Cut(bytes, fd) \in Seq(Byte) /\ Len(Cut(bytes, fd)) <= fd.bytewidth
          /\ Truncate(BigEndian(Cut(bytes, fd)), Field[d].width) = Truncate(BigEndian(bytes), Field[d].width)
      BY <3>1, <3>2, CutBytes
    <3> QED BY <2>4, <3>3
  <2>6. new = MODIFY_BYTEBUF_BYTEBUF(Mem(d), fd, src)
    BY <1>4, <1>13, <2>4
  <2>7. Wrote(new, Mem(d), Field[d], Base(d), "net", BigEndian(src))
    BY <1>2, <1>9, <2>1, <2>5, <2>6, BytesWrite
  <2>8. Wrote(new, Mem(d), Field[d], Base(d), "net", Bytes(s))
    BY <2>3, <2>5, <2>7, WroteTruncated
  <2>9. WroteField(d, Order(d), Bytes(s))
    BY <1>5, <2>2, <2>8 DEF WroteField, Order
  <2> QED BY <1>6, <1>7, <1>8, <2>9
<1> QED BY <1>12, <1>13

\* modify_field between two fields of headers, or of metadata.
LEMMA CopyBytesValues ==
  ASSUME ProgramInv, PlaceInv, MemoryInv, ValuesInv, Marks, copy_bytes
  PROVE  MemoryInv' /\ ValuesInv'
<1>1. PICK d, s : d = Call.dst /\ s = Call.src
  OBVIOUS
<1>2. /\ ctl.at = "calls" /\ SetValue(d, Says(s)) /\ direct' = direct \union {d} /\ fields' = fields /\ attr' = attr
      /\ CallDone /\ program' = program /\ pointer' = pointer
      /\ \/ tainted' = tainted \union {d}
         \/ /\ tainted' = tainted \ {d} /\ s \notin tainted /\ s \notin WrittenBack
            /\ ~(Short(s) /\ Short(d) /\ ~IsMeta(s) /\ ~Alike(s, d))
  BY <1>1 DEF copy_bytes, Calling
<1>3. /\ d \in DOMAIN Field /\ Present(d) /\ Readable(d) /\ s \in DOMAIN Field /\ Present(s)
      /\ \/ WroteField(d, Order(d), Bytes(s))
         \/ /\ \E v : WroteField(d, "host", v)
            /\ Short(s) /\ Short(d) /\ ~IsMeta(s) /\ ~Alike(s, d)
  BY <1>1, CopyIsWritten
<1>4. Present(d) /\ \E order, v : WroteField(d, order, v)
  BY <1>3
<1>5. ctl'.at \in {"node", "update", "calls"} /\ Inside
  BY <1>2, CallPlace
<1>6. WrittenBack' = WrittenBack /\ Parsed' = Parsed
  BY <1>2 DEF WrittenBack, Parsed
<1>7. fields' \in [Parsed -> SUBSET Bit] /\ \A f \in Parsed : f # d => fields'[f] = fields[f]
  BY <1>2 DEF ValuesInv
<1>8. ASSUME d \in DOMAIN value, d \notin tainted' PROVE CopyHolds(d)' /\ BytesHold(d)'
  <2>1. s \notin tainted /\ s \notin WrittenBack /\ WroteField(d, Order(d), Bytes(s))
    BY <1>2, <1>3, <1>8
  <2>2. s \in DOMAIN value
    BY <1>3, <1>5 DEF ValuesInv
  <2>3. Says(s) = Bytes(s)
    BY <1>5, <2>1, <2>2 DEF ValuesInv, BytesHold, Says
  <2>4. value'[d] = Truncate(Bytes(s), Field[d].width)
    BY <1>2, <1>8, <2>3, ValueIs
  <2>5. Bytes(d)' = Truncate(Bytes(s), Field[d].width)
    BY <1>2, <1>3, <2>1, WriteStep
  <2>6. d \in direct'
    BY <1>2
  <2> QED BY <2>4, <2>5, <2>6 DEF CopyHolds, BytesHold
<1>9. direct \subseteq direct' /\ tainted \ {d} \subseteq tainted' /\ WrittenBack \subseteq WrittenBack'
  BY <1>2, <1>6
<1> QED BY <1>2, <1>3, <1>4, <1>5, <1>7, <1>8, <1>9, CallValues

\* A field that is used as an integer is its copy, if it has one.
LEMMA Int32Is ==
  ASSUME ProgramInv, MemoryInv, ValuesInv, NEW f \in DOMAIN Field, InWord(Field[f]), f \in Parsed \/ Present(f)
  PROVE  /\ int32(f) \subseteq Bit
         /\ f \in Parsed => int32(f) = fields[f]
         /\ f \notin Parsed => int32(f) = Bytes(f)
<1>1. CASE f \in Parsed
  BY <1>1 DEF int32, parsed_field, ValuesInv
<1>2. CASE f \notin Parsed
  BY <1>2, ReadWord DEF int32, parsed_field
<1> QED BY <1>1, <1>2

\* A field that is not in doubt, as it is read where it is used.
LEMMA ValueIsHeld ==
  ASSUME ValuesInv, Inside, NEW f \in DOMAIN Field, Present(f), f \notin tainted
  PROVE  /\ f \in DOMAIN value /\ Says(f) = value[f]
         /\ f \notin Parsed => Says(f) = Bytes(f)
         /\ f \in Parsed \ direct => Says(f) = Truncate(fields[f], Field[f].width)
<1>1. f \in DOMAIN value /\ CopyHolds(f) /\ BytesHold(f)
  BY DEF ValuesInv
<1> QED BY <1>1 DEF CopyHolds, BytesHold, Says, WrittenBack

\* Between a header and metadata, the one of the header has a copy.
LEMMA IntNames ==
  ASSUME ProgramInv, PlaceInv, Calling("field"), ~SameKind(Call), NEW d, d = Call.dst, NEW s, s = Call.src
  PROVE  /\ ctl.at = "calls" /\ d \in DOMAIN Field /\ InWord(Field[d]) /\ s \in DOMAIN Field /\ InWord(Field[s]) /\ d # s
         /\ \/ d \in Parsed /\ s \notin Parsed
            \/ d \notin Parsed /\ s \in Parsed /\ Order(d) = "host"
<1>1. CallIsSound(program, Call) /\ ctl.at = "calls" /\ Call.op = "field"
  BY CallFacts DEF Calling
<1>2. /\ d \in DOMAIN Field /\ IsNamed(Field[d]) /\ s \in DOMAIN Field /\ IsNamed(Field[s])
      /\ ~IsMeta(d) /\ Short(d) => d \in Parsed
      /\ ~IsMeta(s) /\ Short(s) => s \in Parsed
  BY <1>1, CallNames
<1>3. IsMeta(d) \in BOOLEAN /\ IsMeta(s) \in BOOLEAN /\ Field[d].width \in Nat /\ Field[s].width \in Nat
  BY <1>2, Layout DEF IsMeta
<1>4. (IsMeta(s) /\ ~IsMeta(d)) \/ (~IsMeta(s) /\ IsMeta(d))
  BY <1>1, <1>3 DEF SameKind
<1>5. Field[d].width <= 32 /\ Field[s].width <= 32
  BY <1>1, <1>4 DEF CallIsSound, Field, IsMeta
<1>6. InWord(Field[d]) /\ InWord(Field[s])
  BY <1>2, <1>3, <1>5 DEF IsNamed
<1>7. \A f \in Parsed : ~IsMeta(f)
  BY ParsedFacts
<1> QED BY <1>1, <1>2, <1>4, <1>5, <1>6, <1>7 DEF Short, Order

\* modify_field between a header and metadata.
LEMMA CopyInt32Values ==
  ASSUME ProgramInv, PlaceInv, MemoryInv, ValuesInv, Marks, copy_int32
  PROVE  MemoryInv' /\ ValuesInv'
<1>1. PICK d, s : d = Call.dst /\ s = Call.src
  OBVIOUS
<1>2. /\ Calling("field") /\ ~SameKind(Call) /\ Safe /\ SetValue(d, Says(s)) /\ CallDone
      /\ program' = program /\ pointer' = pointer /\ direct' = direct
      /\ \/ tainted' = tainted \union {d}
         \/ /\ tainted' = tainted \ {d} /\ s \notin tainted
            /\ s \in Parsed => Present(s) /\ s \notin direct /\ ~TooWide(s, d)
      /\ IF d \in Parsed THEN modify_int32_int32(d, int32(s))
         ELSE /\ SetMem(d, MODIFY_INT32_INT32_AUTO(Mem(d), Desc(d), int32(s)))
              /\ attr' = [attr EXCEPT ![s] = MODIFIED] /\ fields' = fields
  BY <1>1 DEF copy_int32, parsed_field
<1>3. /\ ctl.at = "calls" /\ d \in DOMAIN Field /\ InWord(Field[d]) /\ s \in DOMAIN Field /\ InWord(Field[s]) /\ d # s
      /\ \/ d \in Parsed /\ s \notin Parsed
         \/ d \notin Parsed /\ s \in Parsed /\ Order(d) = "host"
  BY <1>1, <1>2, IntNames
<1>4. (d \in Parsed \/ Present(d)) /\ (s \in Parsed \/ Present(s))
  <2>1. Call.op = "field"
    BY <1>2 DEF Calling
  <2>2. CallBytes(Call) = {s, d} \ Parsed
    BY <1>1, <1>2, <2>1 DEF CallBytes
  <2> QED BY <1>2, <1>3, <2>2, CallUses
<1>5. ctl'.at \in {"node", "update", "calls"} /\ Inside
  BY <1>2, <1>3, CallPlace
<1>6. PICK v : v = int32(s)
  OBVIOUS
<1>7. v \subseteq Bit /\ (s \in Parsed => v = fields[s]) /\ (s \notin Parsed => v = Bytes(s))
  BY <1>3, <1>4, <1>6, Int32Is
<1>8. /\ fields \in [Parsed -> SUBSET Bit] /\ attr \in [Parsed -> {0, MODIFIED}] /\ Parsed' = Parsed /\ Field' = Field
  BY <1>2 DEF ValuesInv, Marks, Parsed, Field
<1>9. d \in DOMAIN value => value'[d] = Truncate(Says(s), Field[d].width)
  BY <1>2, ValueIs
<1>10. /\ fields' \in [Parsed -> SUBSET Bit] /\ \A f \in Parsed : f # d => fields'[f] = fields[f]
       /\ WrittenBack \subseteq WrittenBack'
       /\ memory' = memory \/ (Present(d) /\ \E order, x : WroteField(d, order, x))
       /\ d \in DOMAIN value /\ d \notin tainted' => CopyHolds(d)' /\ BytesHold(d)'
  <2>1. CASE d \in Parsed
    <3>1. modify_int32_int32(d, v)
      BY <1>2, <1>6, <2>1
    <3>2. /\ fields' \in [Parsed -> SUBSET Bit] /\ \A f \in Parsed : f # d => fields'[f] = fields[f]
          /\ WrittenBack \subseteq WrittenBack'
          /\ memory' = memory \/ (Present(d) /\ \E order, x : WroteField(d, order, x))
          /\ value'[d] = Truncate(v, Field[d].width) => CopyHolds(d)' /\ BytesHold(d)'
      BY <1>2, <1>3, <1>7, <2>1, <3>1, ModifyInt32
    <3>3. ASSUME d \in DOMAIN value, d \notin tainted' PROVE value'[d] = Truncate(v, Field[d].width)
      <4>1. s \notin tainted /\ s \notin Parsed /\ Present(s)
        BY <1>2, <1>3, <1>4, <2>1, <3>3
      <4>2. Says(s) = Bytes(s)
        BY <1>3, <1>5, <4>1, ValueIsHeld
      <4> QED BY <1>7, <1>9, <3>3, <4>1, <4>2
    <3> QED BY <3>2, <3>3
  <2>2. CASE d \notin Parsed
    <3>1. /\ SetMem(d, MODIFY_INT32_INT32_AUTO(Mem(d), Desc(d), v)) /\ attr' = [attr EXCEPT ![s] = MODIFIED]
          /\ fields' = fields /\ s \in Parsed /\ Present(d) /\ Order(d) = "host"
      BY <1>2, <1>3, <1>4, <1>6, <2>2
    <3>2. \A i \in v : i \in Nat
      BY <1>7 DEF Bit
    <3>3. WroteField(d, Order(d), v)
      BY <1>3, <3>1, <3>2, WriteWord
    <3>4. Bytes(d)' = Truncate(v, Field[d].width)
      <4>1. Readable(d)
        BY <1>3 DEF Readable
      <4> QED BY <1>2, <1>3, <3>1, <3>3, <4>1, WriteStep
    <3>5. WrittenBack \subseteq WrittenBack'
      BY <1>8, <3>1 DEF WrittenBack
    <3>6. ASSUME d \in DOMAIN value, d \notin tainted' PROVE value'[d] = Truncate(v, Field[d].width)
      <4>1. s \notin tainted /\ Present(s) /\ s \in Parsed \ direct /\ ~TooWide(s, d)
        BY <1>2, <3>1, <3>6
      <4>2. Says(s) = Truncate(v, Field[s].width)
        BY <1>3, <1>5, <1>7, <4>1, ValueIsHeld
      <4>3. Truncate(v, Field[d].width) = Truncate(v, Field[s].width)
        BY <1>7, <4>1 DEF TooWide
      <4> QED BY <1>9, <3>6, <4>2, <4>3, TruncateTwice
    <3>7. value'[d] = Truncate(v, Field[d].width) => CopyHolds(d)' /\ BytesHold(d)'
      BY <1>8, <2>2, <3>4 DEF CopyHolds, BytesHold
    <3> QED BY <1>8, <3>1, <3>3, <3>5, <3>6, <3>7
  <2> QED BY <2>1, <2>2
<1>11. direct \subseteq direct' /\ tainted \ {d} \subseteq tainted'
  BY <1>2
<1> QED BY <1>2, <1>3, <1>5, <1>10, <1>11, CallValues

\* add_to_field.
LEMMA AddValues ==
  ASSUME ProgramInv, PlaceInv, MemoryInv, ValuesInv, Marks, add_to_field
  PROVE  MemoryInv' /\ ValuesInv'
<1>1. PICK d, c : d = Call.dst /\ c = Call.value
  OBVIOUS
<1>2. PICK v : v = Plus(c, int32(d))
  OBVIOUS
<1>3. /\ ctl.at = "calls" /\ Call.op = "add" /\ Safe /\ modify_int32_int32(d, v) /\ SetValue(d, Plus(c, Says(d)))
      /\ CallDone /\ program' = program /\ pointer' = pointer /\ direct' = direct /\ tainted' = tainted
  BY <1>1, <1>2 DEF add_to_field, Calling
<1>4. d \in DOMAIN Field /\ InWord(Field[d])
  BY <1>1, <1>3, CallNames
<1>5. d \in Parsed \/ Present(d)
  BY <1>1, <1>3, CallUses DEF CallBytes
<1>6. v \subseteq Bit
  BY <1>2 DEF Plus
<1>7. /\ fields' \in [Parsed -> SUBSET Bit] /\ \A f \in Parsed : f # d => fields'[f] = fields[f]
      /\ WrittenBack \subseteq WrittenBack'
      /\ memory' = memory \/ (Present(d) /\ \E order, x : WroteField(d, order, x))
      /\ value'[d] = Truncate(v, Field[d].width) => CopyHolds(d)' /\ BytesHold(d)'
  BY <1>3, <1>4, <1>5, <1>6, ModifyInt32
<1>8. ctl'.at \in {"node", "update", "calls"} /\ Inside
  BY <1>3, CallPlace
<1>9. Parsed' = Parsed /\ Field' = Field /\ attr \in [Parsed -> {0, MODIFIED}]
  BY <1>3 DEF Parsed, Field, Marks
<1>10. ASSUME d \in DOMAIN value, d \notin tainted PROVE CopyHolds(d)' /\ BytesHold(d)'
  <2>1. CASE d \in Parsed /\ d \in direct
    <3>1. attr' = [attr EXCEPT ![d] = MODIFIED]
      BY <1>3, <2>1 DEF modify_int32_int32, parsed_field
    <3>2. d \in WrittenBack' /\ d \in direct'
      BY <1>3, <1>9, <2>1, <3>1 DEF WrittenBack
    <3> QED BY <3>2 DEF CopyHolds, BytesHold
  <2>2. CASE ~(d \in Parsed /\ d \in direct)
    <3>1. Present(d)
      BY <1>8, <1>10 DEF ValuesInv
    <3>2. PICK x : x = int32(d)
      OBVIOUS
    <3>3. Truncate(x, Field[d].width) = Truncate(Says(d), Field[d].width)
      <4>1. CASE d \in Parsed
        <5>1. Says(d) = Truncate(fields[d], Field[d].width)
          BY <1>4, <1>8, <1>10, <2>2, <3>1, <4>1, ValueIsHeld
        <5>2. x = fields[d]
          BY <3>2, <4>1 DEF int32, parsed_field
        <5> QED BY <5>1, <5>2, TruncateTwice
      <4>2. CASE d \notin Parsed
        <5>1. Says(d) = Bytes(d)
          BY <1>4, <1>8, <1>10, <3>1, <4>2, ValueIsHeld
        <5>2. x = Bytes(d)
          BY <1>4, <3>1, <3>2, <4>2, Int32Is
        <5> QED BY <5>1, <5>2
      <4> QED BY <4>1, <4>2
    <3>4. Field[d].width \in Nat
      BY <1>4, Layout
    <3>5. Truncate(Plus(c, x), Field[d].width) = Truncate(Plus(c, Says(d)), Field[d].width)
      BY <3>3, <3>4, PlusTruncated
    <3>6. value'[d] = Truncate(Plus(c, Says(d)), Field[d].width)
      BY <1>3, <1>10, ValueIs
    <3> QED BY <1>2, <1>7, <3>2, <3>5, <3>6
  <2> QED BY <2>1, <2>2
<1>11. /\ direct \subseteq direct' /\ tainted \ {d} \subseteq tainted'
       /\ d \in DOMAIN value /\ d \notin tainted' => CopyHolds(d)' /\ BytesHold(d)'
  BY <1>3, <1>10
<1> QED BY <1>3, <1>4, <1>7, <1>8, <1>11, CallValues

-----------------------------------------------------------------------------
(* What the other steps leave true.                                        *)

\* A header of zeros.
LEMMA ReadZeros ==
  ASSUME NEW F, NEW p, NEW mem, Lies(F, p, mem), \A x \in DOMAIN mem : mem[x] = {},
         NEW order, order = "host" => InWord(F)
  PROVE  ReadAs(mem, F, p, order) = {}
<1>1. F.offset \in Nat /\ F.width \in Nat \ {0} /\ p \in Nat
      /\ \A x \in p + F.offset \div 8 .. p + (F.offset + F.width - 1) \div 8 : x \in DOMAIN mem
  BY DEF Lies
<1>2. ASSUME NEW j \in 0 .. F.width - 1 PROVE ~BitAt(mem, p, ValueBit(F, order, j))
  <2>1. ValueBit(F, order, j) \in F.offset .. F.offset + F.width - 1
    BY <1>1, ValueBitRange
  <2>2. PICK s \in F.offset .. F.offset + F.width - 1 : s = ValueBit(F, order, j)
    BY <2>1
  <2>3. p + s \div 8 \in p + F.offset \div 8 .. p + (F.offset + F.width - 1) \div 8
    BY <1>1
  <2>4. mem[p + s \div 8] = {}
    BY <1>1, <2>3
  <2> QED BY <2>2, <2>4 DEF BitAt
<1> QED BY <1>2 DEF ReadAs

\* A packet brings the port it came in at, and zeros in the metadata.
LEMMA ReceiveValues ==
  ASSUME ProgramInv, PlaceInv, MemoryInv, ValuesInv, NEW packet \in Packet[program.name], NEW port \in Port,
         packet_received(packet, port)
  PROVE  ValuesInv'
<1>1. /\ ctl.at = "idle" /\ pointer' = pointer /\ program' = program /\ fields' = fields
      /\ direct' = direct /\ tainted' = tainted
      /\ value' = [f \in UNION {FieldsOf(h) : h \in MetaHeaders} |-> IF f = IngressPort THEN port ELSE {}]
  BY DEF packet_received
<1>2. /\ ctl'.at = "parse"
      /\ IngressPort \in DOMAIN Field /\ IsMeta(IngressPort) /\ Readable(IngressPort)
      /\ Field[IngressPort].hdr = Metadata /\ Order(IngressPort) = "host"
      /\ Truncate(port, Field[IngressPort].width) = port
      /\ memory[Metadata] = Zeros(Metadata)
      /\ Wrote(memory'[Metadata], memory[Metadata], Field[IngressPort], Base(IngressPort), "host", port)
      /\ \A h \in MetaHeaders : h # Metadata => memory'[h] = Zeros(h)
  BY ReceiveMemory
<1>3. DOMAIN pointer = MetaHeaders /\ \A h \in MetaHeaders : memory[h] = Zeros(h)
  BY <1>1 DEF MemoryInv
<1>4. direct = {} /\ tainted = {} /\ fields \in [Parsed -> SUBSET Bit]
  BY <1>1 DEF ValuesInv
<1>5. /\ Field' = Field /\ Parsed' = Parsed /\ \A f : Present(f)' <=> Present(f)
      /\ \A f : Region(f)' = Region(f) /\ Base(f)' = Base(f) /\ Desc(f)' = Desc(f) /\ (IsMeta(f)' <=> IsMeta(f))
  BY <1>1 DEF Field, Parsed, Present, Region, Base, Desc, IsMeta
<1>6. DOMAIN value' = {f \in DOMAIN Field : Present(f)}
  BY <1>1, <1>3 DEF FieldsOf, Present
<1>7. ASSUME NEW f \in DOMAIN value' PROVE CopyHolds(f)' /\ BytesHold(f)'
  <2>1. f \in DOMAIN Field /\ Present(f) /\ Field[f].hdr \in MetaHeaders /\ IsMeta(f)
    BY <1>3, <1>6, <1>7, Layout DEF Present
  <2>2. f \notin Parsed
    BY <2>1, ParsedFacts
  <2>3. PICK h : h = Field[f].hdr /\ h \in MetaHeaders /\ Region(f) = h /\ Mem(f) = memory[h] /\ Mem(f)' = memory'[h]
    BY <1>5, <2>1 DEF Region, Mem
  <2>4. Bytes(f)' = Said(memory'[h], f)
    BY <1>5, <2>3 DEF Bytes, Said, Short
  <2>5. Lies(Field[f], Base(f), memory[h]) /\ memory[h] = Zeros(h)
    BY <1>3, <2>1, <2>3, PresentLies DEF Base
  <2>6. Bytes(f)' = value'[f]
    <3>1. CASE f = IngressPort
      <4>1. h = Metadata /\ value'[f] = port
        BY <1>1, <1>2, <1>7, <2>3, <3>1
      <4>2. ReadAs(memory'[h], Field[f], Base(f), Order(f)) = port /\ Readable(f)
            /\ SameBut(memory'[h], memory[h], BitsOf(Field[f], Base(f)))
        BY <1>2, <3>1, <4>1 DEF Wrote
      <4>3. Lies(Field[f], Base(f), memory'[h])
        BY <2>5, <4>2 DEF Lies, SameBut
      <4> QED BY <2>1, <2>4, <4>1, <4>2, <4>3, SaidIsRead
    <3>2. CASE f # IngressPort
      <4>0. value'[f] = {}
        BY <1>1, <1>7, <3>2
      <4>1. CASE ~Readable(f)
        BY <2>1, <2>4, <4>0, <4>1, NotReadable
      <4>2. CASE Readable(f)
        <5>1. Order(f) = "host" => InWord(Field[f])
          BY <4>2 DEF Order, Readable
        <5>2. \A x \in DOMAIN memory[h] : memory[h][x] = {}
          BY <2>5 DEF Zeros
        <5>3. ReadAs(memory[h], Field[f], Base(f), Order(f)) = {}
          BY <2>5, <5>1, <5>2, ReadZeros
        <5>4. CASE h # Metadata
          <6>1. memory'[h] = memory[h]
            BY <1>2, <2>3, <2>5, <5>4
          <6> QED BY <2>1, <2>4, <2>5, <4>0, <4>2, <5>3, <6>1, SaidIsRead
        <5>5. CASE h = Metadata
          <6>1. SameBut(memory'[h], memory[h], BitsOf(Field[IngressPort], Base(IngressPort)))
            BY <1>2, <5>5 DEF Wrote
          <6>2. Present(IngressPort) /\ Region(IngressPort) = Region(f)
            BY <1>2, <2>1, <2>3, <5>5 DEF Present, Region
          <6>3. BitsOf(Field[f], Base(f)) \intersect BitsOf(Field[IngressPort], Base(IngressPort)) = {}
            BY <1>2, <2>1, <3>2, <6>2, FieldsApart DEF Base
          <6>4. ReadAs(memory'[h], Field[f], Base(f), Order(f)) = {}
            BY <2>5, <5>1, <5>3, <6>1, <6>3, ReadOther
          <6>5. Lies(Field[f], Base(f), memory'[h])
            BY <2>5, <6>1 DEF Lies, SameBut
          <6> QED BY <2>1, <2>4, <4>0, <4>2, <6>4, <6>5, SaidIsRead
        <5> QED BY <5>4, <5>5
      <4> QED BY <4>1, <4>2
    <3> QED BY <3>1, <3>2
  <2> QED BY <1>5, <2>2, <2>6 DEF CopyHolds, BytesHold
<1> QED BY <1>1, <1>2, <1>4, <1>5, <1>6, <1>7 DEF ValuesInv

\* The header that is to be extracted is in the packet.
LEMMA ExtractedLies ==
  ASSUME ProgramInv, PlaceInv, MemoryInv, ctl.at = "parse", NEW f \in FieldsOf(ToParse.extract)
  PROVE  /\ Lies(Field[f], ctl.buf, memory["packet"]) /\ ~IsMeta(f)
         /\ f \in DOMAIN Field /\ Field[f].hdr = ToParse.extract
<1>1. f \in DOMAIN Field /\ Field[f].hdr = ToParse.extract
  BY DEF FieldsOf
<1>2. PICK b \in Nat : b = ctl.buf
  BY ExtractFacts
<1>3. PICK h, len : h = ToParse.extract /\ len = program.length[h] /\ h \in Headers \ MetaHeaders /\ len \in Nat
  BY ExtractFacts
<1>4. ctl.name \in DOMAIN program.parse
  BY ExtractFacts
<1>5. PICK size \in Nat :
        /\ memory["packet"] \in [0 .. size - 1 -> Byte]
        /\ \E upto : Way(upto, size) /\ RoomLeft(upto)
  BY DEF MemoryInv, Parsing
<1>6. PICK upto : Way(upto, size) /\ RoomLeft(upto)
  BY <1>5
<1>7. b + len <= upto[ctl.name] /\ upto[ctl.name] \in 0 .. size
  BY <1>2, <1>3, <1>4, <1>6 DEF Way, RoomLeft
<1>8. b + len <= size
  BY <1>2, <1>3, <1>5, <1>7
<1>9. PICK o \in Nat, w \in Nat \ {0} : o = Field[f].offset /\ w = Field[f].width /\ o + w <= 8 * len
  BY <1>1, <1>3, Layout
<1>10. \A x \in b + o \div 8 .. b + (o + w - 1) \div 8 : x \in 0 .. size - 1
  <2>1. PICK l \in Nat : l = len
    BY <1>3
  <2>2. o + w <= 8 * l /\ b + l <= size
    BY <1>8, <1>9, <2>1
  <2>3. o \div 8 \in Nat /\ (o + w - 1) \div 8 \in Nat /\ (o + w - 1) \div 8 <= l - 1
    BY <2>2
  <2> QED BY <2>2, <2>3
<1>11. ~IsMeta(f)
  BY <1>1, <1>3, Layout
<1> QED BY <1>1, <1>2, <1>5, <1>9, <1>10, <1>11 DEF Lies

\* An extracted header has the values of its bytes, in the copies too.
LEMMA ExtractValues ==
  ASSUME ProgramInv, PlaceInv, MemoryInv, ValuesInv, Marks, extract_header
  PROVE  ValuesInv'
<1>1. PICK h, b, mem : h = ToParse.extract /\ b = ctl.buf /\ mem = memory["packet"]
  OBVIOUS
<1>2. /\ ctl.at = "parse" /\ program' = program /\ memory' = memory /\ direct' = direct /\ tainted' = tainted
      /\ pointer' = Override(pointer, [x \in {h} |-> b])
      /\ fields' = [f \in Parsed |-> IF f \in FieldsOf(h) \intersect Parsed
                      THEN EXTRACT_INT32_AUTO(mem, field_desc(Field[f], b)) ELSE fields[f]]
      /\ attr' = [f \in Parsed |-> IF f \in FieldsOf(h) \intersect Parsed THEN 0 ELSE attr[f]]
      /\ value' = Override(value, [f \in FieldsOf(h) |-> P4Value(mem, Field[f], b)])
      /\ ctl' = [ctl EXCEPT !.at = "select", !.buf = @ + program.length[h]]
  BY <1>1 DEF extract_header
<1>3. ctl'.at = "select" /\ Inside
  BY <1>2 DEF PlaceInv, Inside
<1>4. /\ direct = {} /\ tainted = {} /\ fields \in [Parsed -> SUBSET Bit]
      /\ DOMAIN value = {f \in DOMAIN Field : Present(f)}
      /\ \A f \in DOMAIN value : CopyHolds(f) /\ BytesHold(f)
  BY <1>2, <1>3 DEF ValuesInv
<1>5. /\ DOMAIN pointer' = DOMAIN pointer \union {h} /\ pointer'[h] = b
      /\ \A k \in DOMAIN pointer : k # h => pointer'[k] = pointer[k]
  BY <1>2 DEF Override
<1>6. /\ DOMAIN value' = DOMAIN value \union FieldsOf(h)
      /\ \A f \in FieldsOf(h) : value'[f] = P4Value(mem, Field[f], b)
      /\ \A f \in DOMAIN value \ FieldsOf(h) : value'[f] = value[f]
  BY <1>2 DEF Override
<1>7. Field' = Field /\ Parsed' = Parsed /\ \A f : Region(f)' = Region(f) /\ Mem(f)' = Mem(f) /\ (IsMeta(f)' <=> IsMeta(f))
  BY <1>2 DEF Field, Parsed, Region, Mem, IsMeta
<1>8. DOMAIN value' = {f \in DOMAIN Field' : Present(f)'}
  BY <1>4, <1>5, <1>6, <1>7 DEF Present, FieldsOf
<1>9. ASSUME NEW f \in FieldsOf(h)
      PROVE  /\ CopyHolds(f)' /\ BytesHold(f)'
             /\ f \in Parsed => fields'[f] \in SUBSET Bit
  <2>1. /\ Lies(Field[f], b, mem) /\ ~IsMeta(f) /\ f \in DOMAIN Field /\ Field[f].hdr = h
    BY <1>1, <1>2, <1>9, ExtractedLies
  <2>2. Bytes(f)' = P4Value(mem, Field[f], b)
    <3>1. Mem(f)' = mem /\ Base(f)' = b
      BY <1>1, <1>2, <1>5, <1>7, <2>1 DEF Mem, Region, Base
    <3> QED BY <1>7, <2>1, <3>1 DEF Bytes, Said
  <2>3. ASSUME f \in Parsed PROVE fields'[f] = P4Value(mem, Field[f], b) /\ InWord(Field[f])
    <3>1. InWord(Field[f])
      BY <2>3, ParsedFacts
    <3>2. fields'[f] = EXTRACT_INT32_AUTO(mem, field_desc(Field[f], b))
      BY <1>2, <1>9, <2>3
    <3>3. PICK fd : fd = field_desc(Field[f], b)
      OBVIOUS
    <3>4. ~fd.meta
      BY <2>1, <3>3 DEF field_desc, IsMeta
    <3>5. EXTRACT_INT32_NTOH(mem, fd) = ReadAs(mem, Field[f], b, "net")
      BY <2>1, <3>1, <3>3, NetRead
    <3> QED BY <3>1, <3>2, <3>3, <3>4, <3>5, NetIsP4Value DEF EXTRACT_INT32_AUTO
  <2>4. Truncate(P4Value(mem, Field[f], b), Field[f].width) = P4Value(mem, Field[f], b)
    BY DEF Truncate, P4Value
  <2>5. f \in Parsed => P4Value(mem, Field[f], b) \in SUBSET Bit
    <3>1. ASSUME f \in Parsed PROVE 0 .. Field[f].width - 1 \subseteq Bit
      BY <2>1, <2>3, <3>1, Layout DEF InWord, Bit
    <3> QED BY <3>1 DEF P4Value
  <2> QED BY <1>6, <1>7, <1>9, <2>2, <2>3, <2>4, <2>5 DEF CopyHolds, BytesHold
<1>10. ASSUME NEW f \in DOMAIN value \ FieldsOf(h) PROVE CopyHolds(f)' /\ BytesHold(f)'
  <2>1. CopyHolds(f) /\ BytesHold(f) /\ f \in DOMAIN Field /\ Present(f)
    BY <1>4, <1>10
  <2>2. Base(f)' = Base(f) /\ Field[f].hdr # h
    BY <1>5, <1>7, <1>10, <2>1 DEF Base, FieldsOf, Present
  <2>3. Desc(f)' = Desc(f)
    BY <1>5, <1>7, <2>1, <2>2 DEF Desc, Present
  <2>4. Bytes(f)' = Bytes(f)
    BY <1>7, <2>2, <2>3 DEF Bytes, Said, Short
  <2>5. f \in Parsed => fields'[f] = fields[f] /\ attr'[f] = attr[f]
    BY <1>2, <1>10
  <2>6. f \in WrittenBack' <=> f \in WrittenBack
    BY <1>7, <2>5 DEF WrittenBack
  <2> QED BY <1>2, <1>6, <1>7, <1>10, <2>1, <2>4, <2>5, <2>6 DEF CopyHolds, BytesHold
<1>11. fields' \in [Parsed -> SUBSET Bit]
  BY <1>2, <1>4, <1>9
<1>12. \A f \in DOMAIN value' : CopyHolds(f)' /\ BytesHold(f)'
  BY <1>6, <1>9, <1>10
<1> QED BY <1>2, <1>3, <1>4, <1>7, <1>8, <1>11, <1>12 DEF ValuesInv

\* A step that leaves a packet's fields alone.
LEMMA IdleValues ==
  ASSUME MemoryInv, ValuesInv, program' = program, memory' = memory, pointer' = pointer, fields' = fields, attr' = attr,
         value' = value, direct' = direct, tainted' = tainted, Inside, ctl'.at \notin {"idle", "select", "send"},
         ctl'.at = "parse" => ctl.at = "select"
  PROVE  ValuesInv'
<1>1. /\ Field' = Field /\ Parsed' = Parsed /\ WrittenBack' = WrittenBack
      /\ \A f : Present(f)' <=> Present(f)
      /\ \A f : Bytes(f)' = Bytes(f)
  BY DEF Field, Parsed, WrittenBack, Present, Bytes, Said, Mem, Region, Base, Desc, IsMeta, Short
<1>2. \A f \in DOMAIN value \ tainted : CopyHolds(f)' /\ BytesHold(f)'
  BY <1>1 DEF ValuesInv, CopyHolds, BytesHold
<1> QED BY <1>1, <1>2 DEF ValuesInv

\* The copies are written back where they are newer, and then the calculated
\* fields.
LEMMA UpdateValues ==
  ASSUME ProgramInv, PlaceInv, MemoryInv, ValuesInv, Marks, update_packet
  PROVE  MemoryInv' /\ ValuesInv'
<1>1. /\ ctl.at = "update" /\ ctl'.at = "send" /\ program' = program /\ pointer' = pointer /\ fields' = fields
      /\ attr' = attr /\ value' = value /\ direct' = direct /\ tainted' = tainted
  BY Literals DEF update_packet, history
<1>2. fields \in [Parsed -> SUBSET Bit] /\ Inside
  BY <1>1 DEF ValuesInv, Inside
<1>3. PICK new : new = memory'["packet"]
  OBVIOUS
<1>4. /\ MemoryInv'
      /\ \A g \in Calculated : Checksum(new, g)
      /\ \A g \in Here \ Calculated : Said(new, g) =
           IF g \in WrittenBack THEN Truncate(fields[g], Field[g].width) ELSE Bytes(g)
      /\ \A h \in MetaHeaders : memory'[h] = memory[h]
  BY <1>2, <1>3, UpdateFacts
<1>5. /\ Field' = Field /\ Parsed' = Parsed /\ WrittenBack' = WrittenBack /\ Calculated' = Calculated
      /\ \A f : (Present(f)' <=> Present(f)) /\ (Mixed(f)' <=> Mixed(f))
      /\ \A f : /\ Bytes(f)' = Said(memory'[Region(f)], f) /\ Region(f)' = Region(f)
                /\ Mem(f)' = memory'[Region(f)] /\ Desc(f)' = Desc(f)
  BY <1>1 DEF Field, Parsed, WrittenBack, Calculated, Present, Mixed, Bytes, Said, Mem, Region, Base, Desc, IsMeta, Short
<1>6. DOMAIN value = {f \in DOMAIN Field : Present(f)} /\ \A f \in DOMAIN value \ tainted : CopyHolds(f) /\ BytesHold(f)
  BY <1>2 DEF ValuesInv
<1>7. ASSUME NEW f \in DOMAIN value \ (tainted \union Calculated) PROVE Bytes(f)' = value[f] \/ Mixed(f)
  <2>1. CopyHolds(f) /\ BytesHold(f) /\ f \in DOMAIN Field /\ Present(f)
    BY <1>6, <1>7
  <2>2. CASE IsMeta(f)
    <3>1. f \notin WrittenBack
      BY <2>2, ParsedFacts DEF WrittenBack
    <3>2. Region(f) \in MetaHeaders /\ Mem(f) = memory[Region(f)]
      BY <2>1, <2>2, Layout DEF Region, Mem
    <3>3. Bytes(f)' = Bytes(f)
      BY <1>4, <1>5, <3>2 DEF Bytes
    <3> QED BY <2>1, <3>1, <3>3 DEF BytesHold
  <2>3. CASE ~IsMeta(f)
    <3>1. f \in Here \ Calculated /\ Region(f) = "packet"
      BY <1>7, <2>1, <2>3 DEF Here, Region
    <3>2. Bytes(f)' = IF f \in WrittenBack THEN Truncate(fields[f], Field[f].width) ELSE Bytes(f)
      BY <1>3, <1>4, <1>5, <3>1
    <3>3. CASE f \in WrittenBack
      BY <2>1, <3>2, <3>3 DEF CopyHolds, Mixed, WrittenBack
    <3>4. CASE f \notin WrittenBack
      BY <2>1, <3>2, <3>4 DEF BytesHold
    <3> QED BY <3>3, <3>4
  <2> QED BY <2>2, <2>3
<1>8. ChecksumsHold'
  <2>1. ASSUME NEW f \in Calculated PROVE (EXTRACT_INT32_BITS(Mem(f), Desc(f)) = calculate(Mem(f), f))'
    <3>1. Checksum(new, f) /\ Region(f) = "packet"
      BY <1>4, <2>1, CalculatedFacts DEF Here, Region
    <3>2. Mem(f)' = new /\ Desc(f)' = Desc(f)
      BY <1>3, <1>5, <3>1
    <3>3. calculate(Mem(f), f)' = calculate(new, f)
      BY <1>1, <3>2 DEF calculate, Field
    <3> QED BY <3>1, <3>2, <3>3 DEF Checksum
  <2> QED BY <1>5, <2>1 DEF ChecksumsHold
<1>9. ctl'.at = "send" /\ ~Inside'
  BY <1>1 DEF Inside
<1> QED BY <1>1, <1>2, <1>4, <1>5, <1>6, <1>7, <1>8, <1>9 DEF ValuesInv

-----------------------------------------------------------------------------
(* The invariant, and the theorems it gives.                               *)

PipelineInv == CrashInv /\ MemoryInv /\ ValuesInv

\* PipelineInv holds before the first packet.
LEMMA PipelineInit == Init => PipelineInv
<1> SUFFICES ASSUME Init PROVE PipelineInv
  OBVIOUS
<1>1. CrashInv /\ MemoryInv
  BY CrashInit, MemoryInit DEF CrashInv
<1>2. ctl.at = "idle" /\ direct = {} /\ tainted = {} /\ fields \in [Parsed -> SUBSET Bit]
  BY Literals DEF Init
<1> QED BY <1>1, <1>2 DEF PipelineInv, ValuesInv, Inside

\* PipelineInv is inductive: one step of the proof for each action.
LEMMA PipelineNext == PipelineInv /\ [Next]_vars => PipelineInv'
<1> SUFFICES ASSUME PipelineInv, [Next]_vars PROVE PipelineInv'
  OBVIOUS
<1>1. CrashInv'
  BY CrashNext DEF PipelineInv
<1>2. ProgramInv /\ PlaceInv /\ MemoryInv /\ ValuesInv /\ Marks
  BY DEF PipelineInv, CrashInv, MarkedInv, Marks
<1> DEFINE Kept == /\ program' = program /\ memory' = memory /\ pointer' = pointer /\ fields' = fields /\ attr' = attr
                   /\ value' = value /\ direct' = direct /\ tainted' = tainted
<1>3. ASSUME Kept, Inside, ctl'.at \in {"parse", "node", "calls", "update"}, ctl'.at = "parse" => ctl.at = "select",
             ctl'.at # "parse" \/ MemoryInv'
      PROVE  PipelineInv'
  <2>1. MemoryInv'
    <3>1. CASE ctl'.at # "parse"
      BY <1>2, <1>3, <3>1, MemoryStep
    <3> QED BY <1>3, <3>1
  <2>2. ValuesInv'
    BY <1>2, <1>3, IdleValues
  <2> QED BY <1>1, <2>1, <2>2 DEF PipelineInv
<1>4. ASSUME NEW packet \in Packet[program.name], NEW port \in Port, packet_received(packet, port)
      PROVE  PipelineInv'
  BY <1>1, <1>2, <1>4, ReceiveMemory, ReceiveValues DEF PipelineInv
<1>5. CASE extract_header
  BY <1>1, <1>2, <1>5, ExtractMemory, ExtractValues DEF PipelineInv
<1>6. CASE parse_state
  <2>1. Kept /\ Inside /\ ctl.at = "select"
    BY <1>6 DEF parse_state, history, Inside
  <2>2. MemoryInv' /\ ctl'.at \in {"parse", "node", "update"}
    BY <1>2, <1>6, ParseMemory, ParseStep
  <2> QED BY <1>3, <2>1, <2>2
<1>7. CASE condition \/ apply_table
  <2>1. Kept /\ Inside
    BY <1>7 DEF condition, apply_table, pd, history, Inside, AtTable, AtCondition
  <2>2. ctl'.at \in {"node", "update", "calls"}
    BY <1>2, <1>7, ConditionStep, TableStep
  <2> QED BY <1>3, <2>1, <2>2
<1>8. CASE drop \/ generate_digest
  <2>1. Kept /\ Inside /\ ctl.at = "calls" /\ CallDone
    BY <1>8 DEF drop, generate_digest, pd, history, Inside, Calling
  <2>2. ctl'.at \in {"node", "update", "calls"}
    BY <1>2, <2>1, CallStep
  <2> QED BY <1>3, <2>1, <2>2
<1>9. CASE modify_const
  BY <1>1, <1>2, <1>9, ConstValues DEF PipelineInv
<1>10. CASE modify_param
  BY <1>1, <1>2, <1>10, ParamValues DEF PipelineInv
<1>11. CASE copy_bytes
  BY <1>1, <1>2, <1>11, CopyBytesValues DEF PipelineInv
<1>12. CASE copy_int32
  BY <1>1, <1>2, <1>12, CopyInt32Values DEF PipelineInv
<1>13. CASE add_to_field
  BY <1>1, <1>2, <1>13, AddValues DEF PipelineInv
<1>14. CASE update_packet
  BY <1>1, <1>2, <1>14, UpdateValues DEF PipelineInv
<1>15. CASE send_packet
  <2>1. MemoryInv'
    BY <1>2, <1>15, SendMemory
  <2>2. ctl'.at = "idle" /\ program' = program /\ fields' = fields /\ direct' = {} /\ tainted' = {}
    BY <1>15, Literals DEF send_packet
  <2>3. ValuesInv'
    BY <1>2, <2>2 DEF ValuesInv, Inside, Parsed
  <2> QED BY <1>1, <2>1, <2>3 DEF PipelineInv
<1>16. CASE Crash
  <2>1. ctl'.at = "crashed" /\ program' = program /\ fields' = fields /\ memory' = memory /\ pointer' = pointer
    BY <1>16, Literals DEF Crash, pd
  <2>2. MemoryInv'
    BY <1>2, <2>1, MemoryStep
  <2>3. ValuesInv'
    BY <1>2, <2>1 DEF ValuesInv, Inside, Parsed
  <2> QED BY <1>1, <2>2, <2>3 DEF PipelineInv
<1>17. CASE UNCHANGED vars
  <2>1. Kept /\ ctl' = ctl
    BY <1>17 DEF vars, pd, history
  <2>2. MemoryInv'
    <3>1. MemoryInv /\ UNCHANGED <<program, memory, pointer, ctl>>
      BY <1>2, <2>1
    <3>2. /\ MetaHeaders' = MetaHeaders /\ Headers' = Headers /\ (Parsing' <=> Parsing)
          /\ \A h : Ends(h)' = Ends(h) /\ Zeros(h)' = Zeros(h)
          /\ ToParse' = ToParse
      BY <3>1 DEF MetaHeaders, Headers, Parsing, IsMeta, Field, Ends, Zeros, ToParse
    <3>3. \A size : PointersLie(size) => PointersLie(size)'
      BY <3>1, <3>2 DEF PointersLie
    <3>4. \A size, upto : Way(upto, size) /\ RoomLeft(upto) => Way(upto, size)' /\ RoomLeft(upto)'
      BY <3>1, <3>2 DEF Way, RoomLeft
    <3> QED BY <3>1, <3>2, <3>3, <3>4 DEF MemoryInv
  <2>3. ValuesInv'
    <3>1. ValuesInv /\ UNCHANGED <<program, memory, pointer, fields, attr, value, direct, tainted, ctl>>
      BY <1>2, <2>1
    <3>2. /\ Field' = Field /\ Parsed' = Parsed /\ WrittenBack' = WrittenBack /\ Calculated' = Calculated
          /\ \A f : (Present(f)' <=> Present(f)) /\ (Mixed(f)' <=> Mixed(f)) /\ Bytes(f)' = Bytes(f)
          /\ \A f : (CopyHolds(f)' <=> CopyHolds(f)) /\ (BytesHold(f)' <=> BytesHold(f))
      BY <3>1 DEF Field, Parsed, WrittenBack, Calculated, Present, Mixed, Bytes, Said, Mem, Region, Base, Desc, IsMeta, Short,
                  CopyHolds, BytesHold
    <3>3. ChecksumsHold' <=> ChecksumsHold
      BY <3>1 DEF ChecksumsHold, Calculated, Present, Mem, Region, Desc, IsMeta, Field, calculate
    <3> QED BY <3>1, <3>2, <3>3 DEF ValuesInv, Inside
  <2> QED BY <1>1, <2>2, <2>3 DEF PipelineInv
<1> QED BY <1>4, <1>5, <1>6, <1>7, <1>8, <1>9, <1>10, <1>11, <1>12, <1>13, <1>14, <1>15, <1>16, <1>17 DEF Next

\* The value the code would use, in the words of ValuesInv.
LEMMA HeldIs ==
  ASSUME NEW f
  PROVE  Held(f) = IF f \in WrittenBack /\ ctl.at # "send" THEN Truncate(fields[f], Field[f].width) ELSE Bytes(f)
BY DEF Held, Bytes, Said, Base

\* ValuesInv gives every field its value, at every place the property names.
LEMMA ValuesAreHeld == PipelineInv => FieldsHoldTheirValues
<1> SUFFICES ASSUME PipelineInv, ctl.at \in {"node", "calls", "update", "send"},
                    NEW f \in DOMAIN value \ program.calculated, f \notin tainted
             PROVE  Held(f) = value[f] \/ Mixed(f)
  BY DEF FieldsHoldTheirValues
<1>1. ValuesInv
  BY DEF PipelineInv
<1>2. CASE ctl.at = "send"
  <2>1. f \notin Calculated
    BY DEF Calculated
  <2>2. Bytes(f) = value[f] \/ Mixed(f)
    BY <1>1, <1>2, <2>1 DEF ValuesInv
  <2> QED BY <1>2, <2>2, HeldIs
<1>3. CASE ctl.at # "send"
  <2>1. CopyHolds(f) /\ BytesHold(f)
    BY <1>1, <1>3 DEF ValuesInv, Inside
  <2>2. CASE f \in WrittenBack
    BY <1>3, <2>1, <2>2, HeldIs DEF CopyHolds, Mixed, WrittenBack
  <2>3. CASE f \notin WrittenBack
    BY <2>1, <2>3, HeldIs DEF BytesHold
  <2> QED BY <2>2, <2>3
<1> QED BY <1>2, <1>3

\* At send_packet the worker does nothing else.
LEMMA SendStep ==
  PipelineInv /\ [Next]_vars /\ ctl.at = "send" => send_packet \/ UNCHANGED vars
<1> SUFFICES ASSUME PipelineInv, Next, ctl.at = "send" PROVE send_packet
  BY Zenon
<1>1. ~AtTable /\ ~AtCondition /\ \A op : ~Calling(op)
  BY DEF AtTable, AtCondition, Calling
<1>2. Safe
  BY <1>1 DEF Safe, BytesUsed, Named
<1> QED BY <1>1, <1>2 DEF Next, packet_received, extract_header, parse_state, condition, apply_table, modify_const, modify_param,
           copy_bytes, copy_int32, add_to_field, drop, generate_digest, update_packet, Crash

\* The port that is read there is the value of the field.
LEMMA PortIsTold ==
  ASSUME PipelineInv, ctl.at = "send", EgressPort \notin tainted
  PROVE  EXTRACT_EGRESSPORT = value[EgressPort]
<1>1. ProgramInv /\ MemoryInv /\ ValuesInv /\ MarkedInv
  BY DEF PipelineInv, CrashInv
<1>2. /\ EgressPort \in DOMAIN Field /\ IsMeta(EgressPort) /\ InWord(Field[EgressPort]) /\ Field[EgressPort].hdr \in MetaHeaders
  <2>1. LayoutIsSound(program)
    BY <1>1, SoundProgram DEF ProgramIsSound
  <2>2. EgressPort \in DOMAIN Field /\ IsMeta(EgressPort) /\ InWord(Field[EgressPort])
    BY <2>1 DEF LayoutIsSound, Field, IsMeta
  <2> QED BY <1>1, <2>2, Layout
<1>3. Present(EgressPort)
  BY <1>1, <1>2 DEF Present, MemoryInv
<1>4. EXTRACT_EGRESSPORT = Bytes(EgressPort)
  BY <1>1, <1>2, <1>3, ReadWord DEF EXTRACT_EGRESSPORT
<1>5. EgressPort \notin WrittenBack /\ EgressPort \notin Calculated
  BY <1>1, <1>2, ParsedFacts, CalculatedFacts DEF WrittenBack, Here
<1>6. EgressPort \in DOMAIN value
  BY <1>1, <1>2, <1>3 DEF ValuesInv
<1> QED BY <1>1, <1>4, <1>5, <1>6 DEF ValuesInv, Mixed

\* Every field has the value P4 gives it wherever the generated code uses it,
\* but for a field changed both in its copy and in its bytes, or given an
\* outdated value, for every program the compiler accepts and every packet.
THEOREM Values == Spec => []FieldsHoldTheirValues
<1> QED BY ValuesAreHeld, PipelineInit, PipelineNext, PTL DEF Spec

\* Every packet leaves with the checksum of the header it leaves with: no write
\* of update_packet comes after a checksum that covers it.
THEOREM Checksums == Spec => []ChecksumsHold
<1>1. PipelineInv => ChecksumsHold
  BY DEF PipelineInv, ValuesInv, ChecksumsHold
<1> QED BY <1>1, PipelineInit, PipelineNext, PTL DEF Spec

\* Every packet is sent to the port the program gave it.
THEOREM Sent == Spec => SentWhereTold
<1>1. PipelineInv /\ [Next]_vars =>
        [ctl.at = "send" => sent' = value[EgressPort] \/ EgressPort \in tainted]_vars
  <2> SUFFICES ASSUME PipelineInv, [Next]_vars, ctl.at = "send", EgressPort \notin tainted, ~UNCHANGED vars
               PROVE  sent' = value[EgressPort]
    BY Zenon
  <2>1. send_packet
    BY SendStep
  <2> QED BY <2>1, PortIsTold DEF send_packet
<1> QED BY <1>1, PipelineInit, PipelineNext, PTL DEF Spec, SentWhereTold

-----------------------------------------------------------------------------
(* Keys: sequences of sequences, one after another.                        *)

\* One part more, and one width more: t[n] and w[n] are of the first n.
FlatStep(s, t, i) == IF i = 1 THEN s[i] ELSE t[i - 1] \o s[i]
SumStep(W, w, n) == IF n = 0 THEN 0 ELSE w[n - 1] + W[n]
IsFlat(t, s, N) == t = [i \in 1 .. N |-> FlatStep(s, t, i)]
IsSum(w, W, N) == w = [n \in 0 .. N |-> SumStep(W, w, n)]

\* There is a function that says what the first parts are together.
LEMMA FlatExists ==
  ASSUME NEW s, NEW N \in Nat
  PROVE  \E t : IsFlat(t, s, N)
<1> DEFINE UpTo(m) == \E t : /\ t = [i \in 1 .. N |-> t[i]]
                             /\ \A i \in 1 .. N : i <= m => t[i] = FlatStep(s, t, i)
           S == {m \in Nat : UpTo(m)}
<1>1. 0 \in S
  <2>1. PICK t : t = [i \in 1 .. N |-> {}]
    OBVIOUS
  <2>2. t = [i \in 1 .. N |-> t[i]] /\ \A i \in 1 .. N : i <= 0 => t[i] = FlatStep(s, t, i)
    BY <2>1 DEF FlatStep
  <2> QED BY <2>2
<1>2. ASSUME NEW m \in Nat, m \in S PROVE m + 1 \in S
  <2>1. PICK t : /\ t = [i \in 1 .. N |-> t[i]]
                 /\ \A i \in 1 .. N : i <= m => t[i] = FlatStep(s, t, i)
    BY <1>2
  <2>2. PICK v : v = [i \in 1 .. N |-> IF i <= m THEN t[i] ELSE FlatStep(s, t, i)]
    OBVIOUS
  <2>3. ASSUME NEW i \in 1 .. N, i <= m + 1 PROVE v[i] = FlatStep(s, v, i)
    <3>1. v[i] = FlatStep(s, t, i)
      BY <2>1, <2>2
    <3>2. i # 1 => v[i - 1] = t[i - 1]
      <4>1. i # 1 => i - 1 \in 1 .. N /\ i - 1 <= m
        BY <2>3
      <4> QED BY <2>2, <4>1
    <3> QED BY <3>1, <3>2 DEF FlatStep
  <2>4. v = [i \in 1 .. N |-> v[i]]
    BY <2>2
  <2>5. UpTo(m + 1)
    BY <2>3, <2>4
  <2> QED BY <2>5
<1> HIDE DEF S
<1>3. N \in S
  BY <1>1, <1>2, AllNumbers
<1>4. PICK t : /\ t = [i \in 1 .. N |-> t[i]]
               /\ \A i \in 1 .. N : i <= N => t[i] = FlatStep(s, t, i)
  BY <1>3 DEF S
<1>5. \A i \in 1 .. N : t[i] = FlatStep(s, t, i)
  BY <1>4
<1>6. IsFlat(t, s, N)
  BY <1>4, <1>5 DEF IsFlat
<1> QED BY <1>6

\* There is a function that says what the first widths are together.
LEMMA SumExists ==
  ASSUME NEW W, NEW N \in Nat
  PROVE  \E t : IsSum(t, W, N)
<1> DEFINE UpTo(m) == \E t : /\ t = [i \in 0 .. N |-> t[i]]
                             /\ \A i \in 0 .. N : i <= m => t[i] = SumStep(W, t, i)
           S == {m \in Nat : UpTo(m)}
<1>1. 0 \in S
  <2>1. PICK t : t = [i \in 0 .. N |-> 0]
    OBVIOUS
  <2>2. t = [i \in 0 .. N |-> t[i]] /\ \A i \in 0 .. N : i <= 0 => t[i] = SumStep(W, t, i)
    BY <2>1 DEF SumStep
  <2> QED BY <2>2
<1>2. ASSUME NEW m \in Nat, m \in S PROVE m + 1 \in S
  <2>1. PICK t : /\ t = [i \in 0 .. N |-> t[i]]
                 /\ \A i \in 0 .. N : i <= m => t[i] = SumStep(W, t, i)
    BY <1>2
  <2>2. PICK v : v = [i \in 0 .. N |-> IF i <= m THEN t[i] ELSE SumStep(W, t, i)]
    OBVIOUS
  <2>3. ASSUME NEW i \in 0 .. N, i <= m + 1 PROVE v[i] = SumStep(W, v, i)
    <3>1. v[i] = SumStep(W, t, i)
      BY <2>1, <2>2
    <3>2. i # 0 => v[i - 1] = t[i - 1]
      <4>1. i # 0 => i - 1 \in 0 .. N /\ i - 1 <= m
        BY <2>3
      <4> QED BY <2>2, <4>1
    <3> QED BY <3>1, <3>2 DEF SumStep
  <2>4. v = [i \in 0 .. N |-> v[i]]
    BY <2>2
  <2>5. UpTo(m + 1)
    BY <2>3, <2>4
  <2> QED BY <2>5
<1> HIDE DEF S
<1>3. N \in S
  BY <1>1, <1>2, AllNumbers
<1>4. PICK t : /\ t = [i \in 0 .. N |-> t[i]]
               /\ \A i \in 0 .. N : i <= N => t[i] = SumStep(W, t, i)
  BY <1>3 DEF S
<1>5. \A i \in 0 .. N : t[i] = SumStep(W, t, i)
  BY <1>4
<1>6. IsSum(t, W, N)
  BY <1>4, <1>5 DEF IsSum
<1> QED BY <1>6

\* FlattenSeq puts the parts one after another.
LEMMA FlattenIs ==
  ASSUME NEW N \in Nat \ {0}, NEW s, s \in [1 .. N -> Seq(Byte)]
  PROVE  \E t : IsFlat(t, s, N) /\ FlattenSeq(s) = t[N]
<1>1. PICK t : t = CHOOSE u : u = [i \in 1 .. N |-> IF i = 1 THEN s[i] ELSE u[i - 1] \o s[i]]
  OBVIOUS
<1>2. IsFlat(t, s, N)
  BY <1>1, FlatExists DEF IsFlat, FlatStep
<1>3. s \in Seq(Seq(Byte)) /\ Len(s) = N
  OBVIOUS
<1>4. FlattenSeq(s) = t[N]
  BY <1>1, <1>3 DEF FlattenSeq
<1> QED BY <1>2, <1>4

\* Whole bytes before a width do not change how many bytes the rest takes.
LEMMA DivPlus ==
  ASSUME NEW a \in Nat, NEW x \in Nat
  PROVE  ((8 * a + x) + 7) \div 8 = a + ((x + 7) \div 8)
OBVIOUS

\* A cut after a whole first part leaves that part whole.
LEMMA ConcatCut ==
  ASSUME NEW A \in Seq(Byte), NEW B \in Seq(Byte), NEW m \in Nat, m <= Len(B)
  PROVE  SubSeq(A \o B, 1, Len(A) + m) = A \o SubSeq(B, 1, m)
<1>1. PICK a \in Nat, b \in Nat : a = Len(A) /\ b = Len(B)
  BY LenProperties
<1>2. /\ A \o B \in Seq(Byte) /\ Len(A \o B) = a + b
      /\ \A i \in 1 .. a + b : (A \o B)[i] = IF i <= a THEN A[i] ELSE B[i - a]
  BY <1>1, ConcatProperties
<1>3. /\ SubSeq(B, 1, m) \in Seq(Byte) /\ Len(SubSeq(B, 1, m)) = m
      /\ \A i \in 1 .. m : SubSeq(B, 1, m)[i] = B[i]
  BY <1>1
<1>4. /\ SubSeq(A \o B, 1, a + m) \in Seq(Byte) /\ Len(SubSeq(A \o B, 1, a + m)) = a + m
      /\ \A i \in 1 .. a + m : SubSeq(A \o B, 1, a + m)[i] = (A \o B)[i]
  BY <1>1, <1>2
<1>5. /\ A \o SubSeq(B, 1, m) \in Seq(Byte) /\ Len(A \o SubSeq(B, 1, m)) = a + m
      /\ \A i \in 1 .. a + m : (A \o SubSeq(B, 1, m))[i] = IF i <= a THEN A[i] ELSE SubSeq(B, 1, m)[i - a]
  BY <1>1, <1>3, ConcatProperties
<1>6. \A i \in 1 .. a + m : SubSeq(A \o B, 1, a + m)[i] = (A \o SubSeq(B, 1, m))[i]
  <2>1. ASSUME NEW i \in 1 .. a + m PROVE SubSeq(A \o B, 1, a + m)[i] = (A \o SubSeq(B, 1, m))[i]
    <3>1. i \in 1 .. a + b /\ (~(i <= a) => i - a \in 1 .. m)
      BY <1>1
    <3> QED BY <1>2, <1>3, <1>4, <1>5, <3>1
  <2> QED BY <2>1
<1> QED BY <1>1, <1>4, <1>5, <1>6, SeqEqual

\* Two that agree but for the last one, of which one is cut to the other's
\* length; W has the bits of each.
CutTo(s, u, W, N) ==
  /\ N \in Nat \ {0}
  /\ s \in [1 .. N -> Seq(Byte)] /\ u \in [1 .. N -> Seq(Byte)] /\ W \in [1 .. N -> Nat]
  /\ \A i \in 1 .. N : i < N => s[i] = u[i] /\ 8 * Len(s[i]) = W[i]
  /\ (W[N] + 7) \div 8 <= Len(s[N]) /\ SubSeq(s[N], 1, (W[N] + 7) \div 8) = u[N]

\* If every part but the last agrees with its own number of bits, the whole one
\* is cut where the last one ends.
LEMMA FlatCut ==
  ASSUME NEW N, NEW s, NEW u, NEW W, NEW w, IsSum(w, W, N), CutTo(s, u, W, N)
  PROVE  SubSeq(FlattenSeq(s), 1, (w[N] + 7) \div 8) = FlattenSeq(u)
<1>1. /\ N \in Nat \ {0}
      /\ s \in [1 .. N -> Seq(Byte)] /\ u \in [1 .. N -> Seq(Byte)] /\ W \in [1 .. N -> Nat]
      /\ \A i \in 1 .. N : i < N => s[i] = u[i] /\ 8 * Len(s[i]) = W[i]
  BY DEF CutTo
<1>2. PICK m \in Nat : m = (W[N] + 7) \div 8 /\ m <= Len(s[N]) /\ SubSeq(s[N], 1, m) = u[N]
  <2>1. W[N] \in Nat /\ (W[N] + 7) \div 8 \in Nat
    BY <1>1
  <2> QED BY <2>1 DEF CutTo
<1> USE <1>1, <1>2
<1>3. PICK t, v : IsFlat(t, s, N) /\ FlattenSeq(s) = t[N] /\ IsFlat(v, u, N) /\ FlattenSeq(u) = v[N]
  BY FlattenIs
<1>4. /\ \A i \in 1 .. N : t[i] = IF i = 1 THEN s[i] ELSE t[i - 1] \o s[i]
      /\ \A i \in 1 .. N : v[i] = IF i = 1 THEN u[i] ELSE v[i - 1] \o u[i]
      /\ w[0] = 0 /\ \A i \in 1 .. N : w[i] = w[i - 1] + W[i]
  <2>1. \A i \in 1 .. N : t[i] = FlatStep(s, t, i) /\ v[i] = FlatStep(u, v, i)
    BY <1>3 DEF IsFlat
  <2>2. \A i \in 0 .. N : w[i] = SumStep(W, w, i)
    BY DEF IsSum
  <2>3. 0 \in 0 .. N /\ \A i \in 1 .. N : i \in 0 .. N /\ i # 0
    OBVIOUS
  <2> QED BY <2>1, <2>2, <2>3 DEF FlatStep, SumStep
<1> DEFINE Same(i) == t[i] \in Seq(Byte) /\ t[i] = v[i] /\ w[i] \in Nat /\ 8 * Len(t[i]) = w[i]
           S == {i \in Nat : i \in 1 .. N - 1 => Same(i)}
<1>5. 0 \in S
  OBVIOUS
<1>6. ASSUME NEW i \in Nat, i \in S PROVE i + 1 \in S
  <2>1. SUFFICES ASSUME i + 1 \in 1 .. N - 1 PROVE Same(i + 1)
    OBVIOUS
  <2>2. PICK k \in 1 .. N : k = i + 1 /\ k < N /\ k - 1 = i
    BY <2>1
  <2>3. s[k] = u[k] /\ s[k] \in Seq(Byte) /\ 8 * Len(s[k]) = W[k] /\ W[k] \in Nat
    BY <2>2
  <2>4. CASE i = 0
    <3>1. t[k] = s[k] /\ v[k] = u[k] /\ w[k] = W[k]
      <4>1. k = 1 /\ k - 1 = 0 /\ k \in 1 .. N
        BY <2>2, <2>4
      <4>2. /\ t[k] = IF k = 1 THEN s[k] ELSE t[k - 1] \o s[k]
            /\ v[k] = IF k = 1 THEN u[k] ELSE v[k - 1] \o u[k]
            /\ w[k] = w[k - 1] + W[k]
        BY <1>4, <4>1, Zenon
      <4>3. w[0] = 0
        BY <1>4, Zenon
      <4>4. 0 + W[k] = W[k]
        BY <2>3
      <4> QED BY <4>1, <4>2, <4>3, <4>4, Zenon
    <3> QED BY <2>2, <2>3, <3>1
  <2>5. CASE i # 0
    <3>1. Same(i)
      BY <1>6, <2>1, <2>5
    <3>2. k # 1 /\ k - 1 = i /\ k \in 1 .. N
      BY <2>2, <2>5
    <3>3. t[k] = t[i] \o s[k] /\ v[k] = v[i] \o u[k] /\ w[k] = w[i] + W[k]
      <4>1. /\ t[k] = IF k = 1 THEN s[k] ELSE t[k - 1] \o s[k]
            /\ v[k] = IF k = 1 THEN u[k] ELSE v[k - 1] \o u[k]
            /\ w[k] = w[k - 1] + W[k]
        BY <1>4, <3>2
      <4> HIDE DEF Same
      <4> QED BY <3>2, <4>1
    <3>4. t[i] \in Seq(Byte) /\ t[i] = v[i] /\ w[i] \in Nat /\ 8 * Len(t[i]) = w[i]
      BY <3>1
    <3>5. t[k] \in Seq(Byte) /\ Len(t[k]) = Len(t[i]) + Len(s[k])
      BY <2>3, <3>3, <3>4, ConcatProperties
    <3>6. 8 * Len(t[k]) = w[k] /\ w[k] \in Nat
      <4>1. PICK a \in Nat, b \in Nat : a = Len(t[i]) /\ b = Len(s[k])
        BY <2>3, <3>4, LenProperties
      <4>2. PICK x \in Nat, y \in Nat : x = w[i] /\ y = W[k]
        BY <2>3, <3>4
      <4>3. 8 * a = x /\ 8 * b = y /\ Len(t[k]) = a + b /\ w[k] = x + y
        BY <2>3, <3>3, <3>4, <3>5, <4>1, <4>2
      <4>4. 8 * (a + b) = x + y /\ x + y \in Nat
        <5>1. a \in Nat /\ b \in Nat /\ x \in Nat /\ y \in Nat
          BY <4>1, <4>2, Zenon
        <5> HIDE <1>1, <1>2
        <5>2. x + y \in Nat /\ 8 * (a + b) = 8 * a + 8 * b
          BY <5>1
        <5> QED BY <4>3, <5>2, Zenon
      <4> QED BY <4>3, <4>4
    <3> QED BY <2>2, <2>3, <3>3, <3>4, <3>5, <3>6
  <2> QED BY <2>4, <2>5
<1>7. Nat \subseteq S
  <2> HIDE DEF S
  <2> QED BY <1>5, <1>6, AllNumbers
<1>8. CASE N = 1
  <2>1. t[N] = s[N] /\ v[N] = u[N] /\ w[N] = W[N]
    BY <1>4, <1>8
  <2> QED BY <1>3, <2>1
<1>9. CASE N # 1
  <2>1. PICK i \in Nat : i = N - 1 /\ i \in 1 .. N - 1
    BY <1>9
  <2>2. Same(i)
    BY <1>7, <2>1
  <2>3. t[N] = t[i] \o s[N] /\ v[N] = t[i] \o u[N] /\ w[N] = w[i] + W[N]
    <3>1. /\ t[N] = IF N = 1 THEN s[N] ELSE t[N - 1] \o s[N]
          /\ v[N] = IF N = 1 THEN u[N] ELSE v[N - 1] \o u[N]
          /\ w[N] = w[N - 1] + W[N]
      BY <1>4
    <3>2. t[i] = v[i]
      BY <2>2
    <3> HIDE DEF Same
    <3> QED BY <1>9, <2>1, <3>1, <3>2
  <2>4. (w[N] + 7) \div 8 = Len(t[i]) + m
    <3>1. PICK a \in Nat, x \in Nat : a = Len(t[i]) /\ x = W[N]
      BY <2>2, LenProperties
    <3>2. w[N] = 8 * a + x
      BY <2>2, <2>3, <3>1
    <3>3. m = (x + 7) \div 8
      BY <3>1
    <3>4. ((8 * a + x) + 7) \div 8 = a + ((x + 7) \div 8)
      BY <3>1, DivPlus
    <3> QED BY <3>1, <3>2, <3>3, <3>4
  <2>5. s[N] \in Seq(Byte)
    OBVIOUS
  <2>6. SubSeq(t[i] \o s[N], 1, Len(t[i]) + m) = t[i] \o SubSeq(s[N], 1, m)
    BY <2>2, <2>5, ConcatCut
  <2> QED BY <1>3, <2>3, <2>4, <2>6
<1> QED BY <1>8, <1>9

\* A field's part of a key the controller would file an entry under.
FiledPart(f) ==
  LET n == (Field[f].width + 7) \div 8
  IN  [k \in 1 .. n |->
         LET at == IF IsMeta(f) THEN k - 1 ELSE n - k
         IN  {b \in 0 .. 7 : 8 * at + b \in value[f]}]

\* The byte of a value, read from either end.
LEMMA AlignedByte ==
  ASSUME NEW F, NEW p, NEW mem, Lies(F, p, mem), is_field_byte_aligned(F), NEW fd, fd = field_desc(F, p),
         NEW n, n = fd.bytewidth, NEW k \in 1 .. n, NEW b \in 0 .. 7
  PROVE  /\ 8 * (n - k) + b \in ReadAs(mem, F, p, "net") <=> b \in mem[fd.byte_addr + k - 1]
         /\ n <= 4 => (8 * (k - 1) + b \in ReadAs(mem, F, p, "host") <=> b \in mem[fd.byte_addr + k - 1])
<1>1. /\ n \in Nat \ {0} /\ F.width = 8 * n /\ F.offset \in Nat /\ p \in Nat
      /\ fd.byte_addr = p + F.offset \div 8 /\ fd.byte_addr \in Nat
      /\ F.offset = 8 * (F.offset \div 8)
  BY AlignedFacts
<1>2. PICK a \in Nat : a = fd.byte_addr
  BY <1>1
<1>3. PICK j \in Nat : j = 8 * (n - k) + b
  BY <1>1
<1>4. j \in 0 .. F.width - 1 /\ j \div 8 = n - k /\ j % 8 = b
  <2>1. PICK c \in Nat : c = n - k /\ c <= n - 1
    BY <1>1
  <2>2. j = 8 * c + b /\ j \div 8 = c /\ j % 8 = b
    BY <1>3, <2>1
  <2>3. 8 * c + b <= 8 * n - 1
    BY <1>1, <2>1
  <2> QED BY <1>1, <2>1, <2>2, <2>3
<1>5. BitAt(mem, p, ValueBit(F, "net", j)) <=> j % 8 \in mem[a + (n - 1 - (j \div 8))]
  BY <1>1, <1>2, <1>4, AlignedBit
<1>6. a + (n - 1 - (n - k)) = a + k - 1
  BY <1>1
<1>7. j \in ReadAs(mem, F, p, "net") <=> b \in mem[a + k - 1]
  BY <1>4, <1>5, <1>6 DEF ReadAs
<1>8. PICK i \in Nat : i = 8 * (k - 1) + b
  BY <1>1
<1>9. i \in 0 .. F.width - 1 /\ i \div 8 = k - 1 /\ i % 8 = b
  BY <1>1, <1>8
<1>10. n <= 4 => (BitAt(mem, p, ValueBit(F, "host", i)) <=> i % 8 \in mem[a + (i \div 8)])
  BY <1>1, <1>2, <1>9, AlignedBit
<1>11. a + (k - 1) = a + k - 1
  BY <1>1
<1>12. n <= 4 => (i \in ReadAs(mem, F, p, "host") <=> b \in mem[a + k - 1])
  BY <1>9, <1>10, <1>11 DEF ReadAs
<1> QED BY <1>2, <1>3, <1>7, <1>8, <1>12

\* A field's part of the key has the bytes it is filed under, and perhaps some
\* after them.
LEMMA KeyPartIs ==
  ASSUME ProgramInv, MemoryInv, NEW f \in DOMAIN Field, Present(f), IsNamed(Field[f]),
         IsMeta(f) \/ is_field_byte_aligned(Field[f]), Bytes(f) = value[f],
         NEW n, n = (Field[f].width + 7) \div 8
  PROVE  /\ KeyPart(f) \in Seq(Byte) /\ FiledPart(f) \in Seq(Byte) /\ n \in Nat /\ Len(FiledPart(f)) = n
         /\ Len(KeyPart(f)) = IF Short(f) THEN 4 ELSE n
         /\ n <= Len(KeyPart(f)) /\ \A k \in 1 .. n : KeyPart(f)[k] = FiledPart(f)[k]
<1>1. Field[f].width \in Nat \ {0} /\ n \in Nat
  BY Layout
<1>2. Lies(Field[f], Base(f), Mem(f)) /\ Desc(f) = field_desc(Field[f], Base(f))
  BY PresentLies DEF Base, Desc
<1>3. Readable(f)
  BY DEF Readable, IsNamed, Short, IsMeta
<1>4. value[f] = ReadAs(Mem(f), Field[f], Base(f), Order(f))
  BY <1>3, BytesAreRead
<1>5. /\ FiledPart(f) \in [1 .. n -> Byte]
      /\ \A k \in 1 .. n : FiledPart(f)[k] = {b \in 0 .. 7 : 8 * (IF IsMeta(f) THEN k - 1 ELSE n - k) + b \in value[f]}
  BY DEF FiledPart, Byte
<1>6. FiledPart(f) \in Seq(Byte) /\ Len(FiledPart(f)) = n
  BY <1>1, <1>5
<1>7. Desc(f).bytewidth = n
  BY <1>2 DEF field_desc
<1>8. CASE Short(f)
  <2>1. InWord(Field[f]) /\ n <= 4
    <3>1. Field[f].width <= 32
      BY <1>8 DEF Short
    <3>2. n <= 4
      BY <1>1, <3>1
    <3> QED BY <1>1, <3>1, <3>2 DEF IsNamed
  <2>2. PICK x : x = EXTRACT_INT32_BITS(Mem(f), Desc(f)) /\ x = ReadAs(Mem(f), Field[f], Base(f), "host")
    BY <1>2, <2>1, HostRead
  <2>3. KeyPart(f) = [k \in 1 .. 4 |-> {b \in 0 .. 7 : 8 * (k - 1) + b \in x}]
    BY <1>8, <2>2 DEF KeyPart, WordBytes
  <2>4. KeyPart(f) \in [1 .. 4 -> Byte] /\ \A k \in 1 .. 4 : KeyPart(f)[k] = {b \in 0 .. 7 : 8 * (k - 1) + b \in x}
    BY <2>3 DEF Byte
  <2>5. KeyPart(f) \in Seq(Byte) /\ Len(KeyPart(f)) = 4
    <3>1. PICK four \in Nat : four = 4
      OBVIOUS
    <3>2. \A q : q \in [1 .. four -> Byte] => q \in Seq(Byte) /\ Len(q) = four
      OBVIOUS
    <3> QED BY <2>4, <3>1, <3>2
  <2>6. ASSUME NEW k \in 1 .. n PROVE KeyPart(f)[k] = FiledPart(f)[k]
    <3>1. k \in 1 .. 4
      BY <1>1, <2>1
    <3>2. CASE IsMeta(f)
      <4>1. value[f] = x
        BY <1>4, <1>8, <2>2, <3>2 DEF Order
      <4> QED BY <1>5, <2>4, <3>1, <3>2, <4>1
    <3>3. CASE ~IsMeta(f)
      <4>1. value[f] = ReadAs(Mem(f), Field[f], Base(f), "net") /\ is_field_byte_aligned(Field[f])
        BY <1>4, <3>3 DEF Order
      <4>2. ASSUME NEW b \in 0 .. 7 PROVE 8 * (k - 1) + b \in x <=> 8 * (n - k) + b \in value[f]
        <5>1. PICK fd : fd = Desc(f) /\ fd = field_desc(Field[f], Base(f)) /\ n = fd.bytewidth
          BY <1>2, <1>7
        <5>2. /\ 8 * (n - k) + b \in ReadAs(Mem(f), Field[f], Base(f), "net") <=> b \in Mem(f)[fd.byte_addr + k - 1]
              /\ n <= 4 => (8 * (k - 1) + b \in ReadAs(Mem(f), Field[f], Base(f), "host") <=> b \in Mem(f)[fd.byte_addr + k - 1])
          BY <1>2, <4>1, <5>1, AlignedByte
        <5> QED BY <2>1, <2>2, <4>1, <5>2
      <4> QED BY <1>5, <2>4, <3>1, <3>3, <4>2
    <3> QED BY <3>2, <3>3
  <2> QED BY <1>1, <1>6, <1>8, <2>1, <2>5, <2>6
<1>9. CASE ~Short(f)
  <2>1. is_field_byte_aligned(Field[f]) /\ ~IsMeta(f)
    BY <1>9 DEF IsNamed, InWord, Short, IsMeta
  <2>2. value[f] = ReadAs(Mem(f), Field[f], Base(f), "net")
    BY <1>4, <2>1 DEF Order
  <2>3. PICK src : src = KeyPart(f) /\ src = EXTRACT_BYTEBUF(Mem(f), Desc(f))
    BY <1>9 DEF KeyPart
  <2>4. src \in Seq(Byte) /\ Len(src) = n
    BY <1>2, <1>7, <2>1, <2>3, BytesRead
  <2>5. ASSUME NEW k \in 1 .. n PROVE src[k] = FiledPart(f)[k]
    <3>1. src[k] = Mem(f)[Desc(f).byte_addr + k - 1]
      BY <1>7, <2>3 DEF EXTRACT_BYTEBUF
    <3>2. src[k] \in Byte
      BY <2>4
    <3>3. ASSUME NEW b \in 0 .. 7 PROVE 8 * (n - k) + b \in value[f] <=> b \in src[k]
      BY <1>2, <1>7, <2>1, <2>2, <3>1, AlignedByte
    <3> QED BY <1>5, <2>1, <3>2, <3>3 DEF Byte
  <2> QED BY <1>1, <1>6, <1>9, <2>3, <2>4, <2>5
<1> QED BY <1>8, <1>9

\* The two parts of a key, of which the last one is the only one that may be
\* longer than its field.
LEMMA PartsAgree ==
  ASSUME ProgramInv, MemoryInv, NEW f \in DOMAIN Field, Present(f), IsNamed(Field[f]),
         IsMeta(f) \/ is_field_byte_aligned(Field[f]), Bytes(f) = value[f],
         NEW n, n = (Field[f].width + 7) \div 8
  PROVE  /\ KeyPart(f) \in Seq(Byte) /\ FiledPart(f) \in Seq(Byte) /\ n \in Nat
         /\ n <= Len(KeyPart(f)) /\ SubSeq(KeyPart(f), 1, n) = FiledPart(f)
         /\ Field[f].width >= 32 /\ Field[f].width % 8 = 0 =>
              KeyPart(f) = FiledPart(f) /\ 8 * Len(KeyPart(f)) = Field[f].width
<1>1. /\ KeyPart(f) \in Seq(Byte) /\ FiledPart(f) \in Seq(Byte) /\ n \in Nat /\ Len(FiledPart(f)) = n
      /\ Len(KeyPart(f)) = IF Short(f) THEN 4 ELSE n
      /\ n <= Len(KeyPart(f)) /\ \A k \in 1 .. n : KeyPart(f)[k] = FiledPart(f)[k]
  BY KeyPartIs
<1>2. PICK A, B : A = KeyPart(f) /\ B = FiledPart(f)
  OBVIOUS
<1>3. SubSeq(A, 1, n) = B
  <2>1. /\ SubSeq(A, 1, n) \in Seq(Byte) /\ Len(SubSeq(A, 1, n)) = n
        /\ \A k \in 1 .. n : SubSeq(A, 1, n)[k] = A[k]
    BY <1>1, <1>2
  <2>2. B \in Seq(Byte) /\ Len(B) = n /\ \A k \in 1 .. n : A[k] = B[k]
    BY <1>1, <1>2
  <2>3. \A k \in 1 .. n : SubSeq(A, 1, n)[k] = B[k]
    BY <2>1, <2>2
  <2> QED BY <2>1, <2>2, <2>3, SeqEqual
<1>4. ASSUME Field[f].width >= 32, Field[f].width % 8 = 0
      PROVE  KeyPart(f) = FiledPart(f) /\ 8 * Len(KeyPart(f)) = Field[f].width
  <2>1. PICK w \in Nat : w = Field[f].width
    BY Layout
  <2>2. w >= 32 /\ w % 8 = 0 /\ n = (w + 7) \div 8
    BY <1>4, <2>1
  <2>3. 8 * n = w
    BY <2>2
  <2>4. Len(A) = n
    <3>1. CASE Short(f)
      <4>1. w = 32
        BY <2>1, <2>2, <3>1 DEF Short
      <4>2. n = 4
        BY <2>2, <4>1
      <4> QED BY <1>1, <1>2, <3>1, <4>2
    <3>2. CASE ~Short(f)
      BY <1>1, <1>2, <3>2
    <3> QED BY <3>1, <3>2
  <2>5. A \in Seq(Byte) /\ B \in Seq(Byte) /\ Len(B) = n /\ \A k \in 1 .. n : A[k] = B[k]
    BY <1>1, <1>2
  <2>6. A = B
    BY <2>4, <2>5, SeqEqual
  <2> QED BY <1>2, <2>1, <2>3, <2>4, <2>6
<1> QED BY <1>1, <1>2, <1>3, <1>4

\* The parts agree, so the keys do.
LEMMA KeysAreFiled == PipelineInv => KeysMatch
<1> SUFFICES ASSUME PipelineInv, AtTable, Safe, Node.key # <<>>,
                    \A n \in DOMAIN Node.key :
                      LET f == Node.key[n]
                      IN  /\ f \notin tainted \union WrittenBack
                          /\ IsMeta(f) \/ is_field_byte_aligned(Field[f])
                          /\ n < Len(Node.key) => Field[f].width >= 32 /\ Field[f].width % 8 = 0
             PROVE  table_key(Node.key) = FiledKey(Node.key)
  BY DEF KeysMatch
<1>1. ProgramInv /\ PlaceInv /\ MemoryInv /\ ValuesInv /\ ctl.at = "node" /\ Node.kind = "table"
  BY DEF PipelineInv, CrashInv, AtTable
<1>2. PICK key : key = Node.key
  OBVIOUS
<1>3. key \in Seq({f \in DOMAIN Field : IsNamed(Field[f])}) /\ key # <<>>
  <2>1. NodeIsSound(program, Node)
    BY <1>1, SoundProgram DEF ProgramIsSound, PlaceInv, Node
  <2> QED BY <1>1, <1>2, <2>1 DEF NodeIsSound, Field
<1>4. PICK N \in Nat \ {0} : N = Len(key) /\ DOMAIN key = 1 .. N
  BY <1>3, EmptySeq, LenProperties
<1>5. ASSUME NEW n \in 1 .. N
      PROVE  /\ key[n] \in DOMAIN Field /\ IsNamed(Field[key[n]]) /\ Present(key[n])
             /\ IsMeta(key[n]) \/ is_field_byte_aligned(Field[key[n]])
             /\ n < N => Field[key[n]].width >= 32 /\ Field[key[n]].width % 8 = 0
             /\ Bytes(key[n]) = value[key[n]]
  <2>1. key[n] \in DOMAIN Field /\ IsNamed(Field[key[n]])
    BY <1>3, <1>4
  <2>2. Present(key[n])
    <3>1. key[n] \in ToSet(Node.key)
      BY <1>2, <1>4 DEF ToSet
    <3> QED BY <1>1, <3>1 DEF Safe, BytesUsed, Named, AtTable, AtCondition
  <2>3. /\ key[n] \notin tainted /\ key[n] \notin WrittenBack
        /\ IsMeta(key[n]) \/ is_field_byte_aligned(Field[key[n]])
        /\ n < N => Field[key[n]].width >= 32 /\ Field[key[n]].width % 8 = 0
    BY <1>2, <1>4
  <2>4. Bytes(key[n]) = value[key[n]]
    BY <1>1, <2>1, <2>2, <2>3 DEF ValuesInv, Inside, BytesHold
  <2> QED BY <2>1, <2>2, <2>3, <2>4
<1>6. PICK s, u, W : /\ s = [n \in 1 .. N |-> KeyPart(key[n])] /\ u = [n \in 1 .. N |-> FiledPart(key[n])]
                     /\ W = [n \in 1 .. N |-> Field[key[n]].width]
  OBVIOUS
<1>7. ASSUME NEW n \in 1 .. N
      PROVE  /\ s[n] \in Seq(Byte) /\ u[n] \in Seq(Byte) /\ W[n] \in Nat
             /\ (W[n] + 7) \div 8 \in Nat /\ (W[n] + 7) \div 8 <= Len(s[n])
             /\ SubSeq(s[n], 1, (W[n] + 7) \div 8) = u[n]
             /\ n < N => s[n] = u[n] /\ 8 * Len(s[n]) = W[n]
  <2>1. PICK f, m : f = key[n] /\ m = (Field[f].width + 7) \div 8
    OBVIOUS
  <2>2. /\ f \in DOMAIN Field /\ Present(f) /\ IsNamed(Field[f]) /\ Bytes(f) = value[f]
        /\ IsMeta(f) \/ is_field_byte_aligned(Field[f])
        /\ n < N => Field[f].width >= 32 /\ Field[f].width % 8 = 0
    BY <1>5, <2>1
  <2>3. /\ KeyPart(f) \in Seq(Byte) /\ FiledPart(f) \in Seq(Byte) /\ m \in Nat
        /\ m <= Len(KeyPart(f)) /\ SubSeq(KeyPart(f), 1, m) = FiledPart(f)
        /\ Field[f].width >= 32 /\ Field[f].width % 8 = 0 =>
             KeyPart(f) = FiledPart(f) /\ 8 * Len(KeyPart(f)) = Field[f].width
    BY <1>1, <2>1, <2>2, PartsAgree
  <2>4. s[n] = KeyPart(f) /\ u[n] = FiledPart(f) /\ W[n] = Field[f].width
    BY <1>6, <2>1
  <2>5. Field[f].width \in Nat
    BY <1>1, <2>2, Layout
  <2> QED BY <2>1, <2>2, <2>3, <2>4, <2>5
<1>8. PICK w : w = CHOOSE t : t = [n \in 0 .. N |-> IF n = 0 THEN 0 ELSE t[n - 1] + Field[key[n]].width]
  OBVIOUS
<1>9. WidthOf(key) = w[N]
  BY <1>4, <1>8 DEF WidthOf
<1>10. IsSum(w, W, N)
  <2>1. PICK t : IsSum(t, W, N)
    BY SumExists
  <2>2. \A v : [n \in 0 .. N |-> IF n = 0 THEN 0 ELSE v[n - 1] + Field[key[n]].width] = [n \in 0 .. N |-> SumStep(W, v, n)]
    <3>1. \A v : \A n \in 0 .. N : (IF n = 0 THEN 0 ELSE v[n - 1] + Field[key[n]].width) = SumStep(W, v, n)
      BY <1>6 DEF SumStep
    <3> QED BY <3>1
  <2>3. t = [n \in 0 .. N |-> IF n = 0 THEN 0 ELSE t[n - 1] + Field[key[n]].width]
    BY <2>1, <2>2 DEF IsSum
  <2>4. w = [n \in 0 .. N |-> IF n = 0 THEN 0 ELSE w[n - 1] + Field[key[n]].width]
    BY <1>8, <2>3
  <2> QED BY <2>2, <2>4 DEF IsSum
<1>11. SubSeq(FlattenSeq(s), 1, (w[N] + 7) \div 8) = FlattenSeq(u)
  <2>1. s \in [1 .. N -> Seq(Byte)] /\ u \in [1 .. N -> Seq(Byte)] /\ W \in [1 .. N -> Nat]
    BY <1>6, <1>7
  <2>2. \A i \in 1 .. N : i < N => s[i] = u[i] /\ 8 * Len(s[i]) = W[i]
    BY <1>7
  <2>3. N \in 1 .. N
    OBVIOUS
  <2>4. (W[N] + 7) \div 8 <= Len(s[N]) /\ SubSeq(s[N], 1, (W[N] + 7) \div 8) = u[N]
    BY <1>7, <2>3
  <2>5. CutTo(s, u, W, N)
    BY <2>1, <2>2, <2>4 DEF CutTo
  <2> QED BY <1>10, <2>5, FlatCut
<1>12. build_key(key) = FlattenSeq(s)
  BY <1>4, <1>6 DEF build_key
<1>13. FiledKey(key) = FlattenSeq(u)
  BY <1>4, <1>6 DEF FiledKey, FiledPart
<1> QED BY <1>2, <1>9, <1>11, <1>12, <1>13 DEF table_key

\* A table is asked for the key under which the control plane has filed the
\* values of its fields, where each field but the last takes as many bytes in
\* the key as it has.
THEOREM Keys == Spec => []KeysMatch
<1> QED BY KeysAreFiled, PipelineInit, PipelineNext, PTL DEF Spec
=============================================================================
