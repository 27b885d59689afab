-------------------------------- MODULE Fields --------------------------------
(***************************************************************************)
(* Reading and writing a field of a header: field_desc (dataplane.h), the  *)
(* macros of odp_primitives.h, and what the compiler computes for them     *)
(* (field_offsets and field_mask of hlir.py).                              *)
(*                                                                         *)
(* A word is the set of its bits that are 1, so that & and | are the       *)
(* intersection and the union, and a value of P4 is such a set too.  A     *)
(* byte is a subset of 0 .. 7.  Memory is a sequence of bytes numbered     *)
(* from 0.  The host is little-endian.                                     *)
(*                                                                         *)
(* Fields of variable width are left out, and so are accesses as integers  *)
(* to a field whose last bit is not in the four bytes from its first one:  *)
(* field_mask gives up on them.                                            *)
(***************************************************************************)
EXTENDS Naturals, Sequences, FiniteSetsExt

Bit == 0 .. 31
Byte == SUBSET (0 .. 7)
ByteOf(n) == {b \in 0 .. 7 : (n \div 2 ^ b) % 2 = 1}

ShiftLeft(w, n) == {i + n : i \in {j \in w : j + n \in Bit}}
ShiftRight(w, n) == {i - n : i \in {j \in w : j >= n}}
Truncate(w, width) == w \intersect (0 .. width - 1)

\* odp_cpu_to_be_16 and odp_cpu_to_be_32, which are their own inverses.
be_16(w) == {IF i < 8 THEN i + 8 ELSE i - 8 : i \in Truncate(w, 16)}
be_32(w) == {8 * (3 - i \div 8) + (i % 8) : i \in w}

\* Addition modulo 2 ^ 32: a carry comes into bit i from a bit below at which
\* both have a 1, past bits at which one of them has.
Plus(v, w) ==
  LET Carry(i) == \E j \in 0 .. i - 1 :
        j \in v \intersect w /\ (j + 1) .. (i - 1) \subseteq v \union w
  IN  {i \in Bit : (i \in v) # ((i \in w) # Carry(i))}

-----------------------------------------------------------------------------
(* The layout of a header: a function from fields to offset and width, in  *)
(* bits.                                                                   *)

\* The fields of a header in their order, from their widths.
field_offsets(header, meta, widths) ==
  LET offset[n \in DOMAIN widths] == IF n = 1 THEN 0 ELSE offset[n - 1] + widths[n - 1]
  IN  [n \in DOMAIN widths |->
         [hdr |-> header, meta |-> meta, offset |-> offset[n], width |-> widths[n]]]

\* The bits of a field as they lie in a word loaded from its first byte.
field_mask(bitoffset, bitwidth) ==
  IF bitoffset + bitwidth > 32 THEN {}
  ELSE {8 * (pos \div 8) + (7 - (pos % 8)) : pos \in bitoffset .. bitoffset + bitwidth - 1}

\* pointer is the place of the header in memory.
field_desc(f, pointer) ==
  [meta |-> f.meta,
   bitwidth |-> f.width,
   bytewidth |-> (f.width + 7) \div 8,
   bytecount |-> (f.width + 7 + (f.offset % 8)) \div 8,
   bitoffset |-> f.offset % 8,
   mask |-> field_mask(f.offset % 8, f.width),
   byte_addr |-> pointer + f.offset \div 8]

is_field_byte_aligned(f) == f.width % 8 = 0 /\ f.offset % 8 = 0

\* What a header of P4 holds: the bits of a field from the highest one, in the
\* order in which they are sent.
P4Value(mem, f, pointer) ==
  {j \in 0 .. f.width - 1 :
     LET bit == f.offset + f.width - 1 - j
     IN  7 - (bit % 8) \in mem[pointer + bit \div 8]}

-----------------------------------------------------------------------------
(* Memory.                                                                 *)

Load(mem, addr, bytes) ==
  UNION {{8 * k + b : b \in mem[addr + k]} : k \in {i \in 0 .. bytes - 1 : addr + i \in DOMAIN mem}}

\* memcpy of a word, and of an array of bytes.
Store(mem, addr, word, bytes) ==
  [i \in DOMAIN mem |->
     IF i \in addr .. addr + bytes - 1
     THEN {b \in 0 .. 7 : 8 * (i - addr) + b \in word} ELSE mem[i]]

Copy(mem, addr, src) ==
  [i \in DOMAIN mem |-> IF i \in addr .. addr + Len(src) - 1 THEN src[i - addr + 1] ELSE mem[i]]

\* The values an array of bytes has when it is read from either end.
BigEndian(src) == UNION {{8 * (Len(src) - k) + b : b \in src[k]} : k \in DOMAIN src}
LittleEndian(src) == UNION {{8 * (k - 1) + b : b \in src[k]} : k \in DOMAIN src}

-----------------------------------------------------------------------------
(* The macros.                                                             *)

FIELD_BITCOUNT(fd) == fd.bitwidth + fd.bitoffset

\* Four bytes are loaded for a field in three: the fourth, which may lie behind
\* the header, is masked out of a value and not stored back.
FIELD_BYTES(mem, fd) == Load(mem, fd.byte_addr, IF fd.bytecount <= 2 THEN fd.bytecount ELSE 4)
FIELD_MASKED_BYTES(mem, fd) == FIELD_BYTES(mem, fd) \intersect fd.mask

\* The bits of the first, the middle and the last byte of a field; a mutant
\* that is one byte off where a field ends with a byte.
LastByteOfCount(fd) == 8 * (FIELD_BITCOUNT(fd) \div 8)
LastByte(fd) == 8 * ((FIELD_BITCOUNT(fd) - 1) \div 8)
BITS_MASK1(fd) == fd.mask \intersect 0 .. 7
BITS_MASK2(fd) == fd.mask \intersect 8 .. LastByte(fd) - 1
BITS_MASK3(fd) == fd.mask \intersect LastByte(fd) .. LastByte(fd) + 7

\* Kept between the masks.
Rest(mem, fd) == FIELD_BYTES(mem, fd) \ fd.mask

EXTRACT_INT32_BITS(mem, fd) ==
  LET all == FIELD_BYTES(mem, fd)
  IN  IF fd.bytecount = 1 THEN ShiftRight(FIELD_MASKED_BYTES(mem, fd), 8 - FIELD_BITCOUNT(fd))
      ELSE (all \intersect BITS_MASK1(fd))
           \union (IF fd.bytecount = 2 THEN {}
                   ELSE ShiftRight(all \intersect BITS_MASK2(fd), fd.bitoffset))
           \union ShiftRight(all \intersect BITS_MASK3(fd), 8 * fd.bytecount - fd.bitwidth)

EXTRACT_INT32_NTOH(mem, fd) ==
  LET masked == FIELD_MASKED_BYTES(mem, fd)
      bits == FIELD_BITCOUNT(fd)
  IN  CASE fd.bytecount = 1 -> ShiftRight(masked, 8 - bits)
        [] fd.bytecount = 2 -> ShiftRight(be_16(masked), 16 - bits)
        [] OTHER -> ShiftRight(be_32(masked), 32 - bits)

EXTRACT_INT32_AUTO(mem, fd) ==
  IF fd.meta THEN EXTRACT_INT32_BITS(mem, fd) ELSE EXTRACT_INT32_NTOH(mem, fd)

\* In a header the number of bytes makes no difference here.
GET_INT32_AUTO(mem, fd) ==
  IF fd.meta THEN EXTRACT_INT32_BITS(mem, fd)
  ELSE ShiftRight(be_32(FIELD_MASKED_BYTES(mem, fd)), 32 - FIELD_BITCOUNT(fd))

MODIFY_INT32_INT32_BITS(mem, fd, value32) ==
  LET Part(mask, shift) == ShiftLeft(value32 \intersect ShiftRight(mask, shift), shift)
      res32 ==
        IF fd.bytecount = 1 THEN ShiftLeft(value32, 8 - FIELD_BITCOUNT(fd)) \intersect fd.mask
        ELSE Part(BITS_MASK1(fd), 0)
             \union (IF fd.bytecount = 2 THEN {} ELSE Part(BITS_MASK2(fd), fd.bitoffset))
             \union Part(BITS_MASK3(fd), 8 * fd.bytecount - fd.bitwidth)
  IN  Store(mem, fd.byte_addr, Rest(mem, fd) \union res32, fd.bytecount)

MODIFY_INT32_INT32_HTON(mem, fd, value32) ==
  LET bits == FIELD_BITCOUNT(fd)
      res32 ==
        CASE fd.bytecount = 1 -> ShiftLeft(value32, 8 - bits)
          [] fd.bytecount = 2 -> be_16(ShiftLeft(value32, 16 - bits))
          [] OTHER -> be_32(ShiftLeft(value32, 32 - bits))
  IN  Store(mem, fd.byte_addr, Rest(mem, fd) \union (res32 \intersect fd.mask), fd.bytecount)

MODIFY_INT32_INT32_AUTO(mem, fd, value32) ==
  IF fd.meta THEN MODIFY_INT32_INT32_BITS(mem, fd, value32)
  ELSE MODIFY_INT32_INT32_HTON(mem, fd, value32)

\* src is a sequence of bytes; the field's first bytes become 0 when it is shorter.
MODIFY_BYTEBUF_BYTEBUF(mem, fd, src) ==
  Copy(mem, fd.byte_addr, [k \in 1 .. fd.bytewidth - Len(src) |-> {}] \o src)

MODIFY_INT32_BYTEBUF(mem, fd, src) == MODIFY_INT32_INT32_AUTO(mem, fd, LittleEndian(src))

EXTRACT_BYTEBUF(mem, fd) == [k \in 1 .. fd.bytewidth |-> mem[fd.byte_addr + k - 1]]
=============================================================================
