-------------------------- MODULE Messages_proofs --------------------------
(***************************************************************************)
(* Theorems about a message on its way (Messages), for every program, any  *)
(* message its calls can describe and any buffer.  At(m, i) says where the *)
(* i-th struct of message m lies by adding up the sizes of those before    *)
(* it, which is all that writer and reader share.  IInv is inductive:      *)
(* BuildInv says that a buffer holds the first k structs of its message    *)
(* and nothing else, ReadInv that the rest of it is still as it was sent   *)
(* and that what was read is the beginning of the message.  A length that  *)
(* a buffer can have fits its 16 bits, and no buffer has room for more     *)
(* structs than the reader accepts.                                        *)
(***************************************************************************)
EXTENDS Messages, SequenceTheorems, WellFoundedInduction, TLAPS

-----------------------------------------------------------------------------
(* Where a message's structs lie.                                          *)

\* The structs of m behind its fixed part, or in it: the matches, the action, the
\* parameters; of a digest the fields.
Before(m) == IF m.type = "DIGEST" THEN 0 ELSE Len(m.matches) + 1
Last(m) == Before(m) + Len(m.params)

\* The i-th of them as it is built, when its action has n parameters.
FieldKind(m) == IF m.type = "DIGEST" THEN "digest_field" ELSE "param"
FieldOf(m, j) ==
  IF m.type = "DIGEST"
  THEN [name |-> "", value |-> m.params[j].value, bits |-> Swap32(m.params[j].bits)]
  ELSE m.params[j]
Item(m, i, n) ==
  IF i <= Len(m.matches) THEN Struct(m.matches[i].kind, m.matches[i])
  ELSE IF i <= Before(m) THEN [struct |-> "action", name |-> m.action, count |-> n]
  ELSE Struct(FieldKind(m), FieldOf(m, i - Before(m)))

\* Its size, and its offset.
Size(m, i) ==
  IF i <= Len(m.matches) THEN SizeOf[m.matches[i].kind]
  ELSE IF i <= Before(m) THEN SizeOf["action"] ELSE SizeOf[FieldKind(m)]
ParamsAt(m) ==
  SizeOf[m.type] + Sums(Sizes(m))[Len(m.matches)]
  + (IF m.type = "ADD_TABLE_ENTRY" THEN SizeOf["action"] ELSE 0)
At(m, i) ==
  IF m.type = "SET_DEFAULT_ACTION" /\ i = 1 THEN EmbeddedAction
  ELSE IF i <= Len(m.matches) + 1 THEN SizeOf[m.type] + Sums(Sizes(m))[i - 1]
  ELSE ParamsAt(m) + (i - Before(m) - 1) * SizeOf[FieldKind(m)]

\* What is sent of it.
Sent(m, i) ==
  IF m.type = "DIGEST" THEN Item(m, i, Len(m.params))
  ELSE Converted(Item(m, i, Len(m.params)))

Prefix(s, k) == [i \in 1 .. k |-> s[i]]

\* The parameters the reader gives to the callback.
Given(m) == IF m.type = "DIGEST" THEN Read(m.params) ELSE m.params

-----------------------------------------------------------------------------
(* The invariant.                                                          *)

BufferOf(type, length, table, count, at) ==
  [type |-> type, length |-> length, table |-> table, count |-> count, at |-> at]
CtrlOf(m, act, count, matches, params) ==
  [type |-> m.type, table |-> m.table, action |-> act, count |-> count,
   matches |-> matches, params |-> params]

\* Behind the last struct.
End(m) == At(m, Last(m) + 1)

\* The first k structs of m are there, and nothing else; the action has n parameters.
Filled(at, m, k, n) ==
  /\ DOMAIN at = {At(m, i) : i \in 1 .. k}
  /\ \A i \in 1 .. k : at[At(m, i)] = Item(m, i, n)

\* The buffer when k structs of m are in it.
Added(b, m, k, count, n) ==
  /\ b = BufferOf(m.type, At(m, k + 1), m.table, count, b.at)
  /\ At(m, k + 1) <= MaxLength
  /\ Filled(b.at, m, k, n)

Count(m) == IF m.type = "DIGEST" THEN Len(m.params) ELSE Len(m.matches)

\* The buffer as it is sent.
Packed(b, m) ==
  /\ b = BufferOf(m.type, Swap16(End(m)), m.table, Count(m), b.at) /\ End(m) <= MaxLength
  /\ DOMAIN b.at = {At(m, i) : i \in 1 .. Last(m)}
  /\ \A i \in 1 .. Last(m) : b.at[At(m, i)] = Sent(m, i)

\* The buffer when k structs of m have been read: the next ones are as they were sent.
Ahead(b, m, k) ==
  /\ b = BufferOf(m.type, End(m), m.table, Count(m), b.at)
  /\ \A i \in k + 1 .. Last(m) : At(m, i) \in DOMAIN b.at /\ b.at[At(m, i)] = Sent(m, i)

BuildInv ==
  /\ pc = "create_header" => buffer = EmptyBuffer
  /\ pc = "create" => buffer = BufferOf("HELLO", 8, Nothing, 0, <<>>)
  /\ pc = "matches" =>
       /\ message.type = "ADD_TABLE_ENTRY"
       /\ \E k \in 0 .. Len(message.matches) : Added(buffer, message, k, k, 0)
  /\ pc = "params" =>
       /\ message.type # "DIGEST" => action = At(message, Before(message))
       /\ \E n \in 0 .. Len(message.params) :
            Added(buffer, message, Before(message) + n,
                  IF message.type = "DIGEST" THEN n ELSE Len(message.matches), n)
  /\ pc = "crashed" => End(message) > MaxLength \/ SizeOf[message.type] >= MaxLength

ReadInv ==
  /\ pc \in {"transmit", "handle"} => Packed(buffer, message)
  /\ pc = "unpack_matches" =>
       /\ message.type = "ADD_TABLE_ENTRY" /\ Len(message.params) <= P4_MAX
       /\ \E k \in 0 .. Len(message.matches) :
            /\ ctrl_m = CtrlOf(message, Nothing, Len(message.matches), Prefix(message.matches, k), <<>>)
            /\ offset = At(message, k + 1) /\ Ahead(buffer, message, k)
  /\ pc = "unpack_params" =>
       \E k \in 0 .. Len(message.params), c \in {0, Len(message.params)} :
         /\ (c = 0 /\ k = 0 /\ message.type = "DIGEST") \/ c = Len(message.params)
         /\ ctrl_m = CtrlOf(message, message.action, c, message.matches, Prefix(Given(message), k))
         /\ offset = At(message, Before(message) + k + 1) /\ Ahead(buffer, message, Before(message) + k)
  /\ pc = "done" =>
       /\ \E c \in {0, Len(message.params)} :
            /\ (c = 0 /\ message.type = "DIGEST") \/ c = Len(message.params)
            /\ ctrl_m = CtrlOf(message, message.action, c, message.matches, Prefix(Given(message), c))
       /\ LET tables == Tables[program].tables
          IN installed = IF /\ message.table \in DOMAIN tables
                            /\ message.action \in DOMAIN tables[message.table].actions
                         THEN Rule(tables[message.table], message.type, ctrl_m) ELSE NoRule

Places == {"create_header", "create", "matches", "params", "crashed", "transmit", "handle",
           "unpack_matches", "unpack_params", "done"}

Chosen == program \in Program /\ message \in Sends[program]
IInv == Chosen /\ pc \in Places /\ BuildInv /\ ReadInv

-----------------------------------------------------------------------------
(* Numbers, lists and sums.                                                *)

\* A set that has 0, and with a number the next one, has every number.
LEMMA EveryNumber ==
  ASSUME NEW T, 0 \in T, \A n \in Nat : n \in T => n + 1 \in T
  PROVE  Nat \subseteq T
<1> DEFINE U == Nat \ T
           R == {p \in Nat \X Nat : p[1] < p[2]}
<1>1. SUFFICES ASSUME U # {} PROVE FALSE
  OBVIOUS
<1>2. IsWellFoundedOn(R, Nat)
  BY NatLessThanWellFounded DEF OpToRel
<1>3. PICK x \in U : \A y \in U : ~(<<y, x>> \in R)
  <2>1. U \subseteq Nat OBVIOUS
  <2> HIDE DEF U, R
  <2> QED BY <1>1, <1>2, <2>1, WFMin
<1>4. x - 1 \in Nat /\ <<x - 1, x>> \in R
  OBVIOUS
<1> QED BY <1>3, <1>4

\* A number below q * q is two digits, and two digits are a number.
LEMMA Digits ==
  ASSUME NEW q \in Nat \ {0}, NEW n \in Nat, n \div q < q
  PROVE  n = (n \div q) * q + (n % q) /\ n % q \in 0 .. q - 1 /\ n \div q \in 0 .. q - 1
<1>1. n = q * (n \div q) + (n % q) /\ n % q \in 0 .. q - 1 /\ n \div q \in Nat
  OBVIOUS
<1> QED BY <1>1

\* The digits of a number that was put together from them.
LEMMA Number ==
  ASSUME NEW q \in Nat \ {0}, NEW d \in Nat, NEW r \in 0 .. q - 1
  PROVE  (d * q + r) % q = r /\ (d * q + r) \div q = d /\ d * q + r \in Nat
<1>1. (q * d + r) % q = r /\ (q * d + r) \div q = d /\ q * d + r \in Nat
  OBVIOUS
<1>2. q * d = d * q
  OBVIOUS
<1> QED BY <1>1, <1>2

\* Two digits make a number below the square of the base, and the other way round.
LEMMA Below ==
  ASSUME NEW q \in Nat \ {0}
  PROVE  /\ \A d \in 0 .. q - 1, r \in 0 .. q - 1 : d * q + r < q * q
         /\ \A n \in Nat : n < q * q => n \div q < q
<1>1. \A d \in 0 .. q - 1, r \in 0 .. q - 1 : d * q + r < q * q
  <2>1. ASSUME NEW d \in 0 .. q - 1, NEW r \in 0 .. q - 1
        PROVE  d * q + r < q * q
    <3>1. d + 1 <= q /\ (d + 1) * q = d * q + q
      OBVIOUS
    <3>2. (d + 1) * q <= q * q
      <4>1. \A x \in Nat, y \in Nat : x <= y => x * q <= y * q
        OBVIOUS
      <4> QED BY <3>1, <4>1
    <3>3. d * q \in Nat /\ q * q \in Nat
      OBVIOUS
    <3> QED BY <3>1, <3>2, <3>3
  <2> QED BY <2>1
<1>2. ASSUME NEW n \in Nat, n < q * q
      PROVE  n \div q < q
  <2>1. n = q * (n \div q) + (n % q) /\ n % q \in 0 .. q - 1 /\ n \div q \in Nat
    OBVIOUS
  <2>2. \A x \in Nat : q <= x => q * q <= q * x
    OBVIOUS
  <2>3. q * (n \div q) \in Nat /\ q * q \in Nat /\ n % q \in Nat
    BY <2>1
  <2> QED BY <1>2, <2>1, <2>2, <2>3
<1> QED BY <1>1, <1>2

\* A number put into the other byte order and back is the number.
LEMMA Swap16Twice ==
  ASSUME NEW n \in 0 .. Word - 1
  PROVE  Swap16(n) \in 0 .. Word - 1 /\ Swap16(Swap16(n)) = n
<1>1. PICK q \in Nat \ {0} : q = 256
  OBVIOUS
<1>2. Word = q * q /\ Word \in Nat
  <2>1. Word = q * q
    BY <1>1, Zenon DEF Word
  <2>2. q * q \in Nat
    <3> HIDE <1>1
    <3> QED OBVIOUS
  <2> QED BY <2>1, <2>2, Zenon
<1>3. \A x : Swap16(x) = (x % q) * q + ((x \div q) % q)
  BY <1>1 DEF Swap16
<1> HIDE <1>1
<1>4. n \in Nat /\ n \div q < q
  BY <1>2, Below
<1>5. PICK a \in 0 .. q - 1, b \in 0 .. q - 1 : n = a * q + b /\ n % q = b /\ n \div q = a
  BY <1>4, Digits
<1>6. a % q = a /\ b % q = b /\ a \in Nat /\ b \in Nat
  OBVIOUS
<1>7. (b * q + a) % q = a /\ (b * q + a) \div q = b
  BY <1>6, Number
<1>8. b * q + a < Word /\ b * q + a \in Nat
  BY <1>2, <1>6, Below, Number
<1>9. Swap16(n) = b * q + a
  BY <1>3, <1>5, <1>6
<1>10. Swap16(b * q + a) = a * q + b
  BY <1>3, <1>6, <1>7
<1> QED BY <1>2, <1>5, <1>8, <1>9, <1>10

\* htonl and ntohl, which swap the halves and the bytes of each half, undo each other.
LEMMA Swap32Twice ==
  ASSUME NEW n \in Nat, n \div Word < Word
  PROVE  Swap32(Swap32(n)) = n
<1>1. Word \in Nat \ {0}
  BY DEF Word
<1>2. PICK a \in 0 .. Word - 1, b \in 0 .. Word - 1 :
        n = a * Word + b /\ n % Word = b /\ n \div Word = a
  BY <1>1, Digits
<1>3. PICK c \in 0 .. Word - 1 : c = Swap16(a) /\ Swap16(c) = a
  BY Swap16Twice
<1>4. PICK d \in 0 .. Word - 1 : d = Swap16(b) /\ Swap16(d) = b
  BY Swap16Twice
<1>5. Swap32(n) = d * Word + c
  BY <1>2, <1>3, <1>4 DEF Swap32
<1>6. (d * Word + c) % Word = c /\ (d * Word + c) \div Word = d
  BY <1>1, Number
<1>7. Swap32(d * Word + c) = Swap16(c) * Word + Swap16(d)
  BY <1>6 DEF Swap32
<1> QED BY <1>2, <1>3, <1>4, <1>5, <1>7

\* The beginnings of a list.
LEMMA Prefixes ==
  ASSUME NEW s, NEW k \in Nat
  PROVE  /\ Len(Prefix(s, k)) = k
         /\ Append(Prefix(s, k), s[k + 1]) = Prefix(s, k + 1)
         /\ Prefix(s, 0) = <<>>
         /\ IsList(s) /\ k = Len(s) => Prefix(s, k) = s
<1>1. Prefix(s, k) \in Seq({s[i] : i \in 1 .. k}) /\ Len(Prefix(s, k)) = k
  BY DEF Prefix
<1>2. Append(Prefix(s, k), s[k + 1]) = Prefix(s, k + 1)
  <2> DEFINE p == Prefix(s, k)
             q == Append(p, s[k + 1])
             T == {s[i] : i \in 1 .. k + 1}
  <2>1. p \in Seq(T) /\ Len(p) = k /\ s[k + 1] \in T
    BY <1>1 DEF Prefix
  <2>2. q \in Seq(T) /\ Len(q) = k + 1
    BY <2>1, AppendProperties
  <2>3. \A i \in 1 .. k + 1 : q[i] = s[i]
    BY <2>1 DEF Prefix
  <2>4. Prefix(s, k + 1) \in Seq(T) /\ Len(Prefix(s, k + 1)) = k + 1
    BY DEF Prefix
  <2>5. \A i \in 1 .. k + 1 : Prefix(s, k + 1)[i] = s[i]
    BY DEF Prefix
  <2> HIDE DEF q, T
  <2>6. q = Prefix(s, k + 1)
    BY <2>2, <2>3, <2>4, <2>5, SeqEqual
  <2> QED BY <2>6 DEF q
<1>3. Prefix(s, 0) = <<>>
  BY DEF Prefix
<1>4. IsList(s) /\ k = Len(s) => Prefix(s, k) = s
  BY DEF Prefix, IsList
<1> QED BY <1>1, <1>2, <1>3, <1>4

\* What the recursive function Sums is.
LEMMA SumsSteps ==
  ASSUME NEW s, Len(s) \in Nat, \A i \in 1 .. Len(s) : s[i] \in Nat
  PROVE  /\ Sums(s)[0] = 0
         /\ \A k \in 1 .. Len(s) : Sums(s)[k] = Sums(s)[k - 1] + s[k]
         /\ \A k \in 0 .. Len(s) : Sums(s)[k] \in Nat
<1> DEFINE n == Len(s)
           Step(f, i) == IF i = 0 THEN 0 ELSE f[i - 1] + s[i]
           Is(f, k) == f = [i \in 0 .. k |-> Step(f, i)]
           T == {k \in Nat : k <= n => \E f : Is(f, k)}
<1>1. 0 \in T
  <2> DEFINE f == [i \in 0 .. 0 |-> 0]
  <2>1. Is(f, 0)
    OBVIOUS
  <2> QED BY <2>1
<1>2. ASSUME NEW k \in Nat, k \in T
      PROVE  k + 1 \in T
  <2>1. SUFFICES ASSUME k + 1 <= n
                 PROVE  \E f : Is(f, k + 1)
    OBVIOUS
  <2>2. PICK f : Is(f, k)
    BY <1>2, <2>1
  <2> DEFINE g == [i \in 0 .. k + 1 |-> IF i = k + 1 THEN f[k] + s[k + 1] ELSE f[i]]
  <2>3. ASSUME NEW i \in 0 .. k + 1
        PROVE  g[i] = Step(g, i)
    <3>1. CASE i = k + 1
      BY <3>1
    <3>2. CASE i # k + 1
      <4>1. i \in 0 .. k /\ g[i] = f[i] /\ (i # 0 => g[i - 1] = f[i - 1])
        BY <3>2
      <4>2. f[i] = Step(f, i)
        BY <2>2, <4>1
      <4> QED BY <4>1, <4>2
    <3> QED BY <3>1, <3>2
  <2>4. g = [i \in 0 .. k + 1 |-> Step(g, i)]
    <3>1. g = [i \in 0 .. k + 1 |-> g[i]]
      OBVIOUS
    <3> HIDE DEF g
    <3> QED BY <2>3, <3>1
  <2> HIDE DEF g
  <2> QED BY <2>4
<1>3. \E f : Is(f, n)
  <2> HIDE DEF T
  <2>1. Nat \subseteq T
    BY <1>1, <1>2, EveryNumber
  <2> QED BY <2>1 DEF T
<1> DEFINE sum == CHOOSE f : Is(f, n)
<1>4. Sums(s) = sum
  BY DEF Sums
<1>5. Is(sum, n)
  BY <1>3
<1> HIDE DEF sum
<1>6. Sums(s)[0] = 0 /\ \A k \in 1 .. n : Sums(s)[k] = Sums(s)[k - 1] + s[k]
  BY <1>4, <1>5
<1>7. \A k \in 0 .. n : Sums(s)[k] \in Nat
  <2> DEFINE U == {k \in Nat : k <= n => Sums(s)[k] \in Nat}
  <2>1. 0 \in U
    BY <1>6
  <2>2. ASSUME NEW k \in Nat, k \in U PROVE k + 1 \in U
    <3>1. SUFFICES ASSUME k + 1 <= n PROVE Sums(s)[k + 1] \in Nat
      OBVIOUS
    <3>2. Sums(s)[k] \in Nat /\ k + 1 \in 1 .. n /\ k + 1 - 1 = k /\ s[k + 1] \in Nat
      BY <2>2, <3>1
    <3>3. Sums(s)[k + 1] = Sums(s)[k] + s[k + 1]
      BY <1>6, <3>2
    <3> QED BY <3>2, <3>3
  <2> HIDE DEF U
  <2>3. Nat \subseteq U
    BY <2>1, <2>2, EveryNumber
  <2> QED BY <2>3 DEF U
<1> QED BY <1>6, <1>7

-----------------------------------------------------------------------------
(* The layout.                                                             *)

\* The sizes of the structs of messages.h.
LEMMA SizeIs ==
  /\ SizeOf["header"] = 8
  /\ SizeOf["ADD_TABLE_ENTRY"] = 140 /\ SizeOf["SET_DEFAULT_ACTION"] = 268
  /\ SizeOf["DIGEST"] = 140
  /\ SizeOf["action"] = 130 /\ SizeOf["param"] = 260 /\ SizeOf["digest_field"] = 164
  /\ SizeOf.header = 8 /\ SizeOf.param = 260
  /\ \A k \in Matched : SizeOf[k] \in Nat /\ SizeOf[k] >= 388
BY DEF SizeOf, Matched

\* How many structs a message has.
LEMMA Shape ==
  ASSUME NEW m, IsMessage(m)
  PROVE  /\ m.type \in {"ADD_TABLE_ENTRY", "SET_DEFAULT_ACTION", "DIGEST"}
         /\ Len(m.matches) \in Nat /\ DOMAIN m.matches = 1 .. Len(m.matches)
         /\ Len(m.params) \in Nat /\ DOMAIN m.params = 1 .. Len(m.params)
         /\ Before(m) \in Nat /\ Last(m) \in Nat /\ Last(m) = Before(m) + Len(m.params)
         /\ Before(m) = IF m.type = "DIGEST" THEN 0 ELSE Len(m.matches) + 1
         /\ m.type # "ADD_TABLE_ENTRY" => Len(m.matches) = 0
<1>1. /\ m.type \in {"ADD_TABLE_ENTRY", "SET_DEFAULT_ACTION", "DIGEST"}
      /\ Len(m.matches) \in Nat /\ DOMAIN m.matches = 1 .. Len(m.matches)
      /\ Len(m.params) \in Nat /\ DOMAIN m.params = 1 .. Len(m.params)
  <2>1. /\ m.type \in {"ADD_TABLE_ENTRY", "SET_DEFAULT_ACTION", "DIGEST"}
        /\ IsList(m.matches) /\ IsList(m.params)
    BY DEF IsMessage
  <2>2. ASSUME NEW s, IsList(s)
        PROVE  Len(s) \in Nat /\ DOMAIN s = 1 .. Len(s)
    <3>1. Len(s) \in Nat /\ s = [i \in 1 .. Len(s) |-> s[i]]
      BY <2>2 DEF IsList
    <3>2. DOMAIN [i \in 1 .. Len(s) |-> s[i]] = 1 .. Len(s)
      OBVIOUS
    <3> QED BY <3>1, <3>2
  <2> QED BY <2>1, <2>2
<1>2. m.type # "ADD_TABLE_ENTRY" => Len(m.matches) = 0
  BY DEF IsMessage
<1>3. Before(m) = IF m.type = "DIGEST" THEN 0 ELSE Len(m.matches) + 1
  BY DEF Before
<1>4. Last(m) = Before(m) + Len(m.params)
  BY DEF Last
<1>5. Before(m) \in Nat /\ Last(m) \in Nat
  <2>1. PICK l \in Nat : l = Len(m.matches)
    BY <1>1
  <2>2. PICK p \in Nat : p = Len(m.params)
    BY <1>1
  <2>3. Before(m) = 0 \/ Before(m) = l + 1
    BY <1>3, <2>1
  <2> QED BY <1>4, <2>2, <2>3
<1> QED BY <1>1, <1>2, <1>3, <1>4, <1>5

\* The sizes of the matches, summed up.
LEMMA MatchSums ==
  ASSUME NEW m, IsMessage(m)
  PROVE  /\ Sums(Sizes(m))[0] = 0
         /\ \A k \in 1 .. Len(m.matches) :
              /\ Size(m, k) \in Nat /\ Size(m, k) >= 388
              /\ Sums(Sizes(m))[k] = Sums(Sizes(m))[k - 1] + Size(m, k)
         /\ \A k \in 0 .. Len(m.matches) :
              Sums(Sizes(m))[k] \in Nat /\ Sums(Sizes(m))[k] >= 388 * k
<1> DEFINE L == Len(m.matches)
           s == Sizes(m)
<1>1. L \in Nat /\ DOMAIN m.matches = 1 .. L
  BY Shape
<1>2. \A k \in 1 .. L : s[k] = Size(m, k) /\ Size(m, k) \in Nat /\ Size(m, k) >= 388
  <2>1. \A k \in 1 .. L : m.matches[k].kind \in Matched
    BY <1>1 DEF IsMessage
  <2>2. \A k \in 1 .. L : s[k] = SizeOf[m.matches[k].kind] /\ Size(m, k) = SizeOf[m.matches[k].kind]
    BY <1>1 DEF Sizes, Size
  <2> QED BY <2>1, <2>2, SizeIs
<1>3. s \in Seq(Nat) /\ Len(s) = L
  <2>1. s = [i \in 1 .. L |-> SizeOf[m.matches[i].kind]]
    BY <1>1 DEF Sizes
  <2>2. s \in [1 .. L -> Nat]
    BY <1>2, <2>1
  <2> HIDE DEF s
  <2> QED BY <1>1, <2>2
<1> HIDE DEF s
<1>4. /\ Sums(s)[0] = 0
      /\ \A k \in 1 .. L : Sums(s)[k] = Sums(s)[k - 1] + s[k]
      /\ \A k \in 0 .. L : Sums(s)[k] \in Nat
  BY <1>1, <1>2, <1>3, SumsSteps
<1>5. \A k \in 0 .. L : Sums(s)[k] >= 388 * k
  <2> DEFINE T == {k \in Nat : k <= L => Sums(s)[k] >= 388 * k}
  <2>1. 0 \in T
    BY <1>4
  <2>2. ASSUME NEW k \in Nat, k \in T PROVE k + 1 \in T
    <3>1. SUFFICES ASSUME k + 1 <= L PROVE Sums(s)[k + 1] >= 388 * (k + 1)
      OBVIOUS
    <3>2. /\ k \in 0 .. L /\ k + 1 \in 1 .. L /\ k + 1 - 1 = k
          /\ Sums(s)[k] >= 388 * k
      BY <1>1, <2>2, <3>1
    <3>3. Sums(s)[k + 1] = Sums(s)[k] + s[k + 1] /\ s[k + 1] >= 388 /\ s[k + 1] \in Nat
      BY <1>2, <1>4, <3>2
    <3>4. Sums(s)[k] \in Nat
      BY <1>4, <3>2
    <3> QED BY <3>2, <3>3, <3>4
  <2> HIDE DEF T
  <2>3. Nat \subseteq T
    BY <2>1, <2>2, EveryNumber
  <2> QED BY <1>1, <2>3 DEF T
<1> QED BY <1>2, <1>4, <1>5 DEF s

\* The first struct, and each behind the one before it; the action of a
\* p4_set_default_action is inside the fixed part, which ends two bytes after it.
LEMMA Layout ==
  ASSUME NEW m, IsMessage(m)
  PROVE  /\ At(m, 1) = IF m.type = "SET_DEFAULT_ACTION" THEN EmbeddedAction ELSE SizeOf[m.type]
         /\ m.type # "ADD_TABLE_ENTRY" => At(m, Before(m) + 1) = SizeOf[m.type]
         /\ \A i \in 1 .. Last(m) : Size(m, i) \in Nat /\ Size(m, i) > 0
         /\ \A i \in 1 .. Last(m) + 1 : At(m, i) \in Nat
         /\ \A i \in 1 .. Last(m) :
              At(m, i + 1) = IF m.type = "SET_DEFAULT_ACTION" /\ i = 1 THEN At(m, i) + Size(m, i) + 2
                             ELSE At(m, i) + Size(m, i)
<1>0. PICK L \in Nat, B \in Nat, P \in Nat : L = Len(m.matches) /\ B = Before(m) /\ P = Len(m.params)
  BY Shape
<1> DEFINE S == Sums(Sizes(m))
<1>1. /\ Last(m) = B + P /\ Last(m) \in Nat
      /\ B = IF m.type = "DIGEST" THEN 0 ELSE L + 1
      /\ m.type \in {"ADD_TABLE_ENTRY", "SET_DEFAULT_ACTION", "DIGEST"}
      /\ m.type # "ADD_TABLE_ENTRY" => L = 0
  BY <1>0, Shape
<1>2. /\ S[0] = 0
      /\ \A k \in 1 .. L : Size(m, k) \in Nat /\ Size(m, k) >= 388 /\ S[k] = S[k - 1] + Size(m, k)
      /\ \A k \in 0 .. L : S[k] \in Nat
  BY <1>0, MatchSums
<1> HIDE DEF S
<1>3. CASE m.type = "ADD_TABLE_ENTRY"
  <2>1. /\ \A i \in 1 .. L + 1 : At(m, i) = 140 + S[i - 1]
        /\ \A i \in Nat : i > L + 1 => At(m, i) = 140 + S[L] + 130 + (i - B - 1) * 260
    BY <1>0, <1>1, <1>3, SizeIs DEF At, ParamsAt, FieldKind, S
  <2>2. Size(m, L + 1) = 130 /\ \A i \in Nat : i > L + 1 => Size(m, i) = 260
    BY <1>0, <1>1, <1>3, SizeIs DEF Size, FieldKind
  <2>3. \A i \in 1 .. Last(m) : Size(m, i) \in Nat /\ Size(m, i) > 0
    BY <1>1, <1>2, <2>2
  <2>4. ASSUME NEW i \in 1 .. Last(m) + 1
        PROVE  At(m, i) \in Nat
    <3>1. CASE i <= L + 1
      BY <1>1, <1>2, <2>1, <3>1
    <3>2. CASE i > L + 1
      BY <1>1, <1>2, <1>3, <2>1, <3>2
    <3> QED BY <1>1, <3>1, <3>2
  <2>5. ASSUME NEW i \in 1 .. Last(m)
        PROVE  At(m, i + 1) = At(m, i) + Size(m, i)
    <3>1. CASE i <= L
      <4>1. i + 1 \in 1 .. L + 1 /\ i \in 1 .. L + 1 /\ i \in 1 .. L /\ i + 1 - 1 = i
        BY <1>1, <3>1
      <4>2. At(m, i + 1) = 140 + S[i] /\ At(m, i) = 140 + S[i - 1]
        BY <2>1, <4>1
      <4>3. S[i] = S[i - 1] + Size(m, i) /\ S[i - 1] \in Nat /\ Size(m, i) \in Nat
        BY <1>2, <4>1
      <4> QED BY <4>2, <4>3
    <3>2. CASE i = L + 1
      <4>1. At(m, i) = 140 + S[L] /\ At(m, i + 1) = 140 + S[L] + 130 + (i + 1 - B - 1) * 260
        <5>1. i \in 1 .. L + 1 /\ i - 1 = L /\ i + 1 \in Nat /\ i + 1 > L + 1
          BY <1>1, <3>2
        <5>2. At(m, i) = 140 + S[i - 1]
          BY <2>1, <5>1
        <5>3. At(m, i + 1) = 140 + S[L] + 130 + (i + 1 - B - 1) * 260
          BY <2>1, <5>1
        <5> QED BY <5>1, <5>2, <5>3
      <4>2. i + 1 - B - 1 = 0 /\ S[L] \in Nat
        BY <1>1, <1>2, <1>3, <3>2
      <4> QED BY <2>2, <3>2, <4>1, <4>2
    <3>3. CASE i > L + 1
      <4>1. /\ At(m, i) = 140 + S[L] + 130 + (i - B - 1) * 260
            /\ At(m, i + 1) = 140 + S[L] + 130 + (i + 1 - B - 1) * 260
            /\ Size(m, i) = 260
        BY <1>1, <2>1, <2>2, <3>3
      <4>2. S[L] \in Nat /\ i \in Nat /\ B \in Nat
        BY <1>1, <1>2, <1>3
      <4> QED BY <4>1, <4>2
    <3> QED BY <1>1, <3>1, <3>2, <3>3
  <2>6. At(m, 1) = 140
    BY <1>1, <1>2, <2>1
  <2> QED BY <1>3, <2>3, <2>4, <2>5, <2>6, SizeIs
<1>4. CASE m.type = "SET_DEFAULT_ACTION"
  <2>0. B = 1 /\ Last(m) \in Nat
    <3>1. m.type # "ADD_TABLE_ENTRY" /\ m.type # "DIGEST"
      BY <1>4
    <3>2. L = 0 /\ B = L + 1
      BY <1>1, <3>1
    <3> QED BY <1>1, <3>2
  <2>1. At(m, 1) = 136 /\ \A i \in Nat : i > 1 => At(m, i) = 268 + (i - 2) * 260
    <3>1. L = 0 /\ B = 1 /\ m.type # "ADD_TABLE_ENTRY" /\ m.type # "DIGEST"
      BY <1>1, <1>4, <2>0
    <3>2. At(m, 1) = 136
      BY <1>4 DEF At, EmbeddedAction
    <3>3. ParamsAt(m) = 268 /\ SizeOf[FieldKind(m)] = 260
      BY <1>0, <1>2, <1>4, <3>1, SizeIs DEF ParamsAt, FieldKind, S
    <3>4. ASSUME NEW i \in Nat, i > 1
          PROVE  At(m, i) = 268 + (i - 2) * 260
      <4>1. ~(i <= Len(m.matches) + 1) /\ i # 1
        BY <1>0, <3>1, <3>4
      <4>2. At(m, i) = ParamsAt(m) + (i - Before(m) - 1) * SizeOf[FieldKind(m)]
        BY <4>1 DEF At
      <4>3. i - Before(m) - 1 = i - 2
        BY <1>0, <3>1
      <4> QED BY <3>3, <4>2, <4>3
    <3> QED BY <3>2, <3>4
  <2>2. Size(m, 1) = 130 /\ \A i \in Nat : i > 1 => Size(m, i) = 260
    BY <1>0, <1>1, <1>4, SizeIs DEF Size, FieldKind
  <2>4. /\ \A i \in 1 .. Last(m) : Size(m, i) \in Nat /\ Size(m, i) > 0
        /\ \A i \in 1 .. Last(m) + 1 : At(m, i) \in Nat
        /\ \A i \in 1 .. Last(m) :
             At(m, i + 1) = IF i = 1 THEN At(m, i) + Size(m, i) + 2 ELSE At(m, i) + Size(m, i)
    BY <2>1, <2>2, <2>0
  <2> QED BY <1>4, <2>0, <2>1, <2>4, <1>0, SizeIs DEF EmbeddedAction
<1>5. CASE m.type = "DIGEST"
  <2>1. \A i \in Nat : i > 0 => At(m, i) = 140 + (i - 1) * 164
    BY <1>0, <1>1, <1>2, <1>5, SizeIs DEF At, ParamsAt, FieldKind, S
  <2>2. \A i \in Nat : i > 0 => Size(m, i) = 164
    BY <1>0, <1>1, <1>5, SizeIs DEF Size, FieldKind
  <2>3. B = 0 /\ Last(m) \in Nat
    BY <1>1, <1>5
  <2>4. /\ \A i \in 1 .. Last(m) : Size(m, i) \in Nat /\ Size(m, i) > 0
        /\ \A i \in 1 .. Last(m) + 1 : At(m, i) \in Nat
        /\ \A i \in 1 .. Last(m) : At(m, i + 1) = At(m, i) + Size(m, i)
    BY <2>1, <2>2, <2>3
  <2> QED BY <1>5, <2>1, <2>3, <2>4, <1>0, SizeIs
<1> QED BY <1>1, <1>3, <1>4, <1>5

\* Hence each struct ends before any later one begins.
LEMMA InOrder ==
  ASSUME NEW m, IsMessage(m), NEW i \in 1 .. Last(m), NEW j \in 1 .. Last(m) + 1, i < j
  PROVE  At(m, i) + Size(m, i) <= At(m, j)
<1> DEFINE T == {k \in Nat : i + 1 + k <= Last(m) + 1 => At(m, i) + Size(m, i) <= At(m, i + 1 + k)}
<1>0. Last(m) \in Nat
  BY Shape
<1>1. 0 \in T
  <2>1. At(m, i) \in Nat /\ Size(m, i) \in Nat /\ i + 1 + 0 = i + 1
    BY <1>0, Layout
  <2>2. At(m, i + 1) = At(m, i) + Size(m, i) \/ At(m, i + 1) = At(m, i) + Size(m, i) + 2
    BY Layout
  <2> QED BY <2>1, <2>2
<1>2. ASSUME NEW k \in Nat, k \in T PROVE k + 1 \in T
  <2> DEFINE l == i + 1 + k
  <2>1. SUFFICES ASSUME l + 1 <= Last(m) + 1 PROVE At(m, i) + Size(m, i) <= At(m, l + 1)
    OBVIOUS
  <2>2. l \in 1 .. Last(m) /\ l <= Last(m) + 1 /\ At(m, i) + Size(m, i) <= At(m, l)
    BY <1>0, <1>2, <2>1
  <2> HIDE DEF l
  <2>3. /\ l \in 1 .. Last(m) + 1 /\ At(m, i) \in Nat /\ Size(m, i) \in Nat
        /\ At(m, l) \in Nat /\ Size(m, l) \in Nat
    BY <1>0, <2>2, Layout
  <2>4. At(m, l + 1) = At(m, l) + Size(m, l) \/ At(m, l + 1) = At(m, l) + Size(m, l) + 2
    BY <2>2, Layout
  <2> QED BY <2>2, <2>3, <2>4
<1> HIDE DEF T
<1>3. Nat \subseteq T
  BY <1>1, <1>2, EveryNumber
<1>4. j - i - 1 \in Nat /\ i + 1 + (j - i - 1) = j
  BY <1>0
<1> QED BY <1>3, <1>4 DEF T

\* No two structs begin at the same offset.
LEMMA Different ==
  ASSUME NEW m, IsMessage(m), NEW i \in 1 .. Last(m), NEW j \in 1 .. Last(m), i # j
  PROVE  At(m, i) # At(m, j)
<1>1. ASSUME NEW a \in 1 .. Last(m), NEW b \in 1 .. Last(m), a < b
      PROVE  At(m, a) < At(m, b)
  <2>1. At(m, a) + Size(m, a) <= At(m, b) /\ Last(m) \in Nat
    BY <1>1, InOrder, Shape
  <2>2. At(m, a) \in Nat /\ At(m, b) \in Nat /\ Size(m, a) \in Nat /\ Size(m, a) > 0
    BY <2>1, Layout
  <2> QED BY <2>1, <2>2
<1>2. i < j \/ j < i
  BY Shape
<1>3. At(m, i) \in Nat /\ At(m, j) \in Nat
  BY Shape, Layout
<1> QED BY <1>1, <1>2, <1>3

\* The numbers of its matches, of the structs before the parameters, of the
\* parameters and of all structs.
LEMMA Numbers ==
  ASSUME NEW m, IsMessage(m)
  PROVE  \E L \in Nat, B \in Nat, P \in Nat, E \in Nat :
           /\ L = Len(m.matches) /\ B = Before(m) /\ P = Len(m.params) /\ E = Last(m)
           /\ E = B + P
           /\ m.type = "DIGEST" => L = 0 /\ B = 0
           /\ m.type # "DIGEST" => B = L + 1
<1>1. /\ Len(m.matches) \in Nat /\ Len(m.params) \in Nat
      /\ Before(m) \in Nat /\ Last(m) \in Nat /\ Last(m) = Before(m) + Len(m.params)
      /\ Before(m) = IF m.type = "DIGEST" THEN 0 ELSE Len(m.matches) + 1
      /\ m.type # "ADD_TABLE_ENTRY" => Len(m.matches) = 0
  BY Shape, Zenon
<1>2. m.type = "DIGEST" => Len(m.matches) = 0 /\ Before(m) = 0
  BY <1>1, Zenon
<1>3. m.type # "DIGEST" => Before(m) = Len(m.matches) + 1
  BY <1>1, Zenon
<1> QED BY <1>1, <1>2, <1>3, Zenon

\* Behind the action the parameters lie one after the other.
LEMMA AtParams ==
  ASSUME NEW m, NEW i, ~(i <= Len(m.matches) + 1), ~(m.type = "SET_DEFAULT_ACTION" /\ i = 1)
  PROVE  At(m, i) = ParamsAt(m) + (i - Before(m) - 1) * SizeOf[FieldKind(m)]
BY Zenon DEF At

\* Where a message ends, and how many matches and parameters a buffer can hold.
LEMMA EndAt ==
  ASSUME NEW m, IsMessage(m)
  PROVE  /\ At(m, Last(m) + 1) = ParamsAt(m) + Len(m.params) * SizeOf[FieldKind(m)]
         /\ ParamsAt(m) \in Nat /\ ParamsAt(m) >= 388 * Len(m.matches)
<1>0. PICK L \in Nat, B \in Nat, P \in Nat, E \in Nat :
        /\ L = Len(m.matches) /\ B = Before(m) /\ P = Len(m.params) /\ E = Last(m)
        /\ E = B + P
        /\ m.type = "DIGEST" => L = 0 /\ B = 0
        /\ m.type # "DIGEST" => B = L + 1
  BY Numbers
<1>1. m.type \in {"ADD_TABLE_ENTRY", "SET_DEFAULT_ACTION", "DIGEST"}
  BY Shape
<1>2. PICK s \in Nat : s = Sums(Sizes(m))[L] /\ s >= 388 * L /\ (L = 0 => s = 0)
  BY <1>0, MatchSums
<1>3. PICK h \in Nat : h = SizeOf[m.type]
  BY <1>1, SizeIs
<1>4. ParamsAt(m) = h + s + (IF m.type = "ADD_TABLE_ENTRY" THEN 130 ELSE 0)
  BY <1>0, <1>2, <1>3, SizeIs DEF ParamsAt
<1>5. ParamsAt(m) \in Nat /\ ParamsAt(m) >= 388 * L
  BY <1>2, <1>4
<1>6. (E + 1) - B - 1 = P
  BY <1>0
<1>7. CASE m.type # "DIGEST"
  <2>1. B = L + 1 /\ E = B + P
    BY <1>0, <1>7
  <2>2. ~(E + 1 <= L + 1) /\ E + 1 # 1
    BY <2>1
  <2>3. At(m, E + 1) = ParamsAt(m) + ((E + 1) - B - 1) * SizeOf[FieldKind(m)]
    <3>1. ~(E + 1 <= Len(m.matches) + 1) /\ E + 1 # 1
      BY <1>0, <2>2, Zenon
    <3>2. At(m, E + 1) = ParamsAt(m) + ((E + 1) - Before(m) - 1) * SizeOf[FieldKind(m)]
      BY <3>1, AtParams, Zenon
    <3> QED BY <1>0, <3>2, Zenon
  <2> QED BY <1>0, <1>5, <1>6, <2>3, Zenon
<1>8. CASE m.type = "DIGEST"
  <2>1. FieldKind(m) = "digest_field" /\ L = 0 /\ B = 0 /\ s = 0 /\ ParamsAt(m) = h
    <3>1. FieldKind(m) = "digest_field" /\ m.type # "ADD_TABLE_ENTRY"
      BY <1>8 DEF FieldKind
    <3>2. L = 0 /\ B = 0
      BY <1>0, <1>8
    <3> QED BY <1>2, <1>4, <3>1, <3>2
  <2>2. CASE P = 0
    <3>1. E + 1 = 1
      BY <1>0, <2>1, <2>2
    <3>2. At(m, 1) = ParamsAt(m)
      BY <1>3, <1>8, <2>1, Layout
    <3>3. ParamsAt(m) + 0 * SizeOf[FieldKind(m)] = ParamsAt(m)
      BY <1>5, <2>1, SizeIs
    <3> QED BY <1>0, <1>5, <2>2, <3>1, <3>2, <3>3, Zenon
  <2>3. CASE P # 0
    <3>1. ~(E + 1 <= L + 1) /\ m.type # "SET_DEFAULT_ACTION"
      BY <1>0, <1>8, <2>1, <2>3
    <3>2. At(m, E + 1) = ParamsAt(m) + ((E + 1) - B - 1) * SizeOf[FieldKind(m)]
      <4>1. ~(E + 1 <= Len(m.matches) + 1) /\ m.type # "SET_DEFAULT_ACTION"
        BY <1>0, <3>1, Zenon
      <4>2. At(m, E + 1) = ParamsAt(m) + ((E + 1) - Before(m) - 1) * SizeOf[FieldKind(m)]
        BY <4>1, AtParams, Zenon
      <4> QED BY <1>0, <4>2, Zenon
    <3> QED BY <1>0, <1>5, <1>6, <3>2, Zenon
  <2> QED BY <2>2, <2>3
<1> QED BY <1>7, <1>8

\* A length that a buffer can have is a uint16_t.
LEMMA Length ==
  /\ MaxLength \in Nat /\ MaxLength <= 2600
  /\ \A n \in Nat : n <= MaxLength => n \in 0 .. Word - 1
<1>1. MaxLength \in 1 .. 10 * 260
  BY MessagesAssumption, SizeIs DEF P4_MAX
<1>2. Word \in Nat /\ 2600 <= Word - 1
  BY DEF Word
<1> QED BY <1>1, <1>2

\* A buffer has no room for more than P4_MAX matches or parameters: no message that was
\* built is refused by handlers.c for having too many.
LEMMA Few ==
  ASSUME NEW m, IsMessage(m), m.type # "DIGEST", At(m, Last(m) + 1) <= MaxLength
  PROVE  Len(m.matches) <= P4_MAX /\ Len(m.params) <= P4_MAX
<1>1. PICK L \in Nat, P \in Nat : L = Len(m.matches) /\ P = Len(m.params)
  BY Shape
<1>2. SizeOf[FieldKind(m)] = 260
  BY SizeIs DEF FieldKind
<1>3. PICK a \in Nat : a = ParamsAt(m) /\ a >= 388 * L
  BY <1>1, EndAt
<1>4. a + P * 260 <= 2600
  BY <1>1, <1>2, <1>3, EndAt, Length
<1> QED BY <1>1, <1>3, <1>4 DEF P4_MAX

\* No struct reaches beyond the end.
LEMMA Within ==
  ASSUME NEW m, IsMessage(m)
  PROVE  /\ At(m, Last(m) + 1) \in Nat
         /\ \A i \in 1 .. Last(m) : At(m, i) + Size(m, i) <= At(m, Last(m) + 1)
         /\ \A i \in 1 .. Last(m) + 1 : At(m, i) <= At(m, Last(m) + 1)
<1>1. Last(m) \in Nat
  BY Shape
<1>2. \A i \in 1 .. Last(m) + 1 : At(m, i) \in Nat
  BY Layout
<1>3. ASSUME NEW i \in 1 .. Last(m)
      PROVE  At(m, i) + Size(m, i) <= At(m, Last(m) + 1)
  BY <1>1, InOrder
<1>4. ASSUME NEW i \in 1 .. Last(m) + 1
      PROVE  At(m, i) <= At(m, Last(m) + 1)
  <2>1. CASE i = Last(m) + 1
    BY <1>1, <1>2, <2>1
  <2>2. CASE i \in 1 .. Last(m)
    <3>1. Size(m, i) \in Nat /\ At(m, i) \in Nat /\ At(m, Last(m) + 1) \in Nat
      BY <1>1, <1>2, <2>2, Layout
    <3> QED BY <1>3, <2>2, <3>1
  <2> QED BY <1>1, <2>1, <2>2
<1> QED BY <1>1, <1>2, <1>3, <1>4

-----------------------------------------------------------------------------
(* What is built, what is sent, and what is read.                          *)

\* What each struct is as it is built, and that only the action changes later.
LEMMA Built ==
  ASSUME NEW m, IsMessage(m), NEW n, NEW i \in 1 .. Last(m)
  PROVE  /\ SizeOf[Item(m, i, n).struct] = Size(m, i)
         /\ i <= Len(m.matches) => Item(m, i, n) = Struct(m.matches[i].kind, m.matches[i])
         /\ i > Before(m) => Item(m, i, n) = Struct(FieldKind(m), FieldOf(m, i - Before(m)))
         /\ i > Len(m.matches) /\ i <= Before(m) =>
              /\ i = Before(m) /\ i = Len(m.matches) + 1 /\ m.type # "DIGEST"
              /\ Item(m, i, n) = [struct |-> "action", name |-> m.action, count |-> n]
         /\ i # Before(m) => \A k : Item(m, i, k) = Item(m, i, n)
<1>0. PICK L \in Nat, B \in Nat : L = Len(m.matches) /\ B = Before(m)
  BY Shape
<1>1. (B = IF m.type = "DIGEST" THEN 0 ELSE L + 1) /\ i \in Nat /\ i > 0
      /\ (m.type # "ADD_TABLE_ENTRY" => L = 0)
  BY <1>0, Shape
<1>2. CASE i <= L
  <2>1. \A k : Item(m, i, k) = Struct(m.matches[i].kind, m.matches[i])
    BY <1>0, <1>2 DEF Item
  <2>2. Size(m, i) = SizeOf[m.matches[i].kind]
    BY <1>0, <1>2 DEF Size
  <2>3. Struct(m.matches[i].kind, m.matches[i]).struct = m.matches[i].kind
    BY DEF Struct
  <2>4. ~(i > B)
    BY <1>1, <1>2
  <2> QED BY <1>0, <1>2, <2>1, <2>2, <2>3, <2>4
<1>3. CASE i > L /\ i <= B
  <2>1. \A k : Item(m, i, k) = [struct |-> "action", name |-> m.action, count |-> k]
    BY <1>0, <1>3 DEF Item
  <2>2. Size(m, i) = SizeOf["action"]
    BY <1>0, <1>3 DEF Size
  <2>3. m.type # "DIGEST" /\ i = B /\ i = L + 1
    BY <1>1, <1>3
  <2> QED BY <1>0, <1>3, <2>1, <2>2, <2>3
<1>4. CASE i > L /\ i > B
  <2>1. \A k : Item(m, i, k) = Struct(FieldKind(m), FieldOf(m, i - Before(m)))
    BY <1>0, <1>4 DEF Item
  <2>2. Size(m, i) = SizeOf[FieldKind(m)]
    BY <1>0, <1>4 DEF Size
  <2>3. Struct(FieldKind(m), FieldOf(m, i - Before(m))).struct = FieldKind(m)
    BY DEF Struct
  <2> QED BY <1>0, <1>4, <2>1, <2>2, <2>3
<1> QED BY <1>0, <1>1, <1>2, <1>3, <1>4

\* A struct with a number.
Cell(k, x, y, z) == [struct |-> k, name |-> x, value |-> y, bits |-> z]

\* A struct that is converted twice has its number again.
LEMMA ConvertedTwice ==
  ASSUME NEW k, NEW x, NEW y, NEW z
  PROVE  /\ k \in Matched /\ z \in 0 .. Word - 1 =>
              /\ Converted(Cell(k, x, y, z))
                   = Cell(k, x, y, Swap16(z))
              /\ Unpacked(Cell(k, x, y, Swap16(z)))
                   = Cell(k, x, y, z)
         /\ k \in {"param", "digest_field"} /\ z \in Nat /\ z \div Word < Word =>
              /\ Converted(Cell(k, x, y, z))
                   = Cell(k, x, y, Swap32(z))
              /\ Unpacked(Cell(k, x, y, Swap32(z)))
                   = Cell(k, x, y, z)
<1> DEFINE r(b) == [struct |-> k, name |-> x, value |-> y, bits |-> b]
<1>1. k \in Matched => \A b : Converted(r(b)) = r(Swap16(b))
  BY DEF Converted, Matched
<1>2. k \in {"param", "digest_field"} => \A b : Converted(r(b)) = r(Swap32(b))
  BY DEF Converted
<1>3. \A s : Unpacked(s) = Converted(s)
  BY DEF Unpacked
<1> HIDE DEF r
<1>4. k \in Matched /\ z \in 0 .. Word - 1 =>
        Converted(r(z)) = r(Swap16(z)) /\ Unpacked(r(Swap16(z))) = r(z)
  BY <1>1, <1>3, Swap16Twice, Zenon
<1>5. k \in {"param", "digest_field"} /\ z \in Nat /\ z \div Word < Word =>
        Converted(r(z)) = r(Swap32(z)) /\ Unpacked(r(Swap32(z))) = r(z)
  BY <1>2, <1>3, Swap32Twice, Zenon
<1>6. \A b : Cell(k, x, y, b) = r(b)
  BY DEF Cell, r
<1> QED BY <1>4, <1>5, <1>6, Zenon

\* A match is read as it was meant, at every offset the sum of the sizes before it.
LEMMA MatchSent ==
  ASSUME NEW m, IsMessage(m), NEW i \in 1 .. Len(m.matches)
  PROVE  /\ i \in 1 .. Last(m) /\ Sent(m, i).struct \in Matched
         /\ SizeOf[Sent(m, i).struct] = Size(m, i)
         /\ SizeOf[Unpacked(Sent(m, i)).struct] = Size(m, i)
         /\ LET u == Unpacked(Sent(m, i))
            IN Match(u.struct, u.name, u.value, u.bits) = m.matches[i]
<1> DEFINE f == m.matches[i]
           r(b) == Cell(f.kind, f.name, f.value, b)
<1>0. PICK L \in Nat, B \in Nat, P \in Nat, E \in Nat :
        /\ L = Len(m.matches) /\ B = Before(m) /\ P = Len(m.params) /\ E = Last(m)
        /\ E = B + P
        /\ m.type = "DIGEST" => L = 0 /\ B = 0
        /\ m.type # "DIGEST" => B = L + 1
  BY Numbers
<1>1. i \in 1 .. L /\ i \in DOMAIN m.matches
  BY <1>0, Shape, Zenon
<1>2. m.type # "DIGEST" /\ i \in 1 .. E /\ i <= L
  BY <1>0, <1>1
<1>3. f = Match(f.kind, f.name, f.value, f.bits)
  BY <1>1 DEF IsMessage
<1>3a. f.kind \in Matched /\ f.bits \in 0 .. Word - 1
  BY <1>1 DEF IsMessage
<1>4. i \in 1 .. Last(m) /\ i <= Len(m.matches)
  BY <1>0, <1>2, Zenon
<1>5. Item(m, i, Len(m.params)) = Struct(f.kind, f) /\ Size(m, i) = SizeOf[f.kind]
  BY <1>4, Zenon DEF Item, Size
<1>6. Sent(m, i) = Converted(r(f.bits))
  <2>1. Struct(f.kind, f) = r(f.bits)
    BY DEF Struct, Cell
  <2> QED BY <1>2, <1>5, <2>1, Zenon DEF Sent
<1>7. Sent(m, i) = r(Swap16(f.bits)) /\ Unpacked(Sent(m, i)) = r(f.bits)
  <2> HIDE DEF f
  <2> QED BY <1>3a, <1>6, ConvertedTwice
<1>8. \A b : r(b).struct = f.kind /\ r(b).name = f.name /\ r(b).value = f.value /\ r(b).bits = b
  BY DEF Cell
<1> HIDE DEF r, f
<1>9. /\ Sent(m, i).struct \in Matched /\ SizeOf[Sent(m, i).struct] = Size(m, i)
      /\ SizeOf[Unpacked(Sent(m, i)).struct] = Size(m, i)
  BY <1>3a, <1>5, <1>7, <1>8, Zenon
<1>10. Match(r(f.bits).struct, r(f.bits).name, r(f.bits).value, r(f.bits).bits) = f
  BY <1>3, <1>8, Zenon
<1> QED BY <1>4, <1>7, <1>9, <1>10, Zenon DEF f

\* So are the action, with the number of its parameters,
LEMMA ActionSent ==
  ASSUME NEW m, IsMessage(m), m.type # "DIGEST"
  PROVE  /\ Before(m) = Len(m.matches) + 1 /\ Before(m) \in 1 .. Last(m)
         /\ Sent(m, Before(m)) = [struct |-> "action", name |-> m.action, count |-> Len(m.params)]
         /\ Size(m, Before(m)) = 130 /\ SizeOf[Sent(m, Before(m)).struct] = Size(m, Before(m))
<1> DEFINE a == [struct |-> "action", name |-> m.action, count |-> Len(m.params)]
<1>0. PICK L \in Nat, B \in Nat, P \in Nat, E \in Nat :
        /\ L = Len(m.matches) /\ B = Before(m) /\ P = Len(m.params) /\ E = Last(m)
        /\ E = B + P
        /\ m.type = "DIGEST" => L = 0 /\ B = 0
        /\ m.type # "DIGEST" => B = L + 1
  BY Numbers
<1>1. B = L + 1 /\ E = B + P
  BY <1>0
<1>2. B \in 1 .. E /\ ~(B <= L) /\ B <= B
  BY <1>1
<1>3. Item(m, B, Len(m.params)) = a /\ Size(m, B) = SizeOf["action"]
  BY <1>0, <1>2, Zenon DEF Item, Size
<1>4. Sent(m, B) = Converted(a)
  BY <1>3, Zenon DEF Sent
<1>5. Converted(a) = a /\ a.struct = "action"
  BY DEF Converted
<1> HIDE DEF a
<1>6. Sent(m, B) = a /\ SizeOf[Sent(m, B).struct] = Size(m, B) /\ Size(m, B) = 130
  <2>1. SizeOf["action"] = 130
    BY SizeIs
  <2> QED BY <1>3, <1>4, <1>5, <2>1
<1> QED BY <1>0, <1>1, <1>2, <1>6, Zenon DEF a

\* and each parameter or field, the fields without their names.
LEMMA FieldSent ==
  ASSUME NEW m, IsMessage(m), NEW j \in 1 .. Len(m.params)
  PROVE  /\ Before(m) + j \in 1 .. Last(m)
         /\ Sent(m, Before(m) + j).struct = FieldKind(m)
         /\ SizeOf[Sent(m, Before(m) + j).struct] = Size(m, Before(m) + j)
         /\ SizeOf[Unpacked(Sent(m, Before(m) + j)).struct] = Size(m, Before(m) + j)
         /\ LET u == Unpacked(Sent(m, Before(m) + j))
            IN Param(u.name, u.value, u.bits) = Given(m)[j]
<1> DEFINE f == m.params[j]
           g == IF m.type = "DIGEST" THEN "" ELSE f.name
           r(b) == Cell(FieldKind(m), g, f.value, b)
<1>0. PICK L \in Nat, B \in Nat, P \in Nat, E \in Nat :
        /\ L = Len(m.matches) /\ B = Before(m) /\ P = Len(m.params) /\ E = Last(m)
        /\ E = B + P
        /\ m.type = "DIGEST" => L = 0 /\ B = 0
        /\ m.type # "DIGEST" => B = L + 1
  BY Numbers
<1>1. j \in 1 .. P /\ j \in DOMAIN m.params
  BY <1>0, Shape, Zenon
<1>2. PICK i \in 1 .. E : i = B + j /\ ~(i <= L) /\ ~(i <= B) /\ i - B = j
  <2>1. E = B + P /\ ((L = 0 /\ B = 0) \/ B = L + 1)
    BY <1>0, Zenon
  <2>2. PICK n \in 1 .. P : n = j
    BY <1>1, Zenon
  <2>3. B + n \in 1 .. E /\ ~(B + n <= L) /\ ~(B + n <= B) /\ (B + n) - B = n
    BY <2>1
  <2> QED BY <2>2, <2>3, Zenon
<1>3. f = Param(f.name, f.value, f.bits)
  BY <1>1 DEF IsMessage
<1>3a. f.bits \in Nat /\ f.bits \div Word < Word
  BY <1>1 DEF IsMessage
<1>4. FieldKind(m) \in {"param", "digest_field"}
  BY DEF FieldKind
<1>5. Item(m, i, P) = Struct(FieldKind(m), FieldOf(m, j)) /\ Size(m, i) = SizeOf[FieldKind(m)]
  BY <1>0, <1>2, Zenon DEF Item, Size
<1>6. /\ Given(m)[j] = [name |-> g, value |-> f.value, bits |-> f.bits]
      /\ Struct(FieldKind(m), FieldOf(m, j)) =
           IF m.type = "DIGEST" THEN r(Swap32(f.bits)) ELSE r(f.bits)
  <2>1. CASE m.type = "DIGEST"
    <3>3. Given(m)[j] = Param("", f.value, f.bits) /\ FieldOf(m, j) = Param("", f.value, Swap32(f.bits))
      BY <1>1, <2>1, Zenon DEF Given, Read, FieldOf, Param
    <3>4. g = ""
      BY <2>1, Zenon
    <3>5. \A x, y, z : Struct(FieldKind(m), Param(x, y, z)) = Cell(FieldKind(m), x, y, z)
      BY DEF Struct, Param, Cell
    <3> HIDE DEF g, f
    <3> QED BY <2>1, <3>3, <3>4, <3>5, Zenon DEF Param
  <2>2. CASE m.type # "DIGEST"
    <3>1. Given(m)[j] = f /\ FieldOf(m, j) = f /\ g = f.name
      BY <2>2, Zenon DEF Given, FieldOf
    <3>2. Struct(FieldKind(m), f) = Cell(FieldKind(m), f.name, f.value, f.bits)
      BY DEF Struct, Cell
    <3>3. f = [name |-> f.name, value |-> f.value, bits |-> f.bits]
      BY <1>3 DEF Param
    <3> HIDE DEF f, g
    <3>4. [name |-> g, value |-> f.value, bits |-> f.bits]
            = [name |-> f.name, value |-> f.value, bits |-> f.bits]
      BY <3>1, Zenon
    <3>5. Given(m)[j] = [name |-> g, value |-> f.value, bits |-> f.bits]
      BY <3>1, <3>3, <3>4
    <3>6. Struct(FieldKind(m), FieldOf(m, j)) = r(f.bits)
      BY <3>1, <3>2, Zenon
    <3> QED BY <2>2, <3>5, <3>6, Zenon
  <2> QED BY <2>1, <2>2
<1>7. /\ Converted(r(f.bits)) = r(Swap32(f.bits)) /\ Unpacked(r(Swap32(f.bits))) = r(f.bits)
  <2> HIDE DEF f, g
  <2> QED BY <1>3a, <1>4, ConvertedTwice
<1>8. \A b : /\ r(b).struct = FieldKind(m) /\ r(b).name = g /\ r(b).value = f.value
                /\ r(b).bits = b
  BY DEF Cell
<1> HIDE DEF r, f, g
<1>9. Sent(m, i) = r(Swap32(f.bits))
  BY <1>0, <1>5, <1>6, <1>7, Zenon DEF Sent
<1>10. Param(r(f.bits).name, r(f.bits).value, r(f.bits).bits) = Given(m)[j]
  BY <1>6, <1>8, Zenon DEF Param
<1>11. /\ Sent(m, i).struct = FieldKind(m) /\ SizeOf[Sent(m, i).struct] = Size(m, i)
       /\ SizeOf[Unpacked(Sent(m, i)).struct] = Size(m, i)
  BY <1>5, <1>7, <1>8, <1>9, Zenon
<1> QED BY <1>0, <1>2, <1>7, <1>9, <1>10, <1>11, Zenon

-----------------------------------------------------------------------------
(* What an add_* does to the buffer.                                       *)

\* The fields of a buffer.
LEMMA Fields ==
  ASSUME NEW t, NEW l, NEW tb, NEW c, NEW a
  PROVE  LET b == BufferOf(t, l, tb, c, a)
         IN b.type = t /\ b.length = l /\ b.table = tb /\ b.count = c /\ b.at = a
BY DEF BufferOf

\* One more struct behind the k that are there.
LEMMA OneMore ==
  ASSUME NEW m, IsMessage(m), NEW at, NEW k \in Nat, k + 1 \in 1 .. Last(m), NEW n,
         Filled(at, m, k, n)
  PROVE  Filled(Put(at, At(m, k + 1), Item(m, k + 1, n)), m, k + 1, n)
<1> DEFINE o == At(m, k + 1)
           s == Item(m, k + 1, n)
           p == Put(at, o, s)
<1>1. DOMAIN at = {At(m, i) : i \in 1 .. k} /\ \A i \in 1 .. k : at[At(m, i)] = Item(m, i, n)
  BY DEF Filled
<1>2. PICK E \in Nat : E = Last(m)
  BY Shape
<1>3. k + 1 <= E
  BY <1>2
<1>4. /\ 1 .. k + 1 = (1 .. k) \union {k + 1}
      /\ \A i \in 1 .. k : i \in 1 .. E /\ i # k + 1
      /\ k + 1 \in 1 .. E
  BY <1>3
<1>5. DOMAIN p = DOMAIN at \union {o} /\ p[o] = s /\ \A x \in DOMAIN at : x # o => p[x] = at[x]
  BY DEF Put
<1>6. \A i \in 1 .. k : At(m, i) # o
  BY <1>2, <1>4, Different
<1> HIDE DEF p, o, s
<1>7. DOMAIN p = {At(m, i) : i \in 1 .. k + 1}
  <2>1. ASSUME NEW x PROVE x \in DOMAIN p <=> x \in {At(m, i) : i \in 1 .. k + 1}
    BY <1>1, <1>4, <1>5, Zenon DEF o
  <2> QED BY <2>1, <1>5
<1>8. ASSUME NEW i \in 1 .. k + 1 PROVE p[At(m, i)] = Item(m, i, n)
  <2>1. CASE i = k + 1
    BY <1>5, <2>1, Zenon DEF o, s
  <2>2. CASE i \in 1 .. k
    BY <1>1, <1>5, <1>6, <2>2
  <2> QED BY <1>4, <2>1, <2>2
<1> QED BY <1>7, <1>8 DEF Filled, p, o, s

\* One more parameter of the action.
LEMMA OneCounted ==
  ASSUME NEW m, IsMessage(m), m.type # "DIGEST", NEW at, NEW k \in Nat,
         Before(m) \in 1 .. k, k <= Last(m), NEW n, Filled(at, m, k, n)
  PROVE  /\ at[At(m, Before(m))].count = n
         /\ Filled([at EXCEPT ![At(m, Before(m))].count = @ + 1], m, k, n + 1)
<1> DEFINE B == Before(m)
           o == At(m, B)
           q == [at EXCEPT ![o].count = @ + 1]
<1>1. DOMAIN at = {At(m, i) : i \in 1 .. k} /\ \A i \in 1 .. k : at[At(m, i)] = Item(m, i, n)
  BY DEF Filled
<1>2. PICK E \in Nat : E = Last(m)
  BY Shape
<1>3. k <= E
  BY <1>2
<1>4. \A i \in 1 .. k : i \in 1 .. E
  BY <1>3
<1>5. \A c : Item(m, B, c) = [struct |-> "action", name |-> m.action, count |-> c]
  <2>1. ~(Before(m) <= Len(m.matches)) /\ Before(m) <= Before(m)
    <3>1. PICK l \in Nat : l = Len(m.matches)
      BY Shape
    <3>2. Before(m) = l + 1
      BY <3>1, Shape
    <3>3. ~(l + 1 <= l) /\ l + 1 <= l + 1
      OBVIOUS
    <3> QED BY <3>1, <3>2, <3>3, Zenon
  <2> QED BY <2>1, Zenon DEF Item
<1>6. \A i \in 1 .. k : i # B => At(m, i) # o
  BY <1>2, <1>4, Different
<1>7. \A i \in 1 .. k : i # B => Item(m, i, n + 1) = Item(m, i, n)
  BY <1>2, <1>4, Built
<1>8. DOMAIN q = DOMAIN at /\ \A x \in DOMAIN at : x # o => q[x] = at[x]
  OBVIOUS
<1>9. at[o] = [struct |-> "action", name |-> m.action, count |-> n] /\ o \in DOMAIN at
  BY <1>1, <1>5
<1>10. at[o].count = n
  BY <1>9
<1>11. q[o] = [struct |-> "action", name |-> m.action, count |-> n + 1]
  <2>1. q[o] = [at[o] EXCEPT !.count = @ + 1]
    BY <1>9
  <2> HIDE DEF q, o
  <2> QED BY <1>9, <2>1
<1> HIDE DEF q
<1>12. ASSUME NEW i \in 1 .. k PROVE q[At(m, i)] = Item(m, i, n + 1)
  <2>1. CASE i = B
    BY <1>5, <1>11, <2>1
  <2>2. CASE i # B
    BY <1>1, <1>6, <1>7, <1>8, <2>2
  <2> QED BY <2>1, <2>2
<1> QED BY <1>1, <1>8, <1>10, <1>12 DEF Filled, q

\* The length after the next struct.
LEMMA NextLength ==
  ASSUME NEW m, IsMessage(m), NEW k \in Nat, k + 1 \in 1 .. Last(m), NEW n,
         m.type # "SET_DEFAULT_ACTION" \/ k + 1 # 1
  PROVE  /\ At(m, k + 1) \in Nat /\ SizeOf[Item(m, k + 1, n).struct] \in Nat
         /\ At(m, (k + 1) + 1) = At(m, k + 1) + SizeOf[Item(m, k + 1, n).struct]
         /\ At(m, (k + 1) + 1) <= End(m) /\ End(m) \in Nat
<1>1. PICK E \in Nat : E = Last(m)
  BY Shape
<1>2. k + 1 \in 1 .. E /\ k + 1 \in 1 .. E + 1 /\ (k + 1) + 1 \in 1 .. E + 1
  BY <1>1
<1>3. SizeOf[Item(m, k + 1, n).struct] = Size(m, k + 1)
  BY Built
<1>4. Size(m, k + 1) \in Nat /\ At(m, k + 1) \in Nat /\ At(m, (k + 1) + 1) = At(m, k + 1) + Size(m, k + 1)
  BY <1>1, <1>2, Layout
<1>5. End(m) \in Nat /\ At(m, (k + 1) + 1) <= End(m)
  BY <1>1, <1>2, Within DEF End
<1> QED BY <1>3, <1>4, <1>5

\* A program only says what messages.h lets it say.
LEMMA Said ==
  ASSUME Chosen
  PROVE  IsMessage(message) /\ (UNCHANGEDMessage => Chosen')
BY MessagesAssumption DEF Chosen, UNCHANGEDMessage

\* The bytes a message needs are where its last struct ends.
LEMMA NeedIs ==
  ASSUME IsMessage(message)
  PROVE  Need = End(message)
<1>1. SizeOf[IF IsDigest THEN "digest_field" ELSE "param"] = SizeOf[FieldKind(message)]
  BY DEF FieldKind, IsDigest
<1>2. Need = ParamsAt(message) + Len(message.params) * SizeOf[FieldKind(message)]
  BY <1>1, Zenon DEF Need, ParamsAt
<1> QED BY <1>2, EndAt, Zenon DEF End

-----------------------------------------------------------------------------
(* The writer keeps the invariant.                                         *)

\* create_p4_header fills the first eight bytes.
LEMMA HeaderKeeps == ASSUME IInv, create_p4_header PROVE IInv'
<1>1. Chosen' /\ IsMessage(message) /\ message' = message
  BY Said DEF IInv, create_p4_header, UNCHANGEDMessage
<1>2. buffer = EmptyBuffer
  BY DEF IInv, BuildInv, create_p4_header
<1>3. CASE SizeOf.header <= MaxLength
  <2>1. pc' = "create" /\ buffer' = [buffer EXCEPT !.type = "HELLO", !.length = SizeOf.header]
    BY <1>3 DEF create_p4_header, Goto
  <2>2. buffer' = BufferOf("HELLO", 8, Nothing, 0, <<>>)
    BY <1>2, <2>1, SizeIs DEF EmptyBuffer, BufferOf
  <2> QED BY <1>1, <2>1, <2>2 DEF IInv, BuildInv, ReadInv, Places
<1>4. CASE ~(SizeOf.header <= MaxLength)
  <2>1. pc' = "crashed"
    BY <1>4 DEF create_p4_header, Crash, Goto
  <2>2. SizeOf[message.type] >= MaxLength
    <3>1. MaxLength < 8
      BY <1>4, SizeIs, Length
    <3>2. PICK h \in Nat : h = SizeOf[message.type] /\ h >= 140
      BY <1>1, Shape, SizeIs
    <3> QED BY <3>1, <3>2, Length
  <2> QED BY <1>1, <2>1, <2>2 DEF IInv, BuildInv, ReadInv, Places
<1> QED BY <1>3, <1>4

\* create_p4_add_table_entry, create_p4_set_default_action and create_p4_digest write
\* the fixed part, the second with the action in it.
LEMMA BodyKeeps == ASSUME IInv, CreateBody PROVE IInv'
<1>1. Chosen' /\ IsMessage(message) /\ message' = message
  BY Said DEF IInv, CreateBody, UNCHANGEDMessage
<1>2. buffer = BufferOf("HELLO", 8, Nothing, 0, <<>>)
  BY DEF IInv, BuildInv, CreateBody
<1>3. PICK L \in Nat, B \in Nat, P \in Nat, E \in Nat :
        /\ L = Len(message.matches) /\ B = Before(message) /\ P = Len(message.params)
        /\ E = Last(message) /\ E = B + P
        /\ message.type = "DIGEST" => L = 0 /\ B = 0
        /\ message.type # "DIGEST" => B = L + 1
  BY <1>1, Numbers
<1>4. message.type \in {"ADD_TABLE_ENTRY", "SET_DEFAULT_ACTION", "DIGEST"}
      /\ (message.type # "ADD_TABLE_ENTRY" => L = 0)
  BY <1>1, <1>3, Shape
<1>5. SizeOf[message.type] \in Nat /\ MaxLength \in Nat
  BY <1>4, SizeIs, Length
<1>6. CASE ~(SizeOf[message.type] < MaxLength)
  <2>1. pc' = "crashed"
    BY <1>6 DEF CreateBody, Crash, Goto
  <2>2. SizeOf[message.type] >= MaxLength
    BY <1>5, <1>6
  <2> QED BY <1>1, <2>1, <2>2 DEF IInv, BuildInv, ReadInv, Places
<1>7. CASE SizeOf[message.type] < MaxLength
  <2> DEFINE at == IF message.type = "SET_DEFAULT_ACTION" THEN Put(<<>>, EmbeddedAction, NewAction) ELSE <<>>
  <2>1. /\ buffer' = [buffer EXCEPT !.type = message.type, !.length = SizeOf[message.type],
                                    !.table = message.table, !.count = 0,
                                    !.at = IF message.type = "SET_DEFAULT_ACTION"
                                           THEN Put(@, EmbeddedAction, NewAction) ELSE @]
        /\ action' = EmbeddedAction
        /\ pc' = IF message.type = "ADD_TABLE_ENTRY" THEN "matches" ELSE "params"
    BY <1>7 DEF CreateBody, Goto
  <2>2. buffer' = BufferOf(message.type, SizeOf[message.type], message.table, 0, at)
    BY <1>2, <2>1 DEF BufferOf
  <2> HIDE DEF at
  <2>3. buffer'.at = at
    BY <2>2, Fields
  <2>4. SizeOf[message.type] <= MaxLength
    BY <1>5, <1>7
  <2>5. ASSUME message.type # "SET_DEFAULT_ACTION"
        PROVE  Added(buffer', message, 0, 0, 0)
    <3>1. at = <<>>
      BY <2>5 DEF at
    <3>2. Filled(at, message, 0, 0)
      BY <3>1 DEF Filled
    <3>3. At(message, 0 + 1) = SizeOf[message.type]
      BY <1>1, <2>5, Layout
    <3> QED BY <2>2, <2>3, <2>4, <3>2, <3>3 DEF Added
  <2>6. CASE message.type = "ADD_TABLE_ENTRY"
    <3>1. pc' = "matches" /\ Added(buffer', message, 0, 0, 0) /\ 0 \in 0 .. Len(message.matches)
      BY <1>3, <2>1, <2>5, <2>6
    <3> QED BY <1>1, <2>6, <3>1 DEF IInv, BuildInv, ReadInv, Places
  <2>7. CASE message.type = "DIGEST"
    <3>1. pc' = "params" /\ Added(buffer', message, 0, 0, 0) /\ 0 \in 0 .. Len(message.params)
      BY <1>3, <2>1, <2>5, <2>7
    <3>2. Before(message) + 0 = 0
      BY <1>3, <2>7
    <3>3. \E n \in 0 .. Len(message.params) :
            Added(buffer', message, Before(message) + n,
                  IF message.type = "DIGEST" THEN n ELSE Len(message.matches), n)
      BY <2>7, <3>1, <3>2, Zenon
    <3> QED BY <1>1, <2>7, <3>1, <3>3 DEF IInv, BuildInv, ReadInv, Places
  <2>8. CASE message.type = "SET_DEFAULT_ACTION"
    <3>1. L = 0 /\ B = 1 /\ Len(message.matches) = 0 /\ Before(message) = 1
      <4>1. message.type # "ADD_TABLE_ENTRY" /\ message.type # "DIGEST"
        BY <2>8
      <4>2. L = 0 /\ B = L + 1
        BY <1>3, <1>4, <4>1
      <4>3. B = 1
        BY <4>2
      <4> QED BY <1>3, <4>2, <4>3, Zenon
    <3>2. At(message, 1) = EmbeddedAction
      BY <1>1, <2>8, Layout
    <3>3. At(message, 1 + 1) = SizeOf[message.type]
      BY <1>1, <2>8, <3>1, Layout
    <3>4. Item(message, 1, 0) = NewAction
      BY <3>1 DEF Item, NewAction
    <3>5. DOMAIN at = {EmbeddedAction} /\ at[EmbeddedAction] = NewAction
      BY <2>8 DEF at, Put
    <3>6. Filled(at, message, 1, 0)
      <4>1. 1 .. 1 = {1}
        OBVIOUS
      <4>2. DOMAIN at = {At(message, i) : i \in 1 .. 1}
        BY <3>2, <3>5, <4>1
      <4>3. \A i \in 1 .. 1 : at[At(message, i)] = Item(message, i, 0)
        BY <3>2, <3>4, <3>5, <4>1
      <4> QED BY <4>2, <4>3 DEF Filled
    <3>7. Added(buffer', message, 1, 0, 0)
      BY <2>2, <2>3, <2>4, <3>3, <3>6 DEF Added
    <3>8. pc' = "params" /\ action' = At(message, Before(message))
      BY <2>1, <2>8, <3>1, <3>2
    <3>9. 0 \in 0 .. Len(message.params) /\ Before(message) + 0 = 1
      <4>1. 0 \in 0 .. P /\ B + 0 = 1
        BY <3>1
      <4> QED BY <1>3, <4>1, Zenon
    <3>10. \E n \in 0 .. Len(message.params) :
             Added(buffer', message, Before(message) + n,
                   IF message.type = "DIGEST" THEN n ELSE Len(message.matches), n)
      <4>1. (IF message.type = "DIGEST" THEN 0 ELSE Len(message.matches)) = 0
        BY <2>8, <3>1
      <4> QED BY <3>7, <3>9, <4>1, Zenon
    <3> QED BY <1>1, <2>8, <3>8, <3>10 DEF IInv, BuildInv, ReadInv, Places
  <2> QED BY <1>4, <2>6, <2>7, <2>8
<1> QED BY <1>6, <1>7

\* add_p4_field_match_* puts the next match behind the last one, or the message is too long.
LEMMA MatchKeeps == ASSUME IInv, add_p4_field_match PROVE IInv'
<1>1. Chosen' /\ IsMessage(message) /\ message' = message
  BY Said DEF IInv, add_p4_field_match, UNCHANGEDMessage
<1>2. PICK k \in 0 .. Len(message.matches) : Added(buffer, message, k, k, 0)
  BY DEF IInv, BuildInv, add_p4_field_match
<1>3. message.type = "ADD_TABLE_ENTRY" /\ pc = "matches" /\ buffer.count < Len(message.matches)
  BY DEF IInv, BuildInv, add_p4_field_match
<1>4. PICK L \in Nat, B \in Nat, P \in Nat, E \in Nat :
        /\ L = Len(message.matches) /\ B = Before(message) /\ P = Len(message.params)
        /\ E = Last(message) /\ E = B + P
        /\ message.type = "DIGEST" => L = 0 /\ B = 0
        /\ message.type # "DIGEST" => B = L + 1
  BY <1>1, Numbers
<1>5. PICK t, l, tb, at :
        /\ buffer = BufferOf(t, l, tb, k, at) /\ Filled(at, message, k, 0)
        /\ t = message.type /\ l = At(message, k + 1) /\ tb = message.table
  BY <1>2 DEF Added
<1>5a. buffer = BufferOf(t, l, tb, k, at)
  BY <1>5
<1>6. buffer.count = k /\ buffer.length = l /\ l = At(message, k + 1)
  BY <1>5 DEF BufferOf
<1>7. k \in Nat /\ k + 1 \in 1 .. E /\ k + 1 <= L /\ k + 1 \in 0 .. L
  <2>1. k \in 0 .. L /\ k < L /\ B = L + 1 /\ E = B + P
    BY <1>3, <1>4, <1>6
  <2> QED BY <2>1
<1>8. k + 1 \in 1 .. Last(message) /\ k + 1 <= Len(message.matches) /\ k + 1 \in 0 .. Len(message.matches)
  BY <1>4, <1>7, Zenon
<1> DEFINE f == message.matches[k + 1]
           s == Struct(f.kind, f)
<1>9. Item(message, k + 1, 0) = s
  BY <1>1, <1>8, Built
<1>10. s.struct = f.kind
  BY DEF Struct
<1>11. /\ At(message, k + 1) \in Nat /\ SizeOf[s.struct] \in Nat
       /\ At(message, (k + 1) + 1) = At(message, k + 1) + SizeOf[s.struct]
       /\ At(message, (k + 1) + 1) <= End(message) /\ End(message) \in Nat
  <2>1. message.type # "SET_DEFAULT_ACTION"
    BY <1>3
  <2> QED BY <1>1, <1>7, <1>8, <1>9, <2>1, NextLength
<1>12. /\ Fits(f.kind) => buffer' = [Extended(s) EXCEPT !.count = @ + 1] /\ pc' = pc
       /\ ~Fits(f.kind) => pc' = "crashed"
  BY <1>6 DEF add_p4_field_match, Crash, Goto
<1>13. Fits(f.kind) <=> At(message, (k + 1) + 1) <= MaxLength
  BY <1>6, <1>10, <1>11 DEF Fits
<1> HIDE DEF s, f
<1>14. CASE Fits(f.kind)
  <2>1. buffer' = [Extended(s) EXCEPT !.count = @ + 1]
    BY <1>12, <1>14
  <2>2. /\ buffer' = BufferOf(t, l + SizeOf[s.struct], tb, k + 1, Put(at, l, s))
        /\ buffer'.at = Put(at, l, s)
    BY <1>5a, <2>1 DEF Extended, BufferOf
  <2>3. Filled(buffer'.at, message, k + 1, 0)
    <3>1. Filled(Put(at, At(message, k + 1), s), message, k + 1, 0)
      BY <1>1, <1>5, <1>7, <1>8, <1>9, OneMore
    <3> QED BY <1>5, <2>2, <3>1, Zenon
  <2>4. Added(buffer', message, k + 1, k + 1, 0)
    <3>1. buffer' = BufferOf(message.type, At(message, (k + 1) + 1), message.table, k + 1, buffer'.at)
      BY <1>5, <1>11, <2>2, Zenon
    <3> QED BY <1>13, <1>14, <2>3, <3>1, Zenon DEF Added
  <2>5. pc' = "matches"
    BY <1>3, <1>12, <1>14
  <2> QED BY <1>1, <1>3, <1>8, <2>4, <2>5 DEF IInv, BuildInv, ReadInv, Places
<1>15. CASE ~Fits(f.kind)
  <2>1. End(message) > MaxLength
    BY <1>11, <1>13, <1>15, Length
  <2>2. pc' = "crashed"
    BY <1>12, <1>15
  <2> QED BY <1>1, <2>1, <2>2 DEF IInv, BuildInv, ReadInv, Places
<1> QED BY <1>14, <1>15

\* add_p4_action puts the action behind the matches.
LEMMA ActionKeeps == ASSUME IInv, add_p4_action PROVE IInv'
<1>1. Chosen' /\ IsMessage(message) /\ message' = message
  BY Said DEF IInv, add_p4_action, UNCHANGEDMessage
<1>2. PICK k \in 0 .. Len(message.matches) : Added(buffer, message, k, k, 0)
  BY DEF IInv, BuildInv, add_p4_action
<1>3. message.type = "ADD_TABLE_ENTRY" /\ buffer.count = Len(message.matches)
  BY DEF IInv, BuildInv, add_p4_action
<1>4. PICK L \in Nat, B \in Nat, P \in Nat, E \in Nat :
        /\ L = Len(message.matches) /\ B = Before(message) /\ P = Len(message.params)
        /\ E = Last(message) /\ E = B + P
        /\ message.type = "DIGEST" => L = 0 /\ B = 0
        /\ message.type # "DIGEST" => B = L + 1
  BY <1>1, Numbers
<1>5. PICK t, l, tb, at :
        /\ buffer = BufferOf(t, l, tb, k, at) /\ Filled(at, message, k, 0)
        /\ t = message.type /\ l = At(message, k + 1) /\ tb = message.table
  BY <1>2 DEF Added
<1>5a. buffer = BufferOf(t, l, tb, k, at)
  BY <1>5
<1>6. buffer.count = k /\ buffer.length = l
  BY <1>5a DEF BufferOf
<1>7. k \in Nat /\ k + 1 = B /\ k + 1 \in 1 .. E /\ 0 \in 0 .. P /\ (k + 1) + 0 = k + 1
  <2>1. k = L /\ B = L + 1 /\ E = B + P
    BY <1>3, <1>4, <1>6
  <2> QED BY <2>1
<1>8. k + 1 = Before(message) /\ k + 1 \in 1 .. Last(message) /\ 0 \in 0 .. Len(message.params)
      /\ Before(message) + 0 = k + 1 /\ k = Len(message.matches)
  BY <1>3, <1>4, <1>6, <1>7, Zenon
<1> DEFINE s == NewAction
<1>9. Item(message, k + 1, 0) = s
  <2>1. ~(k + 1 <= Len(message.matches)) /\ k + 1 <= Before(message)
    <3>1. ~(k + 1 <= k) /\ k + 1 <= k + 1
      BY <1>7
    <3> QED BY <1>8, <3>1, Zenon
  <2> QED BY <2>1, Zenon DEF Item, NewAction
<1>10. s.struct = "action"
  BY DEF NewAction
<1>11. /\ At(message, k + 1) \in Nat /\ SizeOf[s.struct] \in Nat
       /\ At(message, (k + 1) + 1) = At(message, k + 1) + SizeOf[s.struct]
       /\ At(message, (k + 1) + 1) <= End(message) /\ End(message) \in Nat
  <2>1. message.type # "SET_DEFAULT_ACTION"
    BY <1>3
  <2> QED BY <1>1, <1>7, <1>8, <1>9, <2>1, NextLength
<1>12. /\ Fits("action") => buffer' = Extended(s) /\ pc' = "params" /\ action' = buffer.length
       /\ ~Fits("action") => pc' = "crashed"
  BY DEF add_p4_action, Crash, Goto
<1>13. Fits("action") <=> At(message, (k + 1) + 1) <= MaxLength
  BY <1>5, <1>6, <1>10, <1>11 DEF Fits
<1> HIDE DEF s
<1>14. CASE Fits("action")
  <2>1. buffer' = Extended(s)
    BY <1>12, <1>14
  <2>2. /\ buffer' = BufferOf(t, l + SizeOf[s.struct], tb, k, Put(at, l, s))
        /\ buffer'.at = Put(at, l, s)
    BY <1>5a, <2>1 DEF Extended, BufferOf
  <2>3. Filled(buffer'.at, message, k + 1, 0)
    <3>1. Filled(Put(at, At(message, k + 1), s), message, k + 1, 0)
      BY <1>1, <1>5, <1>7, <1>8, <1>9, OneMore
    <3> QED BY <1>5, <2>2, <3>1, Zenon
  <2>4. Added(buffer', message, k + 1, k, 0)
    <3>1. buffer' = BufferOf(message.type, At(message, (k + 1) + 1), message.table, k, buffer'.at)
      BY <1>5, <1>11, <2>2, Zenon
    <3> QED BY <1>13, <1>14, <2>3, <3>1, Zenon DEF Added
  <2>5. pc' = "params" /\ action' = At(message, Before(message))
    BY <1>5, <1>6, <1>8, <1>12, <1>14
  <2>6. \E n \in 0 .. Len(message.params) :
          Added(buffer', message, Before(message) + n,
                IF message.type = "DIGEST" THEN n ELSE Len(message.matches), n)
    <3>1. message.type # "DIGEST"
      BY <1>3
    <3>2. Added(buffer', message, Before(message) + 0,
                IF message.type = "DIGEST" THEN 0 ELSE Len(message.matches), 0)
      BY <1>8, <2>4, <3>1, Zenon
    <3> QED BY <1>8, <3>2, Zenon
  <2> QED BY <1>1, <2>5, <2>6 DEF IInv, BuildInv, ReadInv, Places
<1>15. CASE ~Fits("action")
  <2>1. End(message) > MaxLength
    BY <1>11, <1>13, <1>15, Length
  <2>2. pc' = "crashed"
    BY <1>12, <1>15
  <2> QED BY <1>1, <2>1, <2>2 DEF IInv, BuildInv, ReadInv, Places
<1> QED BY <1>14, <1>15

\* What is in the buffer while parameters or fields are added.
LEMMA Adding ==
  ASSUME IInv, pc = "params"
  PROVE  /\ IsMessage(message)
         /\ \E n \in 0 .. Len(message.params) :
              LET k == Before(message) + n
                  c == IF message.type = "DIGEST" THEN n ELSE Len(message.matches)
              IN /\ Added(buffer, message, k, c, n)
                 /\ k \in Nat /\ k <= Last(message) /\ n \in Nat
                 /\ Params = n
                 /\ n < Len(message.params) => k + 1 \in 1 .. Last(message)
                 /\ n = Len(message.params) => k = Last(message)
         /\ message.type # "DIGEST" => action = At(message, Before(message))
<1>1. IsMessage(message) /\ (message.type # "DIGEST" => action = At(message, Before(message)))
  BY Said DEF IInv, BuildInv
<1>2. PICK n \in 0 .. Len(message.params) :
        Added(buffer, message, Before(message) + n,
              IF message.type = "DIGEST" THEN n ELSE Len(message.matches), n)
  BY DEF IInv, BuildInv
<1>3. PICK L \in Nat, B \in Nat, P \in Nat, E \in Nat :
        /\ L = Len(message.matches) /\ B = Before(message) /\ P = Len(message.params)
        /\ E = Last(message) /\ E = B + P
        /\ message.type = "DIGEST" => L = 0 /\ B = 0
        /\ message.type # "DIGEST" => B = L + 1
  BY <1>1, Numbers
<1>4. n \in 0 .. P /\ E = B + P
  BY <1>3
<1>5. B + n \in Nat /\ B + n <= E /\ n \in Nat /\ (n < P => (B + n) + 1 \in 1 .. E) /\ (n = P => B + n = E)
  BY <1>4
<1>6. Params = n
  <2>1. CASE message.type = "DIGEST"
    <3>1. buffer = BufferOf(message.type, At(message, (Before(message) + n) + 1), message.table, n, buffer.at)
      BY <1>2, <2>1 DEF Added
    <3>2. buffer.count = n
      BY <3>1 DEF BufferOf
    <3> QED BY <2>1, <3>2 DEF Params, IsDigest
  <2>2. CASE message.type # "DIGEST"
    <3>1. B \in 1 .. B + n
      <4>1. B = L + 1
        BY <1>3, <2>2
      <4> QED BY <1>5, <4>1
    <3>2. Filled(buffer.at, message, B + n, n)
      BY <1>2, <1>3, Zenon DEF Added
    <3>3. buffer.at[At(message, Before(message))].count = n
      <4>1. Before(message) \in 1 .. B + n /\ B + n <= Last(message) /\ B + n \in Nat
        BY <1>3, <1>5, <3>1, Zenon
      <4> QED BY <1>1, <2>2, <3>2, <4>1, OneCounted
    <3> QED BY <1>1, <2>2, <3>3, Zenon DEF Params, IsDigest
  <2> QED BY <2>1, <2>2
<1>7. /\ Before(message) + n \in Nat /\ Before(message) + n <= Last(message) /\ n \in Nat
      /\ n < Len(message.params) => (Before(message) + n) + 1 \in 1 .. Last(message)
      /\ n = Len(message.params) => Before(message) + n = Last(message)
  BY <1>3, <1>5, Zenon
<1> QED BY <1>1, <1>2, <1>6, <1>7

\* add_p4_action_parameter puts the next parameter behind the last struct and counts it in
\* the action.
LEMMA ParameterKeeps == ASSUME IInv, add_p4_action_parameter PROVE IInv'
<1>1. Chosen' /\ IsMessage(message) /\ message' = message
  BY Said DEF IInv, add_p4_action_parameter, UNCHANGEDMessage
<1>2. /\ pc = "params" /\ message.type # "DIGEST" /\ Params < Len(message.params)
  BY DEF add_p4_action_parameter, IsDigest
<1>3. action = At(message, Before(message))
  BY <1>2, Adding
<1>4. PICK n \in 0 .. Len(message.params), k \in Nat :
        /\ k = Before(message) + n
        /\ Added(buffer, message, k, Len(message.matches), n)
        /\ k <= Last(message) /\ n \in Nat /\ Params = n
        /\ n < Len(message.params) => k + 1 \in 1 .. Last(message)
  BY <1>2, Adding
<1>5. PICK c : c = Len(message.matches)
  OBVIOUS
<1>6. PICK t, l, tb, at :
        /\ buffer = BufferOf(t, l, tb, c, at) /\ Filled(at, message, k, n)
        /\ t = message.type /\ l = At(message, k + 1) /\ tb = message.table
  BY <1>4, <1>5 DEF Added
<1>6a. buffer = BufferOf(t, l, tb, c, at)
  BY <1>6
<1>7. buffer.length = l /\ n < Len(message.params) /\ k + 1 \in 1 .. Last(message)
  <2>1. buffer.length = l
    BY <1>6a DEF BufferOf
  <2> QED BY <1>2, <1>4, <2>1, Zenon
<1>8. PICK L \in Nat, B \in Nat, P \in Nat, E \in Nat :
        /\ L = Len(message.matches) /\ B = Before(message) /\ P = Len(message.params)
        /\ E = Last(message) /\ E = B + P
        /\ message.type = "DIGEST" => L = 0 /\ B = 0
        /\ message.type # "DIGEST" => B = L + 1
  BY <1>1, Numbers
<1>9. n < P /\ k = B + n /\ n \in Nat /\ B = L + 1 /\ E = B + P
  BY <1>2, <1>4, <1>7, <1>8, Zenon
<1>10. /\ n + 1 \in 0 .. P /\ B + (n + 1) = k + 1 /\ B \in 1 .. k + 1 /\ k + 1 <= E
       /\ ~(k + 1 <= L) /\ ~(k + 1 <= B) /\ (k + 1) - B = n + 1 /\ k + 1 # 1
  BY <1>9
<1>11. /\ n + 1 \in 0 .. Len(message.params) /\ Before(message) + (n + 1) = k + 1
       /\ Before(message) \in 1 .. k + 1 /\ k + 1 <= Last(message)
       /\ ~(k + 1 <= Len(message.matches)) /\ ~(k + 1 <= Before(message))
       /\ (k + 1) - Before(message) = n + 1
  BY <1>8, <1>10, Zenon
<1> DEFINE s == Struct("param", message.params[n + 1])
<1>12. Item(message, k + 1, n) = s
  <2>1. FieldKind(message) = "param" /\ FieldOf(message, n + 1) = message.params[n + 1]
    BY <1>2, Zenon DEF FieldKind, FieldOf
  <2> QED BY <1>11, <2>1, Zenon DEF Item
<1>13. s.struct = "param"
  BY DEF Struct
<1>14. /\ At(message, k + 1) \in Nat /\ SizeOf[s.struct] \in Nat
       /\ At(message, (k + 1) + 1) = At(message, k + 1) + SizeOf[s.struct]
       /\ At(message, (k + 1) + 1) <= End(message) /\ End(message) \in Nat
  BY <1>1, <1>7, <1>10, <1>12, NextLength
<1>15. /\ Fits("param") => buffer' = [Extended(s) EXCEPT !.at[action].count = @ + 1] /\ pc' = pc
                           /\ action' = action
       /\ ~Fits("param") => pc' = "crashed"
  BY <1>4 DEF add_p4_action_parameter, Crash, Goto
<1>16. Fits("param") <=> At(message, (k + 1) + 1) <= MaxLength
  BY <1>6, <1>7, <1>13, <1>14 DEF Fits
<1> HIDE DEF s
<1>17. CASE Fits("param")
  <2>1. buffer' = [Extended(s) EXCEPT !.at[action].count = @ + 1]
    BY <1>15, <1>17
  <2>2. /\ buffer' = BufferOf(t, l + SizeOf[s.struct], tb, c, [Put(at, l, s) EXCEPT ![action].count = @ + 1])
        /\ buffer'.at = [Put(at, l, s) EXCEPT ![action].count = @ + 1]
    BY <1>6a, <2>1 DEF Extended, BufferOf
  <2>3. Filled(buffer'.at, message, k + 1, n + 1)
    <3>1. Filled(Put(at, l, s), message, k + 1, n)
      <4>1. Filled(Put(at, At(message, k + 1), s), message, k + 1, n)
        BY <1>1, <1>6, <1>7, <1>12, OneMore
      <4> QED BY <1>6, <4>1, Zenon
    <3> DEFINE f == Put(at, l, s)
    <3>2. k + 1 \in Nat
      OBVIOUS
    <3> HIDE DEF f
    <3>3. Filled([f EXCEPT ![At(message, Before(message))].count = @ + 1], message, k + 1, n + 1)
      <4>1. Filled(f, message, k + 1, n)
        BY <3>1 DEF f
      <4> QED BY <1>1, <1>2, <1>11, <3>2, <4>1, OneCounted
    <3> QED BY <1>3, <2>2, <3>3, Zenon DEF f
  <2>4. Added(buffer', message, k + 1, Len(message.matches), n + 1)
    <3>1. buffer' = BufferOf(message.type, At(message, (k + 1) + 1), message.table,
                             Len(message.matches), buffer'.at)
      BY <1>5, <1>6, <1>14, <2>2, Zenon
    <3> QED BY <1>16, <1>17, <2>3, <3>1, Zenon DEF Added
  <2>5. pc' = "params" /\ action' = At(message, Before(message))
    BY <1>2, <1>3, <1>15, <1>17
  <2>6. \E i \in 0 .. Len(message.params) :
          Added(buffer', message, Before(message) + i,
                IF message.type = "DIGEST" THEN i ELSE Len(message.matches), i)
    <3>1. Added(buffer', message, Before(message) + (n + 1),
                IF message.type = "DIGEST" THEN n + 1 ELSE Len(message.matches), n + 1)
      BY <1>2, <1>11, <2>4, Zenon
    <3> QED BY <1>11, <3>1, Zenon
  <2> QED BY <1>1, <2>5, <2>6 DEF IInv, BuildInv, ReadInv, Places
<1>18. CASE ~Fits("param")
  <2>1. End(message) > MaxLength
    BY <1>14, <1>16, <1>18, Length
  <2>2. pc' = "crashed"
    BY <1>15, <1>18
  <2> QED BY <1>1, <2>1, <2>2 DEF IInv, BuildInv, ReadInv, Places
<1> QED BY <1>17, <1>18

\* add_digest_field puts the next field, converted, behind the last one.
LEMMA FieldKeeps == ASSUME IInv, add_digest_field PROVE IInv'
<1>1. Chosen' /\ IsMessage(message) /\ message' = message
  BY Said DEF IInv, add_digest_field, UNCHANGEDMessage
<1>2. /\ pc = "params" /\ message.type = "DIGEST" /\ Params < Len(message.params)
  BY DEF add_digest_field, IsDigest
<1>3. PICK n \in 0 .. Len(message.params), k \in Nat :
        /\ k = Before(message) + n
        /\ Added(buffer, message, k, n, n)
        /\ k <= Last(message) /\ n \in Nat /\ Params = n
        /\ n < Len(message.params) => k + 1 \in 1 .. Last(message)
  BY <1>2, Adding
<1>4. PICK t, l, tb, at :
        /\ buffer = BufferOf(t, l, tb, n, at) /\ Filled(at, message, k, n)
        /\ t = message.type /\ l = At(message, k + 1) /\ tb = message.table
  BY <1>3 DEF Added
<1>4a. buffer = BufferOf(t, l, tb, n, at)
  BY <1>4
<1>5. buffer.length = l /\ n < Len(message.params) /\ k + 1 \in 1 .. Last(message)
  <2>1. buffer.length = l
    BY <1>4a DEF BufferOf
  <2> QED BY <1>2, <1>3, <2>1, Zenon
<1>6. PICK L \in Nat, B \in Nat, P \in Nat, E \in Nat :
        /\ L = Len(message.matches) /\ B = Before(message) /\ P = Len(message.params)
        /\ E = Last(message) /\ E = B + P
        /\ message.type = "DIGEST" => L = 0 /\ B = 0
        /\ message.type # "DIGEST" => B = L + 1
  BY <1>1, Numbers
<1>7. n < P /\ k = B + n /\ n \in Nat /\ B = 0 /\ L = 0 /\ E = B + P
  BY <1>2, <1>3, <1>5, <1>6, Zenon
<1>8. /\ n + 1 \in 0 .. P /\ B + (n + 1) = k + 1 /\ k + 1 <= E
      /\ ~(k + 1 <= L) /\ ~(k + 1 <= B) /\ (k + 1) - B = n + 1
  BY <1>7
<1>9. /\ n + 1 \in 0 .. Len(message.params) /\ Before(message) + (n + 1) = k + 1
      /\ ~(k + 1 <= Len(message.matches)) /\ ~(k + 1 <= Before(message))
      /\ (k + 1) - Before(message) = n + 1
  BY <1>6, <1>8, Zenon
<1> DEFINE f == message.params[n + 1]
           s == Struct("digest_field", Param("", f.value, Swap32(f.bits)))
<1>10. \A i : Item(message, k + 1, i) = s
  <2>1. FieldKind(message) = "digest_field"
        /\ FieldOf(message, n + 1) = Param("", f.value, Swap32(f.bits))
    BY <1>2, Zenon DEF FieldKind, FieldOf, Param
  <2> QED BY <1>9, <2>1, Zenon DEF Item
<1>11. s.struct = "digest_field"
  BY DEF Struct
<1>12. /\ At(message, k + 1) \in Nat /\ SizeOf[s.struct] \in Nat
       /\ At(message, (k + 1) + 1) = At(message, k + 1) + SizeOf[s.struct]
       /\ At(message, (k + 1) + 1) <= End(message) /\ End(message) \in Nat
  <2>1. message.type # "SET_DEFAULT_ACTION"
    BY <1>2
  <2>2. Item(message, k + 1, n) = s
    BY <1>10, Zenon
  <2> HIDE DEF s
  <2> QED BY <1>1, <1>5, <2>1, <2>2, NextLength
<1>13. /\ Fits("digest_field") => buffer' = [Extended(s) EXCEPT !.count = @ + 1] /\ pc' = pc
       /\ ~Fits("digest_field") => pc' = "crashed"
  BY <1>3 DEF add_digest_field, Crash, Goto
<1>14. Fits("digest_field") <=> At(message, (k + 1) + 1) <= MaxLength
  BY <1>4, <1>5, <1>11, <1>12 DEF Fits
<1> HIDE DEF s
<1>15. CASE Fits("digest_field")
  <2>1. buffer' = [Extended(s) EXCEPT !.count = @ + 1]
    BY <1>13, <1>15
  <2>2. /\ buffer' = BufferOf(t, l + SizeOf[s.struct], tb, n + 1, Put(at, l, s))
        /\ buffer'.at = Put(at, l, s)
    BY <1>4a, <2>1 DEF Extended, BufferOf
  <2>3. Filled(buffer'.at, message, k + 1, n + 1)
    <3>1. Filled(at, message, k, n + 1)
      <4>1. \A i \in 1 .. k : Item(message, i, n + 1) = Item(message, i, n)
        <5>1. ASSUME NEW i \in 1 .. k PROVE Item(message, i, n + 1) = Item(message, i, n)
          <6>1. i \in 1 .. E /\ ~(i <= B)
            BY <1>7, <1>8
          <6>2. i \in 1 .. Last(message) /\ i # Before(message)
            BY <1>6, <1>7, <6>1
          <6> QED BY <1>1, <6>2, Built
        <5> QED BY <5>1
      <4> QED BY <1>4, <4>1 DEF Filled
    <3>2. Filled(Put(at, At(message, k + 1), s), message, k + 1, n + 1)
      BY <1>1, <1>5, <1>10, <3>1, OneMore
    <3> QED BY <1>4, <2>2, <3>2, Zenon
  <2>4. Added(buffer', message, k + 1, n + 1, n + 1)
    <3>1. buffer' = BufferOf(message.type, At(message, (k + 1) + 1), message.table, n + 1, buffer'.at)
      BY <1>4, <1>12, <2>2, Zenon
    <3> QED BY <1>14, <1>15, <2>3, <3>1, Zenon DEF Added
  <2>5. pc' = "params"
    BY <1>2, <1>13, <1>15
  <2>6. \E i \in 0 .. Len(message.params) :
          Added(buffer', message, Before(message) + i,
                IF message.type = "DIGEST" THEN i ELSE Len(message.matches), i)
    <3>1. Added(buffer', message, Before(message) + (n + 1),
                IF message.type = "DIGEST" THEN n + 1 ELSE Len(message.matches), n + 1)
      BY <1>2, <1>9, <2>4, Zenon
    <3> QED BY <1>9, <3>1, Zenon
  <2> QED BY <1>1, <1>2, <2>5, <2>6 DEF IInv, BuildInv, ReadInv, Places
<1>16. CASE ~Fits("digest_field")
  <2>1. End(message) > MaxLength
    BY <1>12, <1>14, <1>16, Length
  <2>2. pc' = "crashed"
    BY <1>13, <1>16
  <2> QED BY <1>1, <2>1, <2>2 DEF IInv, BuildInv, ReadInv, Places
<1> QED BY <1>15, <1>16

\* The netconv_* calls leave every struct as it is sent.
LEMMA ConvertKeeps == ASSUME IInv, Convert PROVE IInv'
<1>1. Chosen' /\ IsMessage(message) /\ message' = message
  BY Said DEF IInv, Convert, UNCHANGEDMessage
<1>2. /\ pc = "params" /\ Params = Len(message.params) /\ pc' = "transmit"
      /\ buffer' = [buffer EXCEPT !.length = Swap16(@),
           !.at = IF IsDigest THEN @ ELSE [o \in DOMAIN @ |-> Converted(@[o])]]
  BY DEF Convert, Complete, Goto
<1> DEFINE d(n) == IF message.type = "DIGEST" THEN n ELSE Len(message.matches)
<1>3. PICK n \in 0 .. Len(message.params), k \in Nat :
        /\ k = Before(message) + n
        /\ Added(buffer, message, k, d(n), n)
        /\ k <= Last(message) /\ n \in Nat /\ Params = n
        /\ n = Len(message.params) => k = Last(message)
  BY <1>2, Adding
<1>4. n = Len(message.params) /\ k = Last(message) /\ d(n) = Count(message)
  BY <1>2, <1>3, Zenon DEF Count
<1>4a. PICK c : c = d(n) /\ Added(buffer, message, k, c, n)
  BY <1>3
<1>5. PICK t, l, tb, at :
        /\ buffer = BufferOf(t, l, tb, c, at) /\ Filled(at, message, k, n)
        /\ t = message.type /\ l = At(message, k + 1) /\ tb = message.table /\ l <= MaxLength
  BY <1>4a DEF Added
<1>5a. buffer = BufferOf(t, l, tb, c, at)
  BY <1>5
<1>6. PICK q : /\ q = IF IsDigest THEN at ELSE [o \in DOMAIN at |-> Converted(at[o])]
               /\ buffer' = BufferOf(t, Swap16(l), tb, c, q) /\ buffer'.at = q
  BY <1>2, <1>5a DEF BufferOf
<1>7. DOMAIN q = DOMAIN at /\ \A o \in DOMAIN at : q[o] = IF IsDigest THEN at[o] ELSE Converted(at[o])
  BY <1>6
<1>8. DOMAIN q = {At(message, i) : i \in 1 .. Last(message)}
      /\ \A i \in 1 .. Last(message) :
           At(message, i) \in DOMAIN at /\ at[At(message, i)] = Item(message, i, Len(message.params))
  BY <1>4, <1>5, <1>7 DEF Filled
<1>9. \A i \in 1 .. Last(message) : q[At(message, i)] = Sent(message, i)
  BY <1>7, <1>8 DEF Sent, IsDigest
<1>10. buffer' = BufferOf(message.type, Swap16(End(message)), message.table, Count(message), buffer'.at)
       /\ End(message) <= MaxLength
  BY <1>4, <1>4a, <1>5, <1>6, Zenon DEF End
<1>11. Packed(buffer', message)
  BY <1>6, <1>8, <1>9, <1>10, Zenon DEF Packed
<1> QED BY <1>1, <1>2, <1>11 DEF IInv, BuildInv, ReadInv, Places

-----------------------------------------------------------------------------
(* So do the wire and the reader.                                          *)

\* The size of a struct as it is sent.
LEMMA SentSize ==
  ASSUME NEW m, IsMessage(m), NEW i \in 1 .. Last(m)
  PROVE  SizeOf[Sent(m, i).struct] = Size(m, i)
<1>1. PICK L \in Nat, B \in Nat, P \in Nat, E \in Nat :
        /\ L = Len(m.matches) /\ B = Before(m) /\ P = Len(m.params)
        /\ E = Last(m) /\ E = B + P
        /\ m.type = "DIGEST" => L = 0 /\ B = 0
        /\ m.type # "DIGEST" => B = L + 1
  BY Numbers
<1>2. CASE i \in 1 .. L
  BY <1>1, <1>2, MatchSent
<1>3. CASE i = B
  <2>1. m.type # "DIGEST"
    <3>1. i # 0
      OBVIOUS
    <3> QED BY <1>1, <1>3, <3>1
  <2> QED BY <1>1, <1>3, <2>1, ActionSent, Zenon
<1>4. ASSUME i \notin 1 .. L, i # B
      PROVE  SizeOf[Sent(m, i).struct] = Size(m, i)
  <2>1. E = B + P /\ ((L = 0 /\ B = 0) \/ B = L + 1) /\ i \in 1 .. E
    BY <1>1, Zenon
  <2>2. PICK j \in 1 .. P : B + j = i
    <3>1. i - B \in 1 .. P /\ B + (i - B) = i
      BY <1>4, <2>1
    <3> QED BY <3>1
  <2>3. j \in 1 .. Len(m.params) /\ Before(m) + j = i
    BY <1>1, <2>2, Zenon
  <2>4. SizeOf[Sent(m, Before(m) + j).struct] = Size(m, Before(m) + j)
    BY <2>3, FieldSent
  <2> QED BY <2>3, <2>4, Zenon
<1> QED BY <1>2, <1>3, <1>4

\* write_p4_msg and read_p4_msg agree on the length and cut nothing off.
LEMMA TransmitKeeps == ASSUME IInv, Transmit PROVE IInv'
<1>1. Chosen' /\ IsMessage(message) /\ message' = message
  BY Said DEF IInv, Transmit, UNCHANGEDMessage
<1>2. Packed(buffer, message)
  BY DEF IInv, ReadInv, Transmit
<1>3. PICK t, l, tb, c, at :
        /\ buffer = BufferOf(t, l, tb, c, at) /\ at = buffer.at
        /\ t = message.type /\ l = Swap16(End(message)) /\ tb = message.table /\ c = Count(message)
  BY <1>2 DEF Packed
<1>3a. buffer = BufferOf(t, l, tb, c, at)
  BY <1>3
<1>4. Swap16(l) = End(message) /\ End(message) <= MaxLength /\ End(message) \in Nat
  <2>1. End(message) <= MaxLength /\ End(message) \in Nat
    BY <1>1, <1>2, Within DEF End, Packed
  <2>2. Swap16(Swap16(End(message))) = End(message)
    BY <2>1, Length, Swap16Twice
  <2> QED BY <1>3, <2>1, <2>2, Zenon
<1>5. buffer.length = l
  BY <1>3a DEF BufferOf
<1>6. pc' = "handle" /\ buffer' = FirstBytes(buffer, End(message))
  BY <1>4, <1>5 DEF Transmit, Goto
<1>7. DOMAIN at = {At(message, i) : i \in 1 .. Last(message)}
      /\ \A i \in 1 .. Last(message) : at[At(message, i)] = Sent(message, i)
  BY <1>2, <1>3 DEF Packed
<1>8. \A i \in 1 .. Last(message) : At(message, i) + SizeOf[at[At(message, i)].struct] <= End(message)
  <2>1. \A i \in 1 .. Last(message) : SizeOf[at[At(message, i)].struct] = Size(message, i)
    BY <1>1, <1>7, SentSize
  <2>2. \A i \in 1 .. Last(message) : At(message, i) + Size(message, i) <= End(message)
    BY <1>1, Within DEF End
  <2> QED BY <2>1, <2>2, Zenon
<1>9. {x \in DOMAIN at : x + SizeOf[at[x].struct] <= End(message)} = DOMAIN at
  BY <1>7, <1>8
<1> DEFINE q == [o \in {x \in DOMAIN at : x + SizeOf[at[x].struct] <= End(message)} |-> at[o]]
<1>10. buffer' = BufferOf(t, l, tb, c, q) /\ buffer'.at = q
  BY <1>3a, <1>6 DEF FirstBytes, BufferOf
<1>11. DOMAIN q = DOMAIN at /\ \A o \in DOMAIN at : q[o] = at[o]
  BY <1>9
<1> HIDE DEF q
<1>12. /\ DOMAIN q = {At(message, i) : i \in 1 .. Last(message)}
       /\ \A i \in 1 .. Last(message) : q[At(message, i)] = Sent(message, i)
  BY <1>7, <1>11
<1>13. buffer' = BufferOf(message.type, Swap16(End(message)), message.table, Count(message), buffer'.at)
  BY <1>3, <1>10, Zenon
<1>14. Packed(buffer', message)
  BY <1>4, <1>10, <1>12, <1>13, Zenon DEF Packed
<1> QED BY <1>1, <1>6, <1>14 DEF IInv, BuildInv, ReadInv, Places

\* handle_p4_msg finds as many matches or parameters as were sent, or as a controller
\* that does not know the digest expects.
LEMMA Counted ==
  ASSUME Chosen, Packed(buffer, message)
  PROVE  /\ Swap16(buffer.length) = End(message) /\ ~(End(message) > MaxLength)
         /\ buffer.type = message.type /\ buffer.table = message.table
         /\ message.type = "ADD_TABLE_ENTRY" =>
              /\ buffer.count = Len(message.matches) /\ ~(Len(message.matches) > P4_MAX)
              /\ Len(message.params) <= P4_MAX
         /\ message.type = "SET_DEFAULT_ACTION" =>
              /\ buffer.at[EmbeddedAction].count = Len(message.params) /\ ~(Len(message.params) > P4_MAX)
              /\ buffer.at[EmbeddedAction].name = message.action
         /\ message.type = "DIGEST" => Reads \in {0, Len(message.params)} /\ ~(Reads > P4_MAX)
<1>1. IsMessage(message)
  BY Said
<1>2. PICK t, l, tb, c, at :
        /\ buffer = BufferOf(t, l, tb, c, at) /\ at = buffer.at
        /\ t = message.type /\ l = Swap16(End(message)) /\ tb = message.table /\ c = Count(message)
  BY DEF Packed
<1>2a. buffer = BufferOf(t, l, tb, c, at)
  BY <1>2
<1>3. buffer.length = l /\ buffer.type = t /\ buffer.table = tb /\ buffer.count = c
  BY <1>2a DEF BufferOf
<1>4. End(message) <= MaxLength /\ End(message) \in Nat
  BY <1>1, Within DEF End, Packed
<1>5. Swap16(Swap16(End(message))) = End(message)
  BY <1>4, Length, Swap16Twice
<1>6. PICK L \in Nat, B \in Nat, P \in Nat, E \in Nat :
        /\ L = Len(message.matches) /\ B = Before(message) /\ P = Len(message.params)
        /\ E = Last(message) /\ E = B + P
        /\ message.type = "DIGEST" => L = 0 /\ B = 0
        /\ message.type # "DIGEST" => B = L + 1
  BY <1>1, Numbers
<1>7. ~(End(message) > MaxLength)
  BY <1>4, Length
<1>8. message.type # "DIGEST" => Len(message.matches) <= P4_MAX /\ Len(message.params) <= P4_MAX
  BY <1>1, <1>4, Few DEF End
<1>9. ~(0 > P4_MAX) /\ (\A n \in Nat : n <= P4_MAX => ~(n > P4_MAX))
  BY DEF P4_MAX
<1>10. message.type # "DIGEST" => ~(Len(message.matches) > P4_MAX) /\ ~(Len(message.params) > P4_MAX)
  BY <1>6, <1>8, <1>9, Zenon
<1>11. ASSUME message.type = "SET_DEFAULT_ACTION"
       PROVE  /\ buffer.at[EmbeddedAction].count = Len(message.params)
              /\ buffer.at[EmbeddedAction].name = message.action
  <2>1. message.type # "DIGEST" /\ message.type # "ADD_TABLE_ENTRY"
    BY <1>11
  <2>2. Before(message) = 1
    <3>1. Len(message.matches) = 0
      BY <1>1, <2>1, Shape
    <3> QED BY <1>6, <2>1, <3>1
  <2>3. At(message, Before(message)) = EmbeddedAction
    BY <1>1, <1>11, <2>2, Layout
  <2>4. buffer.at[EmbeddedAction]
          = [struct |-> "action", name |-> message.action, count |-> Len(message.params)]
    BY <1>1, <2>1, <2>3, ActionSent DEF Packed
  <2> QED BY <2>4
<1>12. ASSUME message.type = "DIGEST"
       PROVE  Reads \in {0, Len(message.params)} /\ ~(Reads > P4_MAX)
  <2>1. Reads = IF message.table \in DOMAIN Tables[program].digests
                THEN Tables[program].digests[message.table] ELSE 0
    BY <1>2, <1>3, Zenon DEF Reads
  <2>2. message.table \in DOMAIN Tables[program].digests =>
          Tables[program].digests[message.table] = Len(message.params) /\ Len(message.params) <= P4_MAX
    BY <1>12, MessagesAssumption DEF Chosen
  <2>3. message.table \in DOMAIN Tables[program].digests => ~(Len(message.params) > P4_MAX)
    BY <1>6, <1>9, <2>2, Zenon
  <2> QED BY <1>9, <2>1, <2>2, <2>3, Zenon
<1>13. message.type = "ADD_TABLE_ENTRY" => buffer.count = Len(message.matches)
  BY <1>2, <1>3 DEF Count
<1>14. message.type \in {"ADD_TABLE_ENTRY", "SET_DEFAULT_ACTION"} => message.type # "DIGEST"
  OBVIOUS
<1> QED BY <1>2, <1>3, <1>5, <1>7, <1>8, <1>10, <1>11, <1>12, <1>13, <1>14, Zenon

\* handle_p4_msg refuses no message, and starts where the first struct is.
LEMMA HandleKeeps == ASSUME IInv, handle_p4_msg PROVE IInv'
<1>1. Chosen' /\ Chosen /\ IsMessage(message) /\ message' = message
  BY Said DEF IInv, handle_p4_msg, UNCHANGEDMessage
<1>2. Packed(buffer, message)
  BY DEF IInv, ReadInv, handle_p4_msg
<1>3. PICK t, l, tb, c, at :
        /\ buffer = BufferOf(t, l, tb, c, at) /\ at = buffer.at
        /\ t = message.type /\ tb = message.table /\ c = Count(message)
  BY <1>2 DEF Packed
<1>3a. buffer = BufferOf(t, l, tb, c, at)
  BY <1>3
<1>4. /\ Swap16(buffer.length) = End(message) /\ ~(End(message) > MaxLength)
      /\ buffer.type = message.type /\ buffer.table = message.table
  BY <1>1, <1>2, Counted
<1>5. PICK e : e = End(message)
  OBVIOUS
<1>6. buffer' = BufferOf(t, e, tb, c, at) /\ buffer'.at = at
  <2>1. buffer' = [buffer EXCEPT !.length = e]
    BY <1>4, <1>5 DEF handle_p4_msg
  <2> QED BY <1>3a, <2>1 DEF BufferOf
<1>7. \A k \in Nat : Ahead(buffer', message, k)
  <2>1. buffer' = BufferOf(message.type, End(message), message.table, Count(message), buffer'.at)
    BY <1>3, <1>5, <1>6, Zenon
  <2>2. \A i \in 1 .. Last(message) : At(message, i) \in DOMAIN at /\ at[At(message, i)] = Sent(message, i)
    BY <1>2, <1>3 DEF Packed
  <2>3. ASSUME NEW k \in Nat, NEW i \in k + 1 .. Last(message) PROVE i \in 1 .. Last(message)
    <3>1. PICK E \in Nat : E = Last(message)
      BY <1>1, Shape
    <3> QED BY <2>3, <3>1
  <2> QED BY <1>6, <2>1, <2>2, <2>3, Zenon DEF Ahead
<1>8. /\ Before(message) \in Nat /\ Len(message.params) \in Nat /\ Len(message.matches) \in Nat
      /\ \A s : Prefix(s, 0) = <<>>
      /\ 0 \in Nat /\ 0 \in 0 .. Len(message.params) /\ 0 \in 0 .. Len(message.matches)
      /\ 0 + 1 = 1 /\ Before(message) + 0 = Before(message)
      /\ message.type \in {"ADD_TABLE_ENTRY", "SET_DEFAULT_ACTION", "DIGEST"}
  BY <1>1, Shape, Prefixes
<1>9. CASE message.type = "ADD_TABLE_ENTRY"
  <2>1. /\ buffer.count = Len(message.matches) /\ ~(Len(message.matches) > P4_MAX)
        /\ Len(message.params) <= P4_MAX
    BY <1>1, <1>2, <1>9, Counted
  <2>2. PICK n : n = Len(message.matches)
    OBVIOUS
  <2>3. /\ offset' = SizeOf[message.type] /\ pc' = "unpack_matches"
        /\ ctrl_m' = [EmptyCtrl EXCEPT !.type = message.type, !.table = message.table, !.count = n]
    BY <1>4, <1>9, <2>1, <2>2 DEF handle_p4_msg, Goto
  <2>4. ctrl_m' = CtrlOf(message, Nothing, n, <<>>, <<>>)
    BY <2>3 DEF CtrlOf, EmptyCtrl
  <2>5. offset' = At(message, 0 + 1)
    <3>1. message.type # "SET_DEFAULT_ACTION"
      BY <1>9
    <3> QED BY <1>1, <1>8, <2>3, <3>1, Layout, Zenon
  <2>6. \E k \in 0 .. Len(message.matches) :
          /\ ctrl_m' = CtrlOf(message, Nothing, Len(message.matches), Prefix(message.matches, k), <<>>)
          /\ offset' = At(message, k + 1) /\ Ahead(buffer', message, k)
    BY <1>7, <1>8, <2>2, <2>4, <2>5, Zenon
  <2> QED BY <1>1, <1>9, <2>1, <2>3, <2>6 DEF IInv, BuildInv, ReadInv, Places
<1>10. CASE message.type \in {"SET_DEFAULT_ACTION", "DIGEST"}
  <2>1. PICK n : /\ n = IF message.type = "DIGEST" THEN Reads ELSE Len(message.params)
                 /\ ~(n > P4_MAX)
    <3>1. CASE message.type = "DIGEST"
      BY <1>1, <1>2, <3>1, Counted
    <3>2. CASE message.type = "SET_DEFAULT_ACTION"
      BY <1>1, <1>2, <3>2, Counted
    <3> QED BY <1>10, <3>1, <3>2
  <2>2. PICK a : a = message.action
    OBVIOUS
  <2>3. message.type = "DIGEST" => message.action = "none"
    BY <1>1 DEF IsMessage
  <2>4. /\ offset' = SizeOf[message.type] /\ pc' = "unpack_params"
        /\ ctrl_m' = [EmptyCtrl EXCEPT !.type = message.type, !.table = message.table, !.count = n,
                        !.action = a]
    <3>1. CASE message.type = "DIGEST"
      BY <1>4, <2>1, <2>2, <2>3, <3>1 DEF handle_p4_msg, Goto, IsDigest
    <3>2. CASE message.type = "SET_DEFAULT_ACTION"
      <4>1. /\ buffer.at[EmbeddedAction].count = Len(message.params)
            /\ buffer.at[EmbeddedAction].name = message.action
        BY <1>1, <1>2, <3>2, Counted
      <4> QED BY <1>4, <2>1, <2>2, <3>2, <4>1 DEF handle_p4_msg, Goto, IsDigest
    <3> QED BY <1>10, <3>1, <3>2
  <2>5. ctrl_m' = CtrlOf(message, a, n, <<>>, <<>>)
    BY <2>4 DEF CtrlOf, EmptyCtrl
  <2>6. message.matches = <<>> /\ message.type # "ADD_TABLE_ENTRY"
    BY <1>1, <1>10 DEF IsMessage
  <2>7. offset' = At(message, Before(message) + 0 + 1)
    BY <1>1, <1>8, <2>4, <2>6, Layout, Zenon
  <2>8. n \in {0, Len(message.params)} /\ ((n = 0 /\ message.type = "DIGEST") \/ n = Len(message.params))
    <3>1. CASE message.type = "DIGEST"
      <4>1. Reads \in {0, Len(message.params)}
        BY <1>1, <1>2, <3>1, Counted
      <4> QED BY <2>1, <3>1, <4>1
    <3>2. CASE message.type # "DIGEST"
      BY <2>1, <3>2
    <3> QED BY <3>1, <3>2
  <2>9. ctrl_m' = CtrlOf(message, message.action, n, message.matches, Prefix(Given(message), 0))
    BY <1>8, <2>2, <2>5, <2>6, Zenon
  <2>10. Ahead(buffer', message, Before(message) + 0)
    BY <1>7, <1>8, Zenon
  <2>11. (n = 0 /\ 0 = 0 /\ message.type = "DIGEST") \/ n = Len(message.params)
    BY <2>8
  <2>12. \E k \in 0 .. Len(message.params), d \in {0, Len(message.params)} :
           /\ (d = 0 /\ k = 0 /\ message.type = "DIGEST") \/ d = Len(message.params)
           /\ ctrl_m' = CtrlOf(message, message.action, d, message.matches, Prefix(Given(message), k))
           /\ offset' = At(message, Before(message) + k + 1) /\ Ahead(buffer', message, Before(message) + k)
    BY <1>8, <2>7, <2>8, <2>9, <2>10, <2>11, Zenon
  <2> QED BY <1>1, <2>4, <2>12 DEF IInv, BuildInv, ReadInv, Places
<1> QED BY <1>8, <1>9, <1>10

\* The reader converts the next struct where it is, and goes on behind it.
LEMMA ReadOn ==
  ASSUME IsMessage(message), NEW k \in Nat, k + 1 \in 1 .. Last(message), NEW s,
         message.type # "SET_DEFAULT_ACTION" \/ k + 1 # 1,
         SizeOf[s.struct] = Size(message, k + 1),
         offset = At(message, k + 1), Ahead(buffer, message, k), Next1(s)
  PROVE  offset' = At(message, (k + 1) + 1) /\ Ahead(buffer', message, k + 1)
<1>1. PICK E \in Nat : E = Last(message)
  BY Shape
<1>2. k + 1 \in 1 .. E /\ \A i \in (k + 1) + 1 .. E : i \in k + 1 .. E /\ i \in 1 .. E /\ i # k + 1
  BY <1>1
<1>3. At(message, (k + 1) + 1) = At(message, k + 1) + Size(message, k + 1)
  BY Layout
<1>4. PICK o : o = At(message, k + 1)
  OBVIOUS
<1>5. offset' = o + SizeOf[s.struct] /\ buffer' = [buffer EXCEPT !.at[o] = s]
  BY <1>4 DEF Next1
<1>6. PICK t, l, tb, c, at :
        /\ buffer = BufferOf(t, l, tb, c, at) /\ at = buffer.at
        /\ t = message.type /\ l = End(message) /\ tb = message.table /\ c = Count(message)
  BY DEF Ahead
<1>6a. buffer = BufferOf(t, l, tb, c, at)
  BY <1>6
<1>7. PICK q : q = [at EXCEPT ![o] = s] /\ buffer' = BufferOf(t, l, tb, c, q) /\ buffer'.at = q
  BY <1>5, <1>6a DEF BufferOf
<1>8. DOMAIN q = DOMAIN at /\ \A x \in DOMAIN at : x # o => q[x] = at[x]
  BY <1>7
<1>9. \A i \in k + 1 .. E : At(message, i) \in DOMAIN at /\ at[At(message, i)] = Sent(message, i)
  BY <1>1, <1>6 DEF Ahead
<1>10. \A i \in (k + 1) + 1 .. E : At(message, i) # o
  BY <1>1, <1>2, <1>4, Different
<1>11. \A i \in (k + 1) + 1 .. E : At(message, i) \in DOMAIN q /\ q[At(message, i)] = Sent(message, i)
  BY <1>2, <1>8, <1>9, <1>10, Zenon
<1>12. buffer' = BufferOf(message.type, End(message), message.table, Count(message), buffer'.at)
  BY <1>6, <1>7, Zenon
<1>13. Ahead(buffer', message, k + 1)
  BY <1>1, <1>7, <1>11, <1>12, Zenon DEF Ahead
<1> QED BY <1>3, <1>4, <1>5, <1>13, Zenon

\* It finds there what was sent.
LEMMA Found ==
  ASSUME NEW m, NEW k, NEW E \in Nat, E = Last(m), k \in Nat, k + 1 \in 1 .. E,
         Ahead(buffer, m, k), offset = At(m, k + 1)
  PROVE  offset \in DOMAIN buffer.at /\ buffer.at[offset] = Sent(m, k + 1)
<1>1. k + 1 \in k + 1 .. E
  OBVIOUS
<1> QED BY <1>1 DEF Ahead

\* The next match is read where it was put, and what is read of it is what was sent.
LEMMA UnpackMatchKeeps == ASSUME IInv, UnpackMatch PROVE IInv'
<1>1. Chosen' /\ IsMessage(message) /\ message' = message
  BY Said DEF IInv, UnpackMatch, UNCHANGEDMessage
<1>2. /\ message.type = "ADD_TABLE_ENTRY" /\ Len(message.params) <= P4_MAX
      /\ pc = "unpack_matches" /\ Len(ctrl_m.matches) < ctrl_m.count
  BY DEF IInv, ReadInv, UnpackMatch
<1>3. PICK k \in 0 .. Len(message.matches) :
        /\ ctrl_m = CtrlOf(message, Nothing, Len(message.matches), Prefix(message.matches, k), <<>>)
        /\ offset = At(message, k + 1) /\ Ahead(buffer, message, k)
  BY DEF IInv, ReadInv, UnpackMatch
<1>4. PICK L \in Nat, B \in Nat, P \in Nat, E \in Nat :
        /\ L = Len(message.matches) /\ B = Before(message) /\ P = Len(message.params)
        /\ E = Last(message) /\ E = B + P
        /\ message.type = "DIGEST" => L = 0 /\ B = 0
        /\ message.type # "DIGEST" => B = L + 1
  BY <1>1, Numbers
<1>5. PICK c, p : /\ ctrl_m = CtrlOf(message, Nothing, c, p, <<>>)
                  /\ c = L /\ p = Prefix(message.matches, k)
  BY <1>3, <1>4
<1>5a. ctrl_m = CtrlOf(message, Nothing, c, p, <<>>)
  BY <1>5
<1>6. ctrl_m.matches = p /\ ctrl_m.count = c
  BY <1>5a DEF CtrlOf
<1>7. k \in Nat /\ k \in 0 .. L
  BY <1>3, <1>4
<1>8. Len(p) = k
  BY <1>5, <1>7, Prefixes
<1>9. k < L /\ k + 1 \in 1 .. L /\ k + 1 \in 0 .. L
  <2>1. k < L
    BY <1>2, <1>5, <1>6, <1>8, Zenon
  <2> QED BY <1>7, <2>1
<1>10. k + 1 \in 1 .. E /\ message.type # "SET_DEFAULT_ACTION"
  <2>1. B = L + 1 /\ E = B + P /\ L \in Nat /\ P \in Nat /\ message.type # "SET_DEFAULT_ACTION"
    BY <1>2, <1>4
  <2>2. k + 1 \in 1 .. E
    BY <1>9, <2>1
  <2> QED BY <2>1, <2>2
<1>11. k + 1 \in 1 .. Len(message.matches) /\ k + 1 \in 1 .. Last(message)
       /\ k + 1 \in 0 .. Len(message.matches)
  BY <1>4, <1>9, <1>10, Zenon
<1>12. offset \in DOMAIN buffer.at /\ buffer.at[offset] = Sent(message, k + 1)
  BY <1>3, <1>4, <1>7, <1>10, Found
<1> DEFINE s == Unpacked(Sent(message, k + 1))
<1>13. /\ Sent(message, k + 1).struct \in Matched
       /\ SizeOf[s.struct] = Size(message, k + 1)
       /\ Match(s.struct, s.name, s.value, s.bits) = message.matches[k + 1]
  BY <1>1, <1>11, MatchSent, Zenon
<1>14. Finds(Matched)
  BY <1>12, <1>13, Zenon DEF Finds
<1>15. /\ Next1(s) /\ pc' = "unpack_matches"
       /\ ctrl_m' = [ctrl_m EXCEPT !.matches = Append(@, message.matches[k + 1])]
  BY <1>2, <1>12, <1>13, <1>14 DEF UnpackMatch
<1> HIDE DEF s
<1>16. offset' = At(message, (k + 1) + 1) /\ Ahead(buffer', message, k + 1)
  BY <1>1, <1>3, <1>7, <1>10, <1>11, <1>13, <1>15, ReadOn
<1>17. ctrl_m' = CtrlOf(message, Nothing, Len(message.matches), Prefix(message.matches, k + 1), <<>>)
  <2>1. PICK x : x = message.matches[k + 1]
    OBVIOUS
  <2>2. ctrl_m' = [ctrl_m EXCEPT !.matches = Append(@, x)]
    BY <1>15, <2>1
  <2>3. ctrl_m' = CtrlOf(message, Nothing, c, Append(p, x), <<>>)
    BY <1>5a, <2>2 DEF CtrlOf
  <2>4. Append(p, x) = Prefix(message.matches, k + 1)
    BY <1>5, <1>7, <2>1, Prefixes
  <2> QED BY <1>4, <1>5, <2>3, <2>4, Zenon
<1>18. \E i \in 0 .. Len(message.matches) :
         /\ ctrl_m' = CtrlOf(message, Nothing, Len(message.matches), Prefix(message.matches, i), <<>>)
         /\ offset' = At(message, i + 1) /\ Ahead(buffer', message, i)
  BY <1>11, <1>16, <1>17, Zenon
<1> QED BY <1>1, <1>2, <1>15, <1>18 DEF IInv, BuildInv, ReadInv, Places

\* So is the action.
LEMMA UnpackActionKeeps == ASSUME IInv, UnpackAction PROVE IInv'
<1>1. Chosen' /\ IsMessage(message) /\ message' = message
  BY Said DEF IInv, UnpackAction, UNCHANGEDMessage
<1>2. /\ message.type = "ADD_TABLE_ENTRY" /\ Len(message.params) <= P4_MAX
      /\ pc = "unpack_matches" /\ Len(ctrl_m.matches) = ctrl_m.count
  BY DEF IInv, ReadInv, UnpackAction
<1>3. PICK k \in 0 .. Len(message.matches) :
        /\ ctrl_m = CtrlOf(message, Nothing, Len(message.matches), Prefix(message.matches, k), <<>>)
        /\ offset = At(message, k + 1) /\ Ahead(buffer, message, k)
  BY DEF IInv, ReadInv, UnpackAction
<1>4. PICK L \in Nat, B \in Nat, P \in Nat, E \in Nat :
        /\ L = Len(message.matches) /\ B = Before(message) /\ P = Len(message.params)
        /\ E = Last(message) /\ E = B + P
        /\ message.type = "DIGEST" => L = 0 /\ B = 0
        /\ message.type # "DIGEST" => B = L + 1
  BY <1>1, Numbers
<1>5. PICK c, p : /\ ctrl_m = CtrlOf(message, Nothing, c, p, <<>>)
                  /\ c = L /\ p = Prefix(message.matches, k)
  BY <1>3, <1>4
<1>5a. ctrl_m = CtrlOf(message, Nothing, c, p, <<>>)
  BY <1>5
<1>6. ctrl_m.matches = p /\ ctrl_m.count = c
  BY <1>5a DEF CtrlOf
<1>7. k \in Nat /\ k = L /\ k = Len(message.matches)
  <2>1. k \in Nat
    BY <1>3, <1>4
  <2>2. Len(p) = k
    BY <1>5, <2>1, Prefixes
  <2> QED BY <1>2, <1>4, <1>5, <1>6, <2>1, <2>2, Zenon
<1>8. message.type # "DIGEST" /\ message.type # "SET_DEFAULT_ACTION"
  BY <1>2
<1>9. p = message.matches
  BY <1>1, <1>5, <1>7, Prefixes DEF IsMessage
<1>10. k + 1 \in 1 .. E /\ k + 1 = B /\ 0 \in 0 .. P /\ P \in {0, P}
       /\ B + 0 = k + 1 /\ B + 0 + 1 = (k + 1) + 1
  <2>1. B = L + 1 /\ E = B + P /\ P \in Nat /\ k \in Nat /\ k = L
    BY <1>4, <1>7, <1>8
  <2> QED BY <2>1
<1>11. k + 1 = Before(message) /\ k + 1 \in 1 .. Last(message)
  BY <1>4, <1>10, Zenon
<1>12. offset \in DOMAIN buffer.at /\ buffer.at[offset] = Sent(message, k + 1)
  BY <1>3, <1>4, <1>7, <1>10, Found
<1> DEFINE s == Sent(message, k + 1)
<1>13. s = [struct |-> "action", name |-> message.action, count |-> Len(message.params)]
       /\ SizeOf[s.struct] = Size(message, k + 1)
  BY <1>1, <1>8, <1>11, ActionSent, Zenon
<1> HIDE DEF s
<1>14. s.struct = "action" /\ s.name = message.action /\ s.count = Len(message.params)
  BY <1>13
<1>15. Finds({"action"})
  BY <1>12, <1>14 DEF Finds, s
<1>16. ~(s.count > P4_MAX)
  <2>1. P <= P4_MAX /\ P4_MAX \in Nat
    BY <1>2, <1>4 DEF P4_MAX
  <2>2. ~(P > P4_MAX)
    BY <2>1
  <2> QED BY <1>4, <1>14, <2>2, Zenon
<1>17. /\ Next1(s) /\ pc' = "unpack_params"
       /\ ctrl_m' = [ctrl_m EXCEPT !.action = s.name, !.count = s.count]
  BY <1>12, <1>15, <1>16 DEF UnpackAction, Goto, s
<1>18. offset' = At(message, (k + 1) + 1) /\ Ahead(buffer', message, k + 1)
  BY <1>1, <1>3, <1>7, <1>8, <1>11, <1>13, <1>17, ReadOn
<1>19. ctrl_m' = CtrlOf(message, message.action, Len(message.params), message.matches,
                        Prefix(Given(message), 0))
  <2>1. PICK a, n : a = message.action /\ n = Len(message.params)
    OBVIOUS
  <2>2. ctrl_m' = [ctrl_m EXCEPT !.action = a, !.count = n]
    BY <1>14, <1>17, <2>1
  <2>3. ctrl_m' = CtrlOf(message, a, n, p, <<>>)
    BY <1>5a, <2>2 DEF CtrlOf
  <2>4. Prefix(Given(message), 0) = <<>>
    BY Prefixes
  <2> QED BY <1>9, <2>1, <2>3, <2>4, Zenon
<1>20. \E i \in 0 .. Len(message.params), d \in {0, Len(message.params)} :
         /\ (d = 0 /\ i = 0 /\ message.type = "DIGEST") \/ d = Len(message.params)
         /\ ctrl_m' = CtrlOf(message, message.action, d, message.matches, Prefix(Given(message), i))
         /\ offset' = At(message, Before(message) + i + 1) /\ Ahead(buffer', message, Before(message) + i)
  <2>1. /\ 0 \in 0 .. Len(message.params) /\ Len(message.params) \in {0, Len(message.params)}
        /\ offset' = At(message, Before(message) + 0 + 1) /\ Ahead(buffer', message, Before(message) + 0)
    BY <1>4, <1>10, <1>18, Zenon
  <2> QED BY <1>19, <2>1, Zenon
<1> QED BY <1>1, <1>17, <1>20 DEF IInv, BuildInv, ReadInv, Places

\* So is the next parameter, or the next field of a digest.
LEMMA UnpackParameterKeeps == ASSUME IInv, UnpackParameter PROVE IInv'
<1>1. Chosen' /\ IsMessage(message) /\ message' = message
  BY Said DEF IInv, UnpackParameter, UNCHANGEDMessage
<1>2. pc = "unpack_params" /\ Len(ctrl_m.params) < ctrl_m.count
  BY DEF UnpackParameter
<1>3. PICK k \in 0 .. Len(message.params), d \in {0, Len(message.params)} :
        /\ (d = 0 /\ k = 0 /\ message.type = "DIGEST") \/ d = Len(message.params)
        /\ ctrl_m = CtrlOf(message, message.action, d, message.matches, Prefix(Given(message), k))
        /\ offset = At(message, Before(message) + k + 1) /\ Ahead(buffer, message, Before(message) + k)
  BY <1>2 DEF IInv, ReadInv
<1>4. PICK L \in Nat, B \in Nat, P \in Nat, E \in Nat :
        /\ L = Len(message.matches) /\ B = Before(message) /\ P = Len(message.params)
        /\ E = Last(message) /\ E = B + P
        /\ message.type = "DIGEST" => L = 0 /\ B = 0
        /\ message.type # "DIGEST" => B = L + 1
  BY <1>1, Numbers
<1>5. PICK a, c, ms, p : /\ ctrl_m = CtrlOf(message, a, c, ms, p)
                         /\ a = message.action /\ c = d /\ ms = message.matches
                         /\ p = Prefix(Given(message), k)
  BY <1>3
<1>5a. ctrl_m = CtrlOf(message, a, c, ms, p)
  BY <1>5
<1>6. ctrl_m.params = p /\ ctrl_m.count = c
  BY <1>5a DEF CtrlOf
<1>7. k \in Nat /\ k \in 0 .. P
  BY <1>3, <1>4
<1>8. Len(p) = k
  BY <1>5, <1>7, Prefixes
<1>9. k < d
  BY <1>2, <1>5, <1>6, <1>8, Zenon
<1>10. d = P
  <2>1. ~(d = 0 /\ k = 0)
    BY <1>9
  <2> QED BY <1>3, <1>4, <2>1, Zenon
<1>11. /\ k + 1 \in 1 .. P /\ k + 1 \in 0 .. P /\ B + (k + 1) = (B + k) + 1 /\ B + k \in Nat
       /\ (B + k) + 1 \in 1 .. E
  <2>1. k < P
    BY <1>9, <1>10, Zenon
  <2>2. B \in Nat /\ P \in Nat /\ k \in Nat /\ E = B + P
    BY <1>4, <1>7, Zenon
  <2> HIDE DEF IInv, UnpackParameter
  <2>3. k + 1 \in 1 .. P /\ k + 1 \in 0 .. P
    BY <2>1, <2>2
  <2>4. B + (k + 1) = (B + k) + 1 /\ B + k \in Nat /\ (B + k) + 1 \in 1 .. E
    BY <2>1, <2>2
  <2> QED BY <2>3, <2>4
<1>12. /\ k + 1 \in 1 .. Len(message.params) /\ k + 1 \in 0 .. Len(message.params)
       /\ Before(message) + (k + 1) = (Before(message) + k) + 1 /\ Before(message) + k \in Nat
       /\ (Before(message) + k) + 1 \in 1 .. Last(message)
       /\ d = Len(message.params)
  BY <1>4, <1>10, <1>11, Zenon
<1>13. message.type # "SET_DEFAULT_ACTION" \/ (Before(message) + k) + 1 # 1
  <2>1. CASE message.type = "DIGEST"
    BY <2>1
  <2>2. CASE message.type # "DIGEST"
    <3>1. (B + k) + 1 # 1
      BY <1>4, <1>7, <2>2
    <3> QED BY <1>4, <3>1, Zenon
  <2> QED BY <2>1, <2>2
<1>14. offset \in DOMAIN buffer.at /\ buffer.at[offset] = Sent(message, (Before(message) + k) + 1)
  <2>1. PICK j \in Nat : j = Before(message) + k
    BY <1>12
  <2>2. j + 1 \in 1 .. E /\ offset = At(message, j + 1) /\ Ahead(buffer, message, j)
    BY <1>3, <1>4, <1>12, <2>1, Zenon
  <2> QED BY <1>4, <2>1, <2>2, Found
<1> DEFINE s == Unpacked(Sent(message, (Before(message) + k) + 1))
<1>15. /\ Sent(message, (Before(message) + k) + 1).struct = FieldKind(message)
       /\ SizeOf[s.struct] = Size(message, (Before(message) + k) + 1)
       /\ Param(s.name, s.value, s.bits) = Given(message)[k + 1]
  <2>1. LET u == Unpacked(Sent(message, Before(message) + (k + 1)))
        IN /\ Sent(message, Before(message) + (k + 1)).struct = FieldKind(message)
           /\ SizeOf[u.struct] = Size(message, Before(message) + (k + 1))
           /\ Param(u.name, u.value, u.bits) = Given(message)[k + 1]
    BY <1>1, <1>12, FieldSent, Zenon
  <2>2. Before(message) + (k + 1) = (Before(message) + k) + 1
    BY <1>12
  <2> QED BY <2>1, <2>2
<1>16. Finds({IF IsDigest THEN "digest_field" ELSE "param"})
  BY <1>14, <1>15 DEF Finds, FieldKind, IsDigest
<1>17. /\ Next1(s) /\ pc' = "unpack_params"
       /\ ctrl_m' = [ctrl_m EXCEPT !.params = Append(@, Given(message)[k + 1])]
  BY <1>2, <1>14, <1>15, <1>16 DEF UnpackParameter
<1> HIDE DEF s
<1>18. /\ offset' = At(message, Before(message) + (k + 1) + 1)
       /\ Ahead(buffer', message, Before(message) + (k + 1))
  <2>1. PICK j \in Nat : j = Before(message) + k
    BY <1>12
  <2>2. /\ j + 1 \in 1 .. Last(message) /\ offset = At(message, j + 1) /\ Ahead(buffer, message, j)
        /\ (message.type # "SET_DEFAULT_ACTION" \/ j + 1 # 1) /\ SizeOf[s.struct] = Size(message, j + 1)
        /\ Before(message) + (k + 1) = j + 1
    BY <1>3, <1>12, <1>13, <1>15, <2>1, Zenon
  <2>3. offset' = At(message, (j + 1) + 1) /\ Ahead(buffer', message, j + 1)
    BY <1>1, <1>17, <2>2, ReadOn
  <2> QED BY <2>2, <2>3, Zenon
<1>19. ctrl_m' = CtrlOf(message, message.action, d, message.matches, Prefix(Given(message), k + 1))
  <2>1. PICK x : x = Given(message)[k + 1]
    OBVIOUS
  <2>2. ctrl_m' = [ctrl_m EXCEPT !.params = Append(@, x)]
    BY <1>17, <2>1
  <2>3. ctrl_m' = CtrlOf(message, a, c, ms, Append(p, x))
    BY <1>5a, <2>2 DEF CtrlOf
  <2>4. Append(p, x) = Prefix(Given(message), k + 1)
    BY <1>5, <1>7, <2>1, Prefixes
  <2> QED BY <1>5, <2>3, <2>4, Zenon
<1>20. \E i \in 0 .. Len(message.params), n \in {0, Len(message.params)} :
         /\ (n = 0 /\ i = 0 /\ message.type = "DIGEST") \/ n = Len(message.params)
         /\ ctrl_m' = CtrlOf(message, message.action, n, message.matches, Prefix(Given(message), i))
         /\ offset' = At(message, Before(message) + i + 1) /\ Ahead(buffer', message, Before(message) + i)
  BY <1>12, <1>18, <1>19, Zenon
<1> QED BY <1>1, <1>17, <1>20 DEF IInv, BuildInv, ReadInv, Places

\* recv_from_controller is given all of the message.
LEMMA RecvKeeps == ASSUME IInv, recv_from_controller PROVE IInv'
<1>1. /\ Chosen' /\ IsMessage(message) /\ message' = message /\ program' = program
      /\ ctrl_m' = ctrl_m /\ pc' = "done" /\ pc = "unpack_params"
      /\ Len(ctrl_m.params) = ctrl_m.count
  BY Said DEF IInv, recv_from_controller, UNCHANGEDMessage, Goto
<1>2. PICK k \in 0 .. Len(message.params), d \in {0, Len(message.params)} :
        /\ (d = 0 /\ k = 0 /\ message.type = "DIGEST") \/ d = Len(message.params)
        /\ ctrl_m = CtrlOf(message, message.action, d, message.matches, Prefix(Given(message), k))
  BY <1>1 DEF IInv, ReadInv
<1>3. PICK a, c, ms, p : /\ ctrl_m = CtrlOf(message, a, c, ms, p)
                         /\ a = message.action /\ c = d /\ ms = message.matches
                         /\ p = Prefix(Given(message), k)
  BY <1>2
<1>3a. ctrl_m = CtrlOf(message, a, c, ms, p)
  BY <1>3
<1>4. /\ ctrl_m.params = p /\ ctrl_m.count = c
      /\ ctrl_m.table = message.table /\ ctrl_m.action = a /\ ctrl_m.type = message.type
  BY <1>3a DEF CtrlOf
<1>5. k \in Nat
  <2>1. PICK P \in Nat : P = Len(message.params)
    BY <1>1, Shape
  <2> QED BY <2>1
<1>6. k = d
  <2>1. Len(p) = k
    BY <1>3, <1>5, Prefixes
  <2> QED BY <1>1, <1>3, <1>4, <2>1, Zenon
<1>7. \E n \in {0, Len(message.params)} :
        /\ (n = 0 /\ message.type = "DIGEST") \/ n = Len(message.params)
        /\ ctrl_m = CtrlOf(message, message.action, n, message.matches, Prefix(Given(message), n))
  BY <1>2, <1>6, Zenon
<1>8. LET tables == Tables[program].tables
      IN installed' = IF /\ message.table \in DOMAIN tables
                         /\ message.action \in DOMAIN tables[message.table].actions
                      THEN Rule(tables[message.table], message.type, ctrl_m) ELSE NoRule
  <2>1. /\ ctrl_m.table = message.table /\ ctrl_m.action = message.action
        /\ ctrl_m.type = message.type
    BY <1>3, <1>4, Zenon
  <2> QED BY <2>1, Zenon DEF recv_from_controller
<1> QED BY <1>1, <1>7, <1>8 DEF IInv, BuildInv, ReadInv, Places

-----------------------------------------------------------------------------
(* The theorems.                                                           *)

\* IInv holds at the beginning.
LEMMA Started == Init => IInv
BY DEF Init, IInv, Chosen, BuildInv, ReadInv, Places

\* Every step keeps IInv.
LEMMA Kept == ASSUME IInv, [Next]_vars PROVE IInv'
<1>1. CASE Next
  <2>1. CASE Build
    BY <2>1, HeaderKeeps, BodyKeeps, MatchKeeps, ActionKeeps, ParameterKeeps, FieldKeeps DEF Build
  <2>2. CASE Handle
    BY <2>2, HandleKeeps, UnpackMatchKeeps, UnpackActionKeeps, UnpackParameterKeeps DEF Handle
  <2>3. CASE Over
    BY <2>3 DEF Over, vars, IInv, Chosen, BuildInv, ReadInv
  <2> QED BY <1>1, <2>1, <2>2, <2>3, ConvertKeeps, TransmitKeeps, RecvKeeps DEF Next
<1>2. CASE UNCHANGED vars
  BY <1>2 DEF vars, IInv, Chosen, BuildInv, ReadInv
<1> QED BY <1>1, <1>2

\* In every state what is in the buffer is a prefix of what the message's structs are,
\* and what has been read is a prefix of what was sent (messages.c, handlers.c).
THEOREM Inductive == Spec => []IInv
<1>1. Init => IInv
  BY Started
<1>2. IInv /\ [Next]_vars => IInv'
  BY Kept
<1> QED BY <1>1, <1>2, PTL DEF Spec

\* Where a struct of a message may begin.
LEMMA BehindTheFixedPart ==
  ASSUME NEW m, IsMessage(m), NEW i \in 1 .. Last(m)
  PROVE  At(m, i) >= SizeOf[m.type] \/ At(m, i) = EmbeddedAction
<1>1. PICK E \in Nat : E = Last(m)
  BY Shape
<1>2. i \in 1 .. E
  BY <1>1
<1>3. SizeOf[m.type] \in Nat
  BY Shape, SizeIs
<1>4. ASSUME NEW a \in 1 .. E + 1, a <= i, At(m, a) = SizeOf[m.type]
      PROVE  At(m, i) >= SizeOf[m.type]
  <2>1. CASE a = i
    BY <1>3, <1>4, <2>1
  <2>2. CASE a # i
    <3>1. a < i /\ a \in 1 .. E /\ i \in 1 .. E + 1
      BY <1>2, <1>4, <2>2
    <3>2. At(m, a) + Size(m, a) <= At(m, i) /\ Size(m, a) \in Nat /\ At(m, i) \in Nat
      BY <1>1, <3>1, InOrder, Layout
    <3> QED BY <1>3, <1>4, <3>2
  <2> QED BY <2>1, <2>2
<1>5. CASE m.type = "SET_DEFAULT_ACTION"
  <2>1. At(m, 1) = EmbeddedAction
    BY <1>5, Layout
  <2>2. At(m, 2) = SizeOf[m.type]
    <3>1. Before(m) = 1
      <4>1. m.type # "ADD_TABLE_ENTRY" /\ m.type # "DIGEST"
        BY <1>5
      <4>2. Before(m) = Len(m.matches) + 1 /\ Len(m.matches) = 0
        BY <4>1, Shape
      <4> QED BY <4>2
    <3> QED BY <1>5, <3>1, Layout
  <2>3. CASE i = 1
    BY <2>1, <2>3
  <2>4. CASE i # 1
    <3>1. 2 \in 1 .. E + 1 /\ 2 <= i
      BY <1>2, <2>4
    <3> QED BY <1>4, <2>2, <3>1
  <2> QED BY <2>3, <2>4
<1>6. CASE m.type # "SET_DEFAULT_ACTION"
  <2>1. At(m, 1) = SizeOf[m.type]
    BY <1>6, Layout
  <2>2. 1 \in 1 .. E + 1 /\ 1 <= i
    BY <1>2
  <2> QED BY <1>4, <2>1, <2>2
<1> QED BY <1>5, <1>6

\* The structs of a message that is being built share no byte.
LEMMA Disjoint ==
  ASSUME IsMessage(message), NEW k \in Nat, k <= Last(message), NEW c, NEW n,
         Added(buffer, message, k, c, n), NEW o \in DOMAIN buffer.at
  PROVE  LET end == o + SizeOf[buffer.at[o].struct]
         IN /\ end <= buffer.length /\ buffer.length <= MaxLength
            /\ o >= SizeOf[message.type] \/ o = EmbeddedAction
            /\ \A p \in DOMAIN buffer.at : p <= o \/ p >= end
<1>1. PICK E \in Nat : E = Last(message) /\ k <= E
  BY Shape
<1>2. PICK t, l, tb, at :
        /\ buffer = BufferOf(t, l, tb, c, at) /\ at = buffer.at
        /\ l = At(message, k + 1) /\ l <= MaxLength
  BY DEF Added
<1>2a. buffer = BufferOf(t, l, tb, c, at)
  BY <1>2
<1>3. buffer.length = At(message, k + 1) /\ buffer.length <= MaxLength
  <2>1. buffer.length = l
    BY <1>2a DEF BufferOf
  <2> QED BY <1>2, <2>1
<1>4. /\ DOMAIN buffer.at = {At(message, i) : i \in 1 .. k}
      /\ \A i \in 1 .. k : buffer.at[At(message, i)] = Item(message, i, n)
  BY DEF Added, Filled
<1>5. PICK i \in 1 .. k : o = At(message, i) /\ buffer.at[o] = Item(message, i, n)
  BY <1>4
<1>6. i \in 1 .. E /\ k + 1 \in 1 .. E + 1 /\ i < k + 1 /\ \A j \in 1 .. k : j \in 1 .. E /\ j \in 1 .. E + 1
  BY <1>1
<1>7. SizeOf[buffer.at[o].struct] = Size(message, i)
  BY <1>1, <1>5, <1>6, Built
<1>8. At(message, i) + Size(message, i) <= At(message, k + 1)
  BY <1>1, <1>6, InOrder
<1>9. o >= SizeOf[message.type] \/ o = EmbeddedAction
  BY <1>1, <1>5, <1>6, BehindTheFixedPart
<1>10. ASSUME NEW p \in DOMAIN buffer.at
       PROVE  p <= o \/ p >= o + SizeOf[buffer.at[o].struct]
  <2>1. PICK j \in 1 .. k : p = At(message, j)
    BY <1>4
  <2>2. j \in 1 .. E /\ j \in 1 .. E + 1 /\ At(message, i) \in Nat /\ At(message, j) \in Nat
        /\ Size(message, i) \in Nat /\ Size(message, j) \in Nat
    BY <1>1, <1>6, Layout
  <2>3. CASE i < j
    <3>1. At(message, i) + Size(message, i) <= At(message, j)
      BY <1>1, <1>6, <2>2, <2>3, InOrder
    <3> QED BY <1>5, <1>7, <2>1, <2>2, <3>1
  <2>4. CASE j < i
    <3>1. At(message, j) + Size(message, j) <= At(message, i)
      BY <1>1, <1>6, <2>2, <2>4, InOrder
    <3> QED BY <1>5, <2>1, <2>2, <3>1
  <2>5. CASE i = j
    BY <1>5, <2>1, <2>2, <2>5
  <2> QED BY <1>6, <2>2, <2>3, <2>4, <2>5
<1> QED BY <1>3, <1>5, <1>7, <1>8, <1>9, <1>10, Zenon

\* While a message is built its structs are disjoint, end within the buffer and leave
\* the fixed part alone; the length sent is the message's; and a program is stopped
\* only by a message that does not fit (the tests of messages.c's create_* and add_*).
THEOREM Framed == Spec => []Framing
<1>1. IInv => Framing
  <2> SUFFICES ASSUME IInv PROVE Framing
    OBVIOUS
  <2>1. IsMessage(message)
    BY Said DEF IInv
  <2>2. ASSUME pc \in {"create", "matches", "params"}, NEW o \in DOMAIN buffer.at
        PROVE  LET end == o + SizeOf[buffer.at[o].struct]
               IN /\ end <= buffer.length /\ buffer.length <= MaxLength
                  /\ o >= SizeOf[message.type] \/ o = EmbeddedAction
                  /\ \A p \in DOMAIN buffer.at : p <= o \/ p >= end
    <3>1. CASE pc = "create"
      <4>1. buffer.at = <<>>
        BY <3>1 DEF IInv, BuildInv, BufferOf
      <4> QED BY <2>2, <4>1
    <3>2. CASE pc = "matches"
      <4>1. PICK k \in 0 .. Len(message.matches) : Added(buffer, message, k, k, 0)
        BY <3>2 DEF IInv, BuildInv
      <4>2. message.type = "ADD_TABLE_ENTRY"
        BY <3>2 DEF IInv, BuildInv
      <4>3. PICK L \in Nat, B \in Nat, P \in Nat, E \in Nat :
              /\ L = Len(message.matches) /\ B = Before(message) /\ P = Len(message.params)
              /\ E = Last(message) /\ E = B + P
              /\ message.type = "DIGEST" => L = 0 /\ B = 0
              /\ message.type # "DIGEST" => B = L + 1
        BY <2>1, Numbers
      <4>4. L \in Nat /\ P \in Nat /\ B = L + 1 /\ E = B + P /\ k \in 0 .. L
        BY <4>2, <4>3
      <4>5. k \in Nat /\ k <= E
        BY <4>4
      <4>6. k \in Nat /\ k <= Last(message)
        BY <4>3, <4>5, Zenon
      <4> QED BY <2>1, <2>2, <4>1, <4>6, Disjoint
    <3>3. CASE pc = "params"
      <4>1. \E n \in 0 .. Len(message.params) :
              LET k == Before(message) + n
                  c == IF message.type = "DIGEST" THEN n ELSE Len(message.matches)
              IN Added(buffer, message, k, c, n) /\ k \in Nat /\ k <= Last(message)
        BY <3>3, Adding, Zenon
      <4>2. PICK k \in Nat : k <= Last(message) /\ \E c, n : Added(buffer, message, k, c, n)
        BY <4>1, Zenon
      <4> QED BY <2>1, <2>2, <4>2, Disjoint
    <3> QED BY <2>2, <3>1, <3>2, <3>3
  <2>3. ASSUME pc = "transmit" PROVE Swap16(buffer.length) = Need
    <3>1. Swap16(buffer.length) = End(message)
      BY <2>3, Counted DEF IInv, ReadInv
    <3> QED BY <2>1, <3>1, NeedIs
  <2>4. ASSUME pc = "crashed" PROVE Need > MaxLength \/ SizeOf[message.type] >= MaxLength
    BY <2>1, <2>4, NeedIs DEF IInv, BuildInv
  <2> QED BY <2>2, <2>3, <2>4 DEF Framing
<1> QED BY <1>1, Inductive, PTL

\* All the parameters are the whole list of them.
LEMMA Whole ==
  ASSUME NEW m, IsMessage(m)
  PROVE  Prefix(Given(m), Len(m.params)) = Given(m)
<1>1. Len(m.params) \in Nat /\ DOMAIN m.params = 1 .. Len(m.params)
  BY Shape
<1>2. CASE m.type = "DIGEST"
  <2>1. Given(m) = [i \in 1 .. Len(m.params) |-> Param("", m.params[i].value, m.params[i].bits)]
    BY <1>1, <1>2 DEF Given, Read
  <2> HIDE DEF Given
  <2> QED BY <2>1 DEF Prefix
<1>3. CASE m.type # "DIGEST"
  <2>1. IsList(m.params)
    BY DEF IsMessage
  <2> QED BY <1>1, <1>3, <2>1, Prefixes DEF Given
<1> QED BY <1>2, <1>3

\* A message is neither lost, nor refused, nor misread, and what the callback is given is
\* what the program meant (handlers.c's walk of the buffer and netconv_* on both sides).
THEOREM RoundTripKept == Spec => []RoundTrip
<1>1. IInv => RoundTrip
  <2> SUFFICES ASSUME IInv PROVE RoundTrip
    OBVIOUS
  <2>1. IsMessage(message)
    BY Said DEF IInv
  <2>2. pc \notin {"lost", "rejected", "astray"}
    BY DEF IInv, Places
  <2>3. ASSUME pc = "done"
        PROVE  /\ ctrl_m.type = message.type /\ ctrl_m.table = message.table
               /\ ctrl_m.action = message.action /\ ctrl_m.matches = message.matches
               /\ IF IsDigest
                  THEN \/ ctrl_m.count = 0
                       \/ ctrl_m.params = Read(message.params)
                  ELSE ctrl_m.params = message.params
    <3>1. PICK d \in {0, Len(message.params)} :
            /\ (d = 0 /\ message.type = "DIGEST") \/ d = Len(message.params)
            /\ ctrl_m = CtrlOf(message, message.action, d, message.matches, Prefix(Given(message), d))
      BY <2>3 DEF IInv, ReadInv
    <3>2. PICK a, c, ms, p : /\ ctrl_m = CtrlOf(message, a, c, ms, p)
                             /\ a = message.action /\ c = d /\ ms = message.matches
                             /\ p = Prefix(Given(message), d)
      BY <3>1
    <3>3. /\ ctrl_m.type = message.type /\ ctrl_m.table = message.table /\ ctrl_m.action = a
          /\ ctrl_m.matches = ms /\ ctrl_m.count = c /\ ctrl_m.params = p
      <4>1. ctrl_m = CtrlOf(message, a, c, ms, p)
        BY <3>2
      <4> QED BY <4>1 DEF CtrlOf
    <3>4. d = Len(message.params) => p = Given(message)
      BY <2>1, <3>2, Whole
    <3>5. IsDigest /\ d # Len(message.params) => ctrl_m.count = 0
      BY <3>1, <3>2, <3>3, Zenon
    <3>6. d = Len(message.params) =>
            IF IsDigest THEN ctrl_m.params = Read(message.params) ELSE ctrl_m.params = message.params
      BY <3>3, <3>4, Zenon DEF Given, IsDigest
    <3>7. ~IsDigest => d = Len(message.params)
      BY <3>1, Zenon DEF IsDigest
    <3> QED BY <3>2, <3>3, <3>5, <3>6, <3>7, Zenon
  <2> QED BY <2>2, <2>3, Zenon DEF RoundTrip
<1> QED BY <1>1, Inductive, PTL

\* What a program says of one of its P4 program's tables agrees with that program: the
\* table is there, the action is one of its, the parameters are the action's, each in the
\* place the switch takes it from, and a prefix is not longer than a byte can say.
Agrees(p, m) ==
  m.type # "DIGEST" /\ DOMAIN Tables[p].tables # {} =>
    LET tables == Tables[p].tables
        names  == tables[m.table].actions[m.action]
    IN /\ m.table \in DOMAIN tables /\ m.action \in DOMAIN tables[m.table].actions
       /\ DOMAIN names = 1 .. Len(names) /\ Len(m.params) = Len(names)
       /\ \A j \in DOMAIN names, k \in DOMAIN m.params : m.params[k].name = names[j] => k = j
       /\ m.type = "ADD_TABLE_ENTRY" /\ tables[m.table].match = "lpm" => m.matches[1].bits \in 0 .. 255

\* Whatever the programs say that agrees with their P4 programs is installed as they
\* meant it: nothing between the controller's call and the table's changes it.
THEOREM RulesKept ==
  ASSUME \A p \in Program : \A m \in Sends[p] : Agrees(p, m)
  PROVE  Spec => []RulesInstalled
<1>1. IInv => RulesInstalled
  <2> SUFFICES ASSUME IInv, pc = "done", ~IsDigest, DOMAIN Tables[program].tables # {}
               PROVE  RulesInstalled
    BY DEF RulesInstalled
  <2> DEFINE table == Tables[program].tables[message.table]
             names == table.actions[message.action]
             P == Len(message.params)
  <2>1. IsMessage(message) /\ Agrees(program, message) /\ message.type # "DIGEST"
    BY Said DEF IInv, Chosen, IsDigest
  <2>2. /\ message.table \in DOMAIN Tables[program].tables /\ message.action \in DOMAIN table.actions
        /\ DOMAIN names = 1 .. Len(names) /\ P = Len(names)
        /\ \A j \in DOMAIN names, k \in DOMAIN message.params : message.params[k].name = names[j] => k = j
        /\ message.type = "ADD_TABLE_ENTRY" /\ table.match = "lpm" => message.matches[1].bits \in 0 .. 255
    BY <2>1 DEF Agrees
  <2>3. ctrl_m = CtrlOf(message, message.action, P, message.matches, message.params)
    <3>1. ctrl_m = CtrlOf(message, message.action, P, message.matches, Prefix(Given(message), P))
      BY <2>1 DEF IInv, ReadInv
    <3>2. Prefix(Given(message), P) = message.params
      BY <2>1, Whole DEF Given
    <3> QED BY <3>1, <3>2, Zenon
  <2>4. PICK a, ps, ms : a = message.action /\ ps = message.params /\ ms = message.matches
    OBVIOUS
  <2>5. ctrl_m.action = a /\ ctrl_m.count = P /\ ctrl_m.matches = ms /\ ctrl_m.params = ps
    BY <2>3, <2>4 DEF CtrlOf
  <2>6. installed = Rule(table, message.type, ctrl_m)
    BY <2>2 DEF IInv, ReadInv
  <2> DEFINE r == Rule(table, message.type, ctrl_m)
  <2>7. /\ r.action = a
        /\ r.args = [j \in DOMAIN names |-> IF j <= P THEN ps[j].value ELSE Nothing]
        /\ message.type = "ADD_TABLE_ENTRY" =>
             /\ r.key = ms[1].value
             /\ table.match = "lpm" => r.depth = Byte(ms[1].bits)
    BY <2>4, <2>5 DEF Rule
  <2>8. r # NoRule
    BY DEF Rule, NoRule
  <2> HIDE DEF r, names, table
  <2>9. \A j \in DOMAIN names : r.args[j] = ps[j].value
    <3>1. PICK n \in Nat : n = P
      BY <2>1, Shape
    <3>2. \A j \in 1 .. n : j <= n
      OBVIOUS
    <3> QED BY <2>2, <2>7, <3>1, <3>2
  <2>10. message.type = "ADD_TABLE_ENTRY" /\ table.match = "lpm" => r.depth = ms[1].bits
    <3>1. \A b \in 0 .. 255 : Byte(b) = b
      BY DEF Byte
    <3> QED BY <2>2, <2>4, <2>7, <3>1
  <2> QED BY <2>2, <2>4, <2>6, <2>7, <2>8, <2>9, <2>10 DEF RulesInstalled, r, names, table
<1> QED BY <1>1, Inductive, PTL
=============================================================================
