--------------------------- MODULE Backend_proofs ---------------------------
(***************************************************************************)
(* Theorems about Backend, for every number of cells, slots, workers and   *)
(* messages: type correctness, that every cell has one owner, that a queue *)
(* is never full when there is a cell to put into it, that no more cells   *)
(* are lost than there are named causes, and the order in which it passes  *)
(* on what it is given: the controller's messages to the callback, and     *)
(* each worker's digests to the controller.                                *)
(*                                                                         *)
(* OneOwner is not inductive: that a thread has a cell only where its code *)
(* has one (Control), and that what input_processor finds in a cell is a   *)
(* message that was read from the socket (ReadCells), go with it.          *)
(*                                                                         *)
(* Messages and digests go the same way: a sequence of what has arrived,   *)
(* then what one thread has in hand, then a queue.  Seen as one sequence   *)
(* it is left alone by most steps; the others add to its end, move the     *)
(* border between what has arrived and what is under way, or lose the      *)
(* first that is under way.  A first lemma shows that every step is one of *)
(* these (MessageMoves, DigestMoves), which takes the invariant above: no  *)
(* thread writes into a cell on its way.  A second shows that these keep   *)
(* the order (MessagePathStep, DigestPathStep).                            *)
(***************************************************************************)
EXTENDS Backend, FiniteSetTheorems, SequenceTheorems, TLAPS

USE DEF Goto, Hold

-----------------------------------------------------------------------------
Holding == {"read", "handle", "write", "detouch", "fill", "send"}

Control ==
  /\ pc["backend_processor"] \in
       {"not_started", "select", "touch", "read", "close", "done"}
  /\ pc["input_processor"] \in {"not_started", "remove", "handle", "detouch", "done"}
  /\ pc["output_processor"] \in {"not_started", "remove", "write", "detouch", "done"}
  /\ \A w \in Worker : pc[w] \in {"idle", "fill", "send"}
  /\ \A t \in Thread : held[t] # NULL <=> pc[t] \in Holding
  /\ main = "launch" => pc["backend_processor"] = "not_started"
  /\ main \in {"launch", "dispatch_input"} => pc["input_processor"] = "not_started"
  /\ main \in {"launch", "dispatch_input", "dispatch_output"} =>
       pc["output_processor"] = "not_started"
  /\ \A w \in Worker : pc[w] # "idle" => created[w] # 0

Read == {Message(n) : n \in 1..taken}
ReadCells ==
  /\ \A c \in Elements(input_queue) : content[c] \in Read
  /\ pc["input_processor"] = "handle" => content[held["input_processor"]] \in Read

IInv == TypeOK /\ OneOwner /\ Control /\ ReadCells

-----------------------------------------------------------------------------
(* The queues as sets of cells.                                            *)

\* The elements of a sequence are in the set it is a sequence over.
LEMMA ElementsIn ==
  ASSUME NEW S, NEW s \in Seq(S)
  PROVE  Elements(s) \subseteq S
  BY DEF Elements

\* Adding an element to the end of a queue.
LEMMA AppendElements ==
  ASSUME NEW S, NEW s \in Seq(S), NEW e \in S
  PROVE  /\ Append(s, e) \in Seq(S)
         /\ Elements(Append(s, e)) = Elements(s) \cup {e}
         /\ Injective(s) /\ e \notin Elements(s) => Injective(Append(s, e))
  BY DEF Elements, Injective

\* Removing the oldest element of a queue without repetitions.
LEMMA TakeElements ==
  ASSUME NEW S, NEW s \in Seq(S), s # <<>>, Injective(s)
  PROVE  /\ Tail(s) \in Seq(S)
         /\ Head(s) \in S
         /\ Head(s) \in Elements(s)
         /\ Elements(Tail(s)) = Elements(s) \ {Head(s)}
         /\ Injective(Tail(s))
<1>1. Len(s) \in Nat \ {0} /\ Head(s) = s[1] /\ DOMAIN s = 1..Len(s)
  BY EmptySeq, HeadTailProperties
<1>2. /\ Tail(s) \in Seq(S) /\ Len(Tail(s)) = Len(s) - 1
      /\ \A i \in 1..Len(Tail(s)) : Tail(s)[i] = s[i + 1]
      /\ DOMAIN Tail(s) = 1 .. Len(s) - 1
  BY <1>1, HeadTailProperties
<1>3. \A i \in 2..Len(s) : s[i] = Tail(s)[i - 1] /\ i - 1 \in DOMAIN Tail(s)
  BY <1>1, <1>2
<1>4. Injective(Tail(s))
  BY <1>1, <1>2 DEF Injective
<1>5. Elements(Tail(s)) \subseteq Elements(s) \ {Head(s)}
  BY <1>1, <1>2 DEF Injective, Elements
<1>6. ASSUME NEW c \in Elements(s) \ {Head(s)}
      PROVE  c \in Elements(Tail(s))
  <2>1. PICK i \in 1..Len(s) : s[i] = c /\ i # 1
    BY <1>1, <1>6 DEF Elements
  <2>2. i \in 2..Len(s) BY <1>1, <2>1
  <2> QED BY <1>3, <2>1, <2>2 DEF Elements
<1>7. Head(s) \in S /\ Head(s) \in Elements(s)
  <2>1. 1 \in DOMAIN s BY <1>1
  <2> QED BY <1>1, <2>1 DEF Elements
<1> QED BY <1>2, <1>4, <1>5, <1>6, <1>7

\* A queue without repetitions that lacks one of the cells is shorter than the
\* pool is large.
LEMMA ShorterThanPool ==
  ASSUME NEW S, IsFiniteSet(S), NEW s \in Seq(S), Injective(s),
         NEW c \in S, c \notin Elements(s)
  PROVE  Len(s) < Cardinality(S)
<1>1. s \in Injection(1..Len(s), S \ {c})
  BY DEF Injective, Elements, Injection, IsInjective
<1>2. /\ IsFiniteSet(S \ {c}) /\ Cardinality(S) \in Nat
      /\ Cardinality(S \ {c}) = Cardinality(S) - 1
  BY FS_RemoveElement, FS_CardinalityType
<1>3. Cardinality(1..Len(s)) <= Cardinality(S \ {c})
  BY <1>1, <1>2, FS_Injection
<1>4. Len(s) \in Nat
  BY LenProperties
<1>5. Cardinality(1..Len(s)) = Len(s)
  <2>1. 1 \in Int /\ Len(s) \in Int
    BY <1>4
  <2>2. Cardinality(1..Len(s)) = IF 1 > Len(s) THEN 0 ELSE Len(s) - 1 + 1
    BY <2>1, FS_Interval, Zenon
  <2> QED BY <1>4, <2>2
<1> QED BY <1>2, <1>3, <1>4, <1>5

-----------------------------------------------------------------------------
(* What each kind of move of a cell does to OneOwner.                      *)

\* A thread that has no cell takes one from the pool.
LEMMA TouchOwner ==
  ASSUME TypeOK, OneOwner, NEW t \in Thread, held[t] = NULL,
         NEW c \in unused, Pool!Touch(c), Hold(t, c),
         UNCHANGED <<input_queue, output_queue>>
  PROVE  OneOwner'
<1>1. c \in Cell /\ c # NULL /\ held \in [Thread -> Cell \cup {NULL}]
  BY BackendAssumption DEF TypeOK
<1>2. unused' = unused \ {c}
  BY DEF Pool!Touch
<1>3. \A u \in Thread : held[u] # c
  BY <1>1 DEF OneOwner
<1>4. held'[t] = c /\ \A u \in Thread \ {t} : held'[u] = held[u]
  BY <1>1
<1> QED BY <1>1, <1>2, <1>3, <1>4 DEF OneOwner

\* A thread forgets its cell, if it has one.
LEMMA ForgetOwner ==
  ASSUME TypeOK, OneOwner, NEW t \in Thread, Hold(t, NULL),
         UNCHANGED <<unused, input_queue, output_queue>>
  PROVE  OneOwner'
<1>1. held'[t] = NULL /\ \A u \in Thread \ {t} : held'[u] = held[u]
  BY DEF TypeOK
<1> QED BY <1>1 DEF OneOwner

\* A thread gives its cell back.
LEMMA ReturnOwner ==
  ASSUME TypeOK, OneOwner, NEW t \in Thread, held[t] # NULL, Return(t),
         UNCHANGED <<input_queue, output_queue>>
  PROVE  OneOwner'
<1>1. held'[t] = NULL /\ \A u \in Thread \ {t} : held'[u] = held[u]
  BY DEF TypeOK, Return
<1>2. unused' = unused \cup {held[t]}
  BY DEF Return, Pool!Detouch
<1> QED BY <1>1, <1>2 DEF OneOwner

\* A thread puts its cell into one of the queues, or loses it there.
LEMMA PutOwner ==
  ASSUME TypeOK, OneOwner, NEW t \in Thread, held[t] # NULL, Hold(t, NULL),
         UNCHANGED unused,
         \/ InQ!Put(held[t]) /\ UNCHANGED output_queue
         \/ OutQ!Put(held[t]) /\ UNCHANGED input_queue
  PROVE  OneOwner'
<1>1. held[t] \in Cell
  BY DEF TypeOK
<1>2. held'[t] = NULL /\ \A u \in Thread \ {t} : held'[u] = held[u]
  BY DEF TypeOK
<1>3. CASE UNCHANGED <<input_queue, output_queue>>
  BY <1>3, ForgetOwner
<1>4. CASE input_queue' = Append(input_queue, held[t]) /\ UNCHANGED output_queue
  <2>1. /\ Injective(input_queue')
        /\ Elements(input_queue') = Elements(input_queue) \cup {held[t]}
    BY <1>1, <1>4, AppendElements DEF OneOwner, TypeOK
  <2> QED BY <1>2, <1>4, <2>1 DEF OneOwner
<1>5. CASE output_queue' = Append(output_queue, held[t]) /\ UNCHANGED input_queue
  <2>1. /\ Injective(output_queue')
        /\ Elements(output_queue') = Elements(output_queue) \cup {held[t]}
    BY <1>1, <1>5, AppendElements DEF OneOwner, TypeOK
  <2> QED BY <1>2, <1>5, <2>1 DEF OneOwner
<1> QED BY <1>3, <1>4, <1>5 DEF InQ!Put, OutQ!Put

\* A thread that has no cell removes one from a queue, and has it, or not when
\* shutdown is set.
LEMMA TakeOwner ==
  ASSUME TypeOK, OneOwner, NEW t \in Thread, held[t] = NULL, NEW c, NEW l,
         AfterRemoval(t, c, l), UNCHANGED unused,
         \/ InQ!Take /\ c = Head(input_queue) /\ UNCHANGED output_queue
         \/ OutQ!Take /\ c = Head(output_queue) /\ UNCHANGED input_queue
  PROVE  OneOwner'
<1>1. \/ UNCHANGED held
      \/ held'[t] = c /\ \A u \in Thread \ {t} : held'[u] = held[u]
  BY DEF TypeOK, AfterRemoval
<1>2. NULL \notin Cell
  BY BackendAssumption
<1>3. CASE InQ!Take /\ c = Head(input_queue) /\ UNCHANGED output_queue
  <2>1. /\ c \in Elements(input_queue)
        /\ Elements(input_queue') = Elements(input_queue) \ {c}
        /\ Injective(input_queue')
    BY <1>3, TakeElements DEF OneOwner, TypeOK, InQ!Take
  <2> QED BY <1>1, <1>2, <1>3, <2>1 DEF OneOwner
<1>4. CASE OutQ!Take /\ c = Head(output_queue) /\ UNCHANGED input_queue
  <2>1. /\ c \in Elements(output_queue)
        /\ Elements(output_queue') = Elements(output_queue) \ {c}
        /\ Injective(output_queue')
    BY <1>4, TakeElements DEF OneOwner, TypeOK, OutQ!Take
  <2> QED BY <1>1, <1>2, <1>4, <2>1 DEF OneOwner
<1> QED BY <1>3, <1>4

-----------------------------------------------------------------------------
(* Each part of the invariant is preserved by every step.                  *)

\* The processors are not workers, and differ from one another.
LEMMA Threads ==
  /\ Processor \subseteq Thread /\ Worker \subseteq Thread
  /\ \A w \in Worker : w \notin Processor
  BY BackendAssumption DEF Thread, Processor

\* Every cell keeps having one owner.
LEMMA OwnerStep ==
  ASSUME TypeOK, OneOwner, Control, [Step]_vars
  PROVE  OneOwner'
<1> USE Threads DEF Processor
<1>1. CASE UNCHANGED <<pools, held>>
  BY <1>1 DEF OneOwner, pools
<1>2. ASSUME Connect \/ ConnectFails \/ DispatchInput \/ DispatchOutput
             \/ StopBackend \/ DestroyThreadpool \/ Controller
             \/ Select \/ CloseSocket \/ Handle \/ Write
             \/ Wakeup("input_processor", input_queue)
             \/ Wakeup("output_processor", output_queue)
      PROVE  UNCHANGED <<pools, held>>
  BY <1>2 DEF Connect, ConnectFails, DispatchInput, DispatchOutput,
       StopBackend, DestroyThreadpool, Controller, ControllerSends,
       ControllerLeaves, Select, CloseSocket, Handle, Write, Wakeup, pools
<1>3. CASE ReaderTouch
  <2>1. held["backend_processor"] = NULL
    BY <1>3 DEF ReaderTouch, Control, Holding
  <2> QED BY <1>1, <1>3, <2>1, TouchOwner DEF ReaderTouch, Pool!TouchNothing, pools
<1>4. CASE ReadMessage
  <2>1. held["backend_processor"] # NULL
    BY <1>4 DEF ReadMessage, Reads, Control, Holding
  <2> QED BY <1>4, <2>1, PutOwner DEF ReadMessage
<1>5. CASE ReadEnd \/ ReadError
  BY <1>5, ForgetOwner DEF ReadEnd, ReadError, pools
<1>6. ASSUME NEW t \in {"input_processor", "output_processor"}, GiveBack(t)
      PROVE  OneOwner'
  <2>1. held[t] # NULL
    BY <1>6 DEF GiveBack, Control, Holding
  <2> QED BY <1>6, <2>1, ReturnOwner DEF GiveBack
<1>7. CASE InputRemove
  <2>1. held["input_processor"] = NULL
    BY <1>7 DEF InputRemove, Control, Holding
  <2> QED BY <1>7, <2>1, TakeOwner DEF InputRemove
<1>8. CASE OutputRemove
  <2>1. held["output_processor"] = NULL
    BY <1>8 DEF OutputRemove, Control, Holding
  <2> QED BY <1>8, <2>1, TakeOwner DEF OutputRemove
<1>9. ASSUME NEW w \in Worker, CreateDigest(w)
      PROVE  OneOwner'
  <2>1. held[w] = NULL
    BY <1>9 DEF CreateDigest, Control, Holding
  <2> QED BY <1>1, <1>9, <2>1, TouchOwner DEF CreateDigest, Pool!TouchNothing, pools
<1>10. ASSUME NEW w \in Worker, FillDigest(w)
       PROVE  OneOwner'
  BY <1>1, <1>10 DEF FillDigest
<1>11. ASSUME NEW w \in Worker, SendDigest(w)
       PROVE  OneOwner'
  <2>1. held[w] # NULL
    BY <1>11 DEF SendDigest, Complete, Control, Holding
  <2> QED BY <1>11, <2>1, PutOwner DEF SendDigest
<1>12. CASE UNCHANGED vars
  BY <1>1, <1>12 DEF vars
<1> QED
  BY <1>1, <1>2, <1>3, <1>4, <1>5, <1>6, <1>7, <1>8, <1>9, <1>10, <1>11, <1>12
  DEF Step, LaunchStep, Reader, Input, Output, Sending

\* A thread has a cell exactly where its code has one.
LEMMA ControlStep ==
  ASSUME TypeOK, Control, [Step]_vars
  PROVE  Control'
<1> USE Threads, BackendAssumption DEF Processor, Control, Holding
<1>0. /\ pc \in [Thread -> Location] /\ held \in [Thread -> Cell \cup {NULL}]
      /\ created \in [Worker -> 0..MaxDigests]
  BY DEF TypeOK
<1>1. CASE LaunchStep \/ StopBackend \/ DestroyThreadpool
  BY <1>0, <1>1 DEF LaunchStep, Connect, ConnectFails, DispatchInput,
       DispatchOutput, StopBackend, DestroyThreadpool, logs
<1>2. CASE Controller
  BY <1>2 DEF Controller, ControllerSends, ControllerLeaves, logs
<1>3. CASE Select \/ CloseSocket
  BY <1>0, <1>3 DEF Select, CloseSocket, logs
<1>4. CASE ReaderTouch
  BY <1>0, <1>4 DEF ReaderTouch, Pool!Touch, TypeOK, logs
<1>5. CASE ReadMessage
  BY <1>0, <1>5 DEF ReadMessage, Reads, logs
<1>6. CASE ReadEnd \/ ReadError
  BY <1>0, <1>6 DEF ReadEnd, ReadError, Reads, logs
<1>7. ASSUME NEW t \in {"input_processor", "output_processor"}, GiveBack(t)
      PROVE  Control'
  BY <1>0, <1>7 DEF GiveBack, Return, Resume, logs
<1>8. ASSUME NEW t \in {"input_processor", "output_processor"}, NEW q, Wakeup(t, q)
      PROVE  Control'
  BY <1>0, <1>8 DEF Wakeup, logs
<1>9. CASE InputRemove
  <2>1. Head(input_queue) \in Cell
    BY <1>9, HeadTailProperties DEF InputRemove, InQ!Take, TypeOK
  <2> QED BY <1>0, <1>9, <2>1 DEF InputRemove, AfterRemoval, logs
<1>10. CASE OutputRemove
  <2>1. Head(output_queue) \in Cell
    BY <1>10, HeadTailProperties DEF OutputRemove, OutQ!Take, TypeOK
  <2> QED BY <1>0, <1>10, <2>1 DEF OutputRemove, AfterRemoval, logs
<1>11. CASE Handle \/ Write
  BY <1>0, <1>11 DEF Handle, Write
<1>12. ASSUME NEW w \in Worker, CreateDigest(w)
       PROVE  Control'
  <2>1. UNCHANGED main BY <1>12 DEF CreateDigest
  <2>2. CASE UNCHANGED <<held, pc, created>>
    BY <2>1, <2>2
  <2>3. ASSUME NEW c \in unused, Hold(w, c), Goto(w, "fill"),
               created' = [created EXCEPT ![w] = @ + 1]
        PROVE  Control'
    <3>1. c \in Cell /\ c # NULL BY DEF TypeOK
    <3>2. created'[w] # 0 /\ \A v \in Worker \ {w} : created'[v] = created[v]
      BY <1>0, <2>3
    <3> QED BY <1>0, <2>1, <2>3, <3>1, <3>2
  <2> QED BY <1>12, <2>2, <2>3 DEF CreateDigest
<1>13. ASSUME NEW w \in Worker, FillDigest(w) \/ SendDigest(w)
       PROVE  Control'
  BY <1>0, <1>13 DEF FillDigest, SendDigest, Complete, logs
<1>14. CASE UNCHANGED vars
  BY <1>14 DEF vars, logs
<1> QED
  BY <1>1, <1>2, <1>3, <1>4, <1>5, <1>6, <1>7, <1>8, <1>9, <1>10, <1>11, <1>12,
     <1>13, <1>14
  DEF Step, Reader, Input, Output, Sending

\* What is in the cells on their way to the callback is not overwritten.
LEMMA ReadStep ==
  ASSUME IInv, [Step]_vars
  PROVE  ReadCells'
<1> USE Threads, BackendAssumption DEF Processor, IInv
<1>0. /\ pc \in [Thread -> Location] /\ held \in [Thread -> Cell \cup {NULL}]
      /\ content \in [Cell -> Content] /\ taken \in Nat /\ input_queue \in Seq(Cell)
  BY DEF TypeOK
<1>1. ASSUME UNCHANGED <<input_queue, content>>, taken' \in {taken, taken + 1},
             pc'["input_processor"] # "handle"
             \/ UNCHANGED <<pc["input_processor"], held["input_processor"]>>
      PROVE  ReadCells'
  <2>1. Read \subseteq Read'
    BY <1>0, <1>1 DEF Read, Message
  <2> QED BY <1>1, <2>1 DEF ReadCells
<1>2. ASSUME NEW c \in Cell, NEW m, content' = [content EXCEPT ![c] = m],
             c \notin Elements(input_queue), c # held["input_processor"],
             UNCHANGED <<pc["input_processor"], held["input_processor"]>>
      PROVE  /\ \A d \in Elements(input_queue) : content'[d] = content[d]
             /\ pc["input_processor"] = "handle" =>
                  content'[held'["input_processor"]] = content[held["input_processor"]]
  <2>1. Elements(input_queue) \subseteq Cell
    BY <1>0, ElementsIn
  <2>2. pc["input_processor"] = "handle" => held["input_processor"] \in Cell
    BY <1>0 DEF Control, Holding
  <2> QED BY <1>0, <1>2, <2>1, <2>2
<1>3. CASE LaunchStep \/ StopBackend \/ DestroyThreadpool \/ Controller
  BY <1>0, <1>1, <1>3 DEF LaunchStep, Connect, ConnectFails, DispatchInput,
       DispatchOutput, StopBackend, DestroyThreadpool, Controller,
       ControllerSends, ControllerLeaves, pools, conn
<1>4. CASE Select \/ CloseSocket \/ ReaderTouch \/ ReadEnd \/ ReadError
  BY <1>0, <1>1, <1>4 DEF Select, CloseSocket, ReaderTouch, ReadEnd, ReadError,
       Reads, pools, conn
<1>5. CASE ReadMessage
  <2> DEFINE c == held["backend_processor"]
  <2>1. /\ taken' = taken + 1
        /\ content' = [content EXCEPT ![c] = Message(taken + 1)]
        /\ input_queue' \in {input_queue, Append(input_queue, c)}
        /\ UNCHANGED <<pc["input_processor"], held["input_processor"]>>
    BY <1>0, <1>5 DEF ReadMessage, Reads, InQ!Put
  <2>2. /\ c \in Cell /\ c \notin Elements(input_queue)
        /\ c # held["input_processor"]
    BY <1>0, <1>5 DEF ReadMessage, Reads, Control, Holding, OneOwner
  <2>3. Read \subseteq Read' /\ Message(taken + 1) \in Read'
    BY <1>0, <2>1 DEF Read, Message
  <2>4. content'[c] \in Read'
    BY <1>0, <2>1, <2>2, <2>3
  <2>5. Elements(input_queue') \subseteq Elements(input_queue) \cup {c}
    <3>1. input_queue' = Append(input_queue, c) =>
            Elements(input_queue') = Elements(input_queue) \cup {c}
      BY <1>0, <2>2, AppendElements
    <3> QED BY <2>1, <3>1
  <2>6. \A d \in Elements(input_queue) : content'[d] = content[d]
    BY <1>2, <2>1, <2>2
  <2>7. pc["input_processor"] = "handle" =>
          content'[held'["input_processor"]] = content[held["input_processor"]]
    BY <1>2, <2>1, <2>2
  <2> HIDE DEF c
  <2> QED BY <2>1, <2>3, <2>4, <2>5, <2>6, <2>7 DEF ReadCells
<1>6. CASE InputRemove
  <2>1. input_queue # <<>> /\ input_queue' = Tail(input_queue)
    BY <1>6 DEF InputRemove, InQ!Take
  <2>2. /\ Head(input_queue) \in Elements(input_queue)
        /\ Elements(input_queue') \subseteq Elements(input_queue)
    BY <1>0, <2>1, TakeElements DEF OneOwner
  <2>3. UNCHANGED content /\ Read' = Read
    BY <1>6 DEF InputRemove, conn, Read
  <2>4. pc'["input_processor"] = "handle" =>
          held'["input_processor"] = Head(input_queue)
    BY <1>0, <1>6 DEF InputRemove, AfterRemoval
  <2> QED BY <2>2, <2>3, <2>4 DEF ReadCells
<1>7. CASE Handle \/ OutputRemove \/ Write
  BY <1>0, <1>1, <1>7 DEF Handle, OutputRemove, AfterRemoval, Write, pools, conn
<1>8. ASSUME NEW t \in {"input_processor", "output_processor"}, NEW q,
             GiveBack(t) \/ Wakeup(t, q)
      PROVE  ReadCells'
  BY <1>0, <1>1, <1>8 DEF GiveBack, Return, Resume, Wakeup, pools, conn
<1>9. ASSUME NEW w \in Worker, CreateDigest(w) \/ SendDigest(w)
      PROVE  ReadCells'
  BY <1>0, <1>1, <1>9 DEF CreateDigest, SendDigest, pools, conn
<1>10. ASSUME NEW w \in Worker, FillDigest(w)
       PROVE  ReadCells'
  <2>1. /\ content' = [content EXCEPT ![held[w]] = Digest(w, DigestNumber(w))]
        /\ UNCHANGED <<input_queue, held, pc["input_processor"]>> /\ Read' = Read
    BY <1>0, <1>10 DEF FillDigest, pools, conn, Read
  <2>2. /\ held[w] \in Cell /\ held[w] \notin Elements(input_queue)
        /\ held[w] # held["input_processor"]
    BY <1>0, <1>10 DEF FillDigest, Control, Holding, OneOwner
  <2>3. \A d \in Elements(input_queue) : content'[d] = content[d]
    BY <1>2, <2>1, <2>2
  <2>4. pc["input_processor"] = "handle" =>
          content'[held'["input_processor"]] = content[held["input_processor"]]
    BY <1>2, <2>1, <2>2
  <2> QED BY <2>1, <2>3, <2>4 DEF ReadCells
<1>11. CASE UNCHANGED vars
  BY <1>1, <1>11 DEF vars, pools, conn
<1> QED
  BY <1>3, <1>4, <1>5, <1>6, <1>7, <1>8, <1>9, <1>10, <1>11
  DEF Step, Reader, Input, Output, Sending

\* Every variable keeps to its type.
LEMMA TypeStep ==
  ASSUME IInv, [Step]_vars
  PROVE  TypeOK'
<1> USE Threads, BackendAssumption DEF Processor, IInv, TypeOK
<1>1. CASE LaunchStep \/ StopBackend \/ DestroyThreadpool
  BY <1>1 DEF LaunchStep, Connect, ConnectFails, DispatchInput, DispatchOutput,
       StopBackend, DestroyThreadpool, pools, conn, logs, Location
<1>2. ASSUME NEW kind \in Kinds, ControllerSends(kind)
      PROVE  TypeOK'
  <2>1. /\ sent' \in Seq(Kinds) /\ Len(sent') = Len(sent) + 1
        /\ Len(sent) < MaxMsgs /\ Len(sent) \in Nat
    BY <1>2 DEF ControllerSends
  <2> QED BY <1>2, <2>1 DEF ControllerSends, pools, logs
<1>3. ASSUME NEW how \in {"closed", "reset"}, ControllerLeaves(how)
      PROVE  TypeOK'
  BY <1>3 DEF ControllerLeaves, pools, logs
<1>4. CASE Select \/ CloseSocket
  BY <1>4, ZenonT(60) DEF Select, CloseSocket, pools, conn, logs, Location
<1>5. CASE ReaderTouch
  BY <1>5 DEF ReaderTouch, Pool!Touch, Pool!TouchNothing, conn, logs, Location
<1>6. CASE ReadMessage
  <2>1. held["backend_processor"] \in Cell
    BY <1>6 DEF ReadMessage, Reads, Control, Holding
  <2>2. taken + 1 \in 0..Len(sent) /\ taken + 1 \in 1..MaxMsgs /\ taken' = taken + 1
    BY <1>6 DEF ReadMessage, Reads
  <2>3. Message(taken + 1) \in Content
    BY <2>2 DEF Content
  <2>4. content' \in [Cell -> Content]
    BY <1>6, <2>1, <2>3 DEF ReadMessage
  <2>5. input_queue' \in Seq(Cell)
    BY <1>6, <2>1 DEF ReadMessage, InQ!Put
  <2> QED BY <1>6, <2>2, <2>4, <2>5 DEF ReadMessage, logs, Location
<1>7. CASE ReadEnd \/ ReadError
  <2>1. taken' \in 0..Len(sent)
    BY <1>7 DEF ReadEnd, ReadError, Reads
  <2> QED BY <1>7, <2>1, ZenonT(60) DEF ReadEnd, ReadError, Reads, pools, logs, Location
<1>8. CASE InputRemove
  <2>1. input_queue' \in Seq(Cell) /\ Head(input_queue) \in Cell
    BY <1>8, TakeElements DEF InputRemove, InQ!Take, OneOwner
  <2> QED BY <1>8, <2>1, ZenonT(60) DEF InputRemove, AfterRemoval, conn, logs, Location
<1>9. CASE OutputRemove
  <2>1. output_queue' \in Seq(Cell) /\ Head(output_queue) \in Cell
    BY <1>9, TakeElements DEF OutputRemove, OutQ!Take, OneOwner
  <2> QED BY <1>9, <2>1 DEF OutputRemove, AfterRemoval, conn, logs, Location
<1>10. CASE Handle
  <2> DEFINE n == content[held["input_processor"]].number
  <2>1. PICK k \in 1..taken : content[held["input_processor"]] = Message(k)
    BY <1>10 DEF Handle, ReadCells, Read
  <2>2. n \in 1..MaxMsgs
    BY <2>1 DEF Message
  <2>3. Callback(n)
    BY <1>10 DEF Handle
  <2> HIDE DEF n
  <2>4. Append(applied, n) \in Seq(1..MaxMsgs)
    BY <2>2
  <2>5. applied # <<>> => applied[Len(applied)] \in 1..MaxMsgs
    BY EmptySeq
  <2>6. applied # <<>> => Append(applied, applied[Len(applied)]) \in Seq(1..MaxMsgs)
    BY <2>5
  <2>7. applied' \in Seq(1..MaxMsgs) /\ process' \in {"running", "crashed", "killed"}
    BY <2>3, <2>4, <2>6 DEF Callback
  <2> QED BY <1>10, <2>7 DEF Handle, pools, conn, Location
<1>11. CASE Write
  <2>1. content[held["output_processor"]] \in Content
    BY <1>11 DEF Write, Control, Holding
  <2>2. written' \in Seq(Content)
    <3>1. Append(written, content[held["output_processor"]]) \in Seq(Content)
      BY <2>1
    <3> QED BY <1>11, <3>1 DEF Write
  <2>3. process' \in {"running", "crashed", "killed"}
    BY <1>11 DEF Write
  <2> QED BY <1>11, <2>2, <2>3 DEF Write, pools, conn, Location
<1>12. ASSUME NEW t \in {"input_processor", "output_processor"}, GiveBack(t)
       PROVE  TypeOK'
  <2>1. unused' \subseteq Cell /\ held' \in [Thread -> Cell \cup {NULL}]
    BY <1>12 DEF GiveBack, Return, Pool!Detouch
  <2>2. pc' \in [Thread -> Location]
    BY <1>12 DEF GiveBack, Resume, Location
  <2> QED BY <1>12, <2>1, <2>2 DEF GiveBack, conn, logs
<1>17. ASSUME NEW t \in {"input_processor", "output_processor"}, NEW q, Wakeup(t, q)
       PROVE  TypeOK'
  <2>1. pc' \in [Thread -> Location]
    BY <1>17 DEF Wakeup, Location
  <2>2. UNCHANGED <<pools, held, content, main, shutdown, conn, logs, process>>
    BY <1>17 DEF Wakeup
  <2> QED BY <2>1, <2>2 DEF pools, conn, logs
<1>13. ASSUME NEW w \in Worker, CreateDigest(w)
       PROVE  TypeOK'
  <2>1. created' \in [Worker -> 0..MaxDigests]
    <3>1. \/ UNCHANGED created
          \/ created' = [created EXCEPT ![w] = created[w] + 1]
      BY <1>13 DEF CreateDigest
    <3>2. created[w] + 1 \in 0..MaxDigests
      BY <1>13 DEF CreateDigest
    <3> QED BY <3>1, <3>2
  <2>2. pc' \in [Thread -> Location]
    BY <1>13 DEF CreateDigest, Location
  <2>3. unused' \subseteq Cell /\ held' \in [Thread -> Cell \cup {NULL}]
    BY <1>13 DEF CreateDigest, Pool!Touch, Pool!TouchNothing
  <2>4. process' \in {"running", "crashed", "killed"}
    BY <1>13 DEF CreateDigest
  <2> QED BY <1>13, <2>1, <2>2, <2>3, <2>4 DEF CreateDigest, conn
<1>14. ASSUME NEW w \in Worker, FillDigest(w)
       PROVE  TypeOK'
  <2>1. created[w] \in 1..MaxDigests /\ held[w] \in Cell
    BY <1>14 DEF FillDigest, Control, Holding
  <2>2. Digest(w, DigestNumber(w)) \in Content
    BY <2>1 DEF DigestNumber, Content
  <2> QED BY <1>14, <2>1, <2>2 DEF FillDigest, pools, conn, logs, Location
<1>15. ASSUME NEW w \in Worker, SendDigest(w)
       PROVE  TypeOK'
  <2>1. held[w] \in Cell
    BY <1>15 DEF SendDigest, Complete, Control, Holding
  <2> QED BY <1>15, <2>1 DEF SendDigest, OutQ!Put, conn, logs, Location
<1>16. CASE UNCHANGED vars
  BY <1>16 DEF vars, pools, conn, logs
<1> QED
  BY <1>1, <1>2, <1>3, <1>4, <1>5, <1>6, <1>7, <1>8, <1>9, <1>10, <1>11, <1>12,
     <1>13, <1>14, <1>15, <1>16, <1>17
  DEF Step, Controller, Reader, Input, Output, Sending

\* A thread that has a cell finds room in the queues: they lack that cell.
LEMMA Room == IInv => QueuesHaveRoom
<1> SUFFICES ASSUME IInv PROVE QueuesHaveRoom
  OBVIOUS
<1> SUFFICES ASSUME NEW t \in Thread, held[t] # NULL
             PROVE  /\ Len(input_queue) < P4_BG_QUEUE_SIZE
                    /\ Len(output_queue) < P4_BG_QUEUE_SIZE
  BY DEF QueuesHaveRoom
<1>1. /\ held[t] \in Cell
      /\ input_queue \in Seq(Cell) /\ output_queue \in Seq(Cell)
  BY DEF IInv, TypeOK
<1>2. /\ held[t] \notin Elements(input_queue) /\ Injective(input_queue)
      /\ held[t] \notin Elements(output_queue) /\ Injective(output_queue)
  BY DEF IInv, OneOwner
<1>3. /\ Len(input_queue) < Cardinality(Cell)
      /\ Len(output_queue) < Cardinality(Cell)
  BY <1>1, <1>2, ShorterThanPool, BackendAssumption
<1>4. Cardinality(Cell) \in Nat /\ Len(input_queue) \in Nat /\ Len(output_queue) \in Nat
  BY <1>1, FS_CardinalityType, BackendAssumption
<1> QED BY <1>3, <1>4, BackendAssumption

-----------------------------------------------------------------------------
\* The invariant holds at the start.
LEMMA InitInv == Init => IInv
<1> SUFFICES ASSUME Init PROVE IInv
  OBVIOUS
<1> USE Threads, BackendAssumption DEF Init, Processor
<1>1. TypeOK
  <2>1. pc \in [Thread -> Location]
    BY DEF Location
  <2>2. content \in [Cell -> Content]
    BY DEF Content
  <2>3. held \in [Thread -> Cell \cup {NULL}] /\ created \in [Worker -> 0..MaxDigests]
    OBVIOUS
  <2>4. /\ input_queue \in Seq(Cell) /\ output_queue \in Seq(Cell)
        /\ sent \in Seq(Kinds) /\ Len(sent) = 0
        /\ applied \in Seq(1..MaxMsgs) /\ written \in Seq(Content)
    BY EmptySeq
  <2>5. taken \in 0..Len(sent) /\ Len(sent) <= MaxMsgs
    BY <2>4
  <2> QED BY <2>1, <2>2, <2>3, <2>4, <2>5 DEF TypeOK
<1>2. OneOwner
  BY DEF OneOwner, Elements, Injective
<1>3. Control
  BY DEF Control, Holding
<1>4. ReadCells
  BY DEF ReadCells, Elements
<1> QED BY <1>1, <1>2, <1>3, <1>4 DEF IInv

\* Every step preserves the invariant, whatever the value of process.
LEMMA InvStep == IInv /\ [Step]_vars => IInv'
BY TypeStep, OwnerStep, ControlStep, ReadStep DEF IInv

\* What the switch's processes and their environment do is a Step, whenever they run.
LEMMA NextIsStep == [Next]_vars => [Step]_vars
BY DEF Next

\* The invariant holds always.
THEOREM Invariance == Spec => []IInv
BY InitInv, InvStep, NextIsStep, PTL DEF Spec

\* Every variable keeps to its type; in particular a message is only looked for
\* where there is one, and a digest only sent after it was created.
THEOREM TypeCorrect == Spec => []TypeOK
<1>1. IInv => TypeOK
  BY DEF IInv
<1> QED BY <1>1, Invariance, PTL

\* No cell is ever in two places, for any number of cells, workers, messages
\* and digests, and whatever way the connection ends.
THEOREM CellsHaveOneOwner == Spec => []OneOwner
<1>1. IInv => OneOwner
  BY DEF IInv
<1> QED BY <1>1, Invariance, PTL

\* A queue as long as the pool is large never drops a message: create_backend's
\* 1000 cells against the queues' 1024 slots (controlplane.c.py:158, fifo.h:20)
\* are an instance.
THEOREM NeverFull == Spec => []QueuesHaveRoom
  BY Room, Invariance, PTL
-----------------------------------------------------------------------------
(* The cells that are lost.  Reach is where a cell can still be got at; what a *)
(* step takes out of it is at most one cell, and it leaves a trace.            *)

Reach == unused \cup Elements(input_queue) \cup Elements(output_queue)
           \cup {held[t] : t \in Thread}
TooLong == {n \in 1..taken : sent[n] = "too_long"}
Gone == IF peer = "gone" THEN 1 ELSE 0
Left == {t \in Processor : pc[t] \in {"close", "done"}}

\* A thread that takes a cell from the pool, or gives one back, loses none.
LEMMA TouchReach ==
  ASSUME TypeOK, NEW t \in Thread, held[t] = NULL, NEW c \in unused, Pool!Touch(c),
         Hold(t, c), UNCHANGED <<input_queue, output_queue>>
  PROVE  Reach \ {NULL} \subseteq Reach'
<1>1. held'[t] = c /\ \A u \in Thread \ {t} : held'[u] = held[u]
  BY DEF TypeOK
<1>2. unused' = unused \ {c}
  BY DEF Pool!Touch
<1> QED BY <1>1, <1>2 DEF Reach

\* A thread that gives its cell back loses no cell.
LEMMA ReturnReach ==
  ASSUME TypeOK, NEW t \in Thread, Return(t), UNCHANGED <<input_queue, output_queue>>
  PROVE  Reach \subseteq Reach'
<1>1. held'[t] = NULL /\ \A u \in Thread \ {t} : held'[u] = held[u]
  BY DEF TypeOK, Return
<1>2. unused' = unused \cup {held[t]}
  BY DEF Return, Pool!Detouch
<1> QED BY <1>1, <1>2 DEF Reach

\* One that forgets its cell loses no other.
LEMMA ForgetReach ==
  ASSUME TypeOK, NEW t \in Thread, Hold(t, NULL),
         UNCHANGED <<unused, input_queue, output_queue>>
  PROVE  Reach \ {held[t]} \subseteq Reach'
<1>1. held'[t] = NULL /\ \A u \in Thread \ {t} : held'[u] = held[u]
  BY DEF TypeOK
<1> QED BY <1>1 DEF Reach

\* One that puts its cell into a queue finds room there, and so loses none.
LEMMA PutReach ==
  ASSUME IInv, NEW t \in Thread, held[t] # NULL, Hold(t, NULL), UNCHANGED unused,
         \/ InQ!Put(held[t]) /\ UNCHANGED output_queue
         \/ OutQ!Put(held[t]) /\ UNCHANGED input_queue
  PROVE  Reach \subseteq Reach'
<1>1. held[t] \in Cell /\ input_queue \in Seq(Cell) /\ output_queue \in Seq(Cell)
  BY DEF IInv, TypeOK
<1>2. held'[t] = NULL /\ \A u \in Thread \ {t} : held'[u] = held[u]
  BY DEF IInv, TypeOK
<1>3. Len(input_queue) < P4_BG_QUEUE_SIZE /\ Len(output_queue) < P4_BG_QUEUE_SIZE
  BY Room DEF QueuesHaveRoom
<1>4. CASE InQ!Put(held[t]) /\ UNCHANGED output_queue
  <2>1. Elements(input_queue') = Elements(input_queue) \cup {held[t]}
    BY <1>1, <1>3, <1>4, AppendElements DEF InQ!Put
  <2> QED BY <1>2, <1>4, <2>1 DEF Reach
<1>5. CASE OutQ!Put(held[t]) /\ UNCHANGED input_queue
  <2>1. Elements(output_queue') = Elements(output_queue) \cup {held[t]}
    BY <1>1, <1>3, <1>5, AppendElements DEF OutQ!Put
  <2> QED BY <1>2, <1>5, <2>1 DEF Reach
<1> QED BY <1>4, <1>5

\* One that removes a cell from a queue has it afterwards, or leaves its loop.
LEMMA TakeReach ==
  ASSUME IInv, NEW t \in Thread, held[t] = NULL, NEW c, NEW l,
         AfterRemoval(t, c, l), UNCHANGED unused,
         \/ InQ!Take /\ c = Head(input_queue) /\ UNCHANGED output_queue
         \/ OutQ!Take /\ c = Head(output_queue) /\ UNCHANGED input_queue
  PROVE  /\ Reach \ {c, NULL} \subseteq Reach'
         /\ ~shutdown => Reach \ {NULL} \subseteq Reach'
<1>1. /\ held \in [Thread -> Cell \cup {NULL}]
      /\ input_queue \in Seq(Cell) /\ output_queue \in Seq(Cell)
      /\ Injective(input_queue) /\ Injective(output_queue)
  BY DEF IInv, TypeOK, OneOwner
<1>2. /\ \A u \in Thread \ {t} : held'[u] = held[u]
      /\ ~shutdown => held'[t] = c
  BY <1>1 DEF AfterRemoval
<1>3. /\ Elements(input_queue) \ {c} \subseteq Elements(input_queue')
      /\ Elements(output_queue) \ {c} \subseteq Elements(output_queue')
  BY <1>1, TakeElements DEF InQ!Take, OutQ!Take
<1> QED BY <1>2, <1>3 DEF Reach

\* What a step may do: lose nothing, or one cell, and then there is one more
\* message announced as too long, one more reset or one more processor gone.
NothingLost == Reach \ {NULL} \subseteq Reach'
OneLost(c) ==
  /\ Reach \ {c, NULL} \subseteq Reach'
  /\ \/ \E n \in TooLong' : n \notin TooLong
     \/ Gone' = 1 /\ Gone = 0
     \/ \E t \in Left' : t \notin Left
NoneForgiven == TooLong \subseteq TooLong' /\ Gone <= Gone' /\ Left \subseteq Left'

\* A set that gets no smaller, or larger by an element, and how many it has.
LEMMA Larger ==
  ASSUME NEW S, NEW T, IsFiniteSet(T), S \subseteq T
  PROVE  /\ Cardinality(S) \in Nat /\ Cardinality(T) \in Nat
         /\ Cardinality(S) <= Cardinality(T)
         /\ \A x \in T : x \notin S => Cardinality(S) < Cardinality(T)
<1>1. /\ IsFiniteSet(S) /\ Cardinality(S) <= Cardinality(T)
      /\ Cardinality(S) = Cardinality(T) => S = T
  BY FS_Subset
<1>2. Cardinality(S) \in Nat /\ Cardinality(T) \in Nat
  BY <1>1, FS_CardinalityType
<1> QED BY <1>1, <1>2

\* A step that loses no cell, or one for a reason it records, keeps LossesAccountedFor.
LEMMA LossStep ==
  ASSUME IInv, IInv', LossesAccountedFor, NoneForgiven,
         NothingLost \/ \E c : OneLost(c)
  PROVE  LossesAccountedFor'
<1>1. /\ Cell \ Reach = Lost /\ (Cell \ Reach)' = Lost'
      /\ NULL \notin Cell /\ IsFiniteSet(Cell) /\ Cell' = Cell
  BY BackendAssumption DEF Reach, Lost
<1>2. /\ IsFiniteSet(TooLong') /\ IsFiniteSet(Left') /\ IsFiniteSet(Lost) /\ IsFiniteSet(Lost')
  <2>1. IsFiniteSet(1..taken')
    <3>1. taken' \in Int
      BY DEF IInv, TypeOK
    <3> QED BY <3>1, FS_Interval
  <2>2. IsFiniteSet(TooLong')
    BY <2>1, FS_Subset DEF TooLong
  <2>3. IsFiniteSet(Processor)
    <3>1. /\ IsFiniteSet({"backend_processor"}) /\ IsFiniteSet({"input_processor"})
          /\ IsFiniteSet({"output_processor"})
      BY FS_Singleton
    <3>2. Processor = {"backend_processor"} \cup ({"input_processor"} \cup {"output_processor"})
      BY DEF Processor
    <3> QED BY <3>1, <3>2, FS_Union
  <2>4. IsFiniteSet(Left')
    BY <2>3, FS_Subset DEF Left
  <2> QED BY <1>1, <2>2, <2>4, FS_Subset
<1>3. /\ Cardinality(TooLong) \in Nat /\ Cardinality(TooLong') \in Nat
      /\ Cardinality(TooLong) <= Cardinality(TooLong')
      /\ \A x \in TooLong' : x \notin TooLong => Cardinality(TooLong) < Cardinality(TooLong')
  BY <1>2, Larger DEF NoneForgiven
<1>4. /\ Cardinality(Left) \in Nat /\ Cardinality(Left') \in Nat
      /\ Cardinality(Left) <= Cardinality(Left')
      /\ \A x \in Left' : x \notin Left => Cardinality(Left) < Cardinality(Left')
  BY <1>2, Larger DEF NoneForgiven
<1>5. Gone \in Nat /\ Gone' \in Nat /\ Gone <= Gone'
  BY DEF Gone, NoneForgiven
<1>6. Cardinality(Lost) <= Cardinality(TooLong) + Gone + Cardinality(Left)
  BY DEF LossesAccountedFor, TooLong, Gone, Left
<1>7. Cardinality(Lost) \in Nat /\ Cardinality(Lost') \in Nat
  BY <1>2, FS_CardinalityType
<1>8. Cardinality(Lost') <= Cardinality(TooLong') + Gone' + Cardinality(Left')
  <2>1. CASE NothingLost
    <3>1. Lost' \subseteq Lost
      BY <1>1, <2>1 DEF NothingLost
    <3>2. Cardinality(Lost') <= Cardinality(Lost)
      BY <1>2, <3>1, FS_Subset
    <3> QED BY <1>3, <1>4, <1>5, <1>6, <1>7, <3>2
  <2>2. ASSUME NEW c, OneLost(c)
        PROVE  Cardinality(Lost') <= Cardinality(TooLong') + Gone' + Cardinality(Left')
    <3>1. Lost' \subseteq Lost \cup {c}
      BY <1>1, <2>2 DEF OneLost
    <3>2. /\ IsFiniteSet(Lost \cup {c})
          /\ Cardinality(Lost \cup {c}) <= Cardinality(Lost) + 1
          /\ Cardinality(Lost \cup {c}) \in Nat
      <4>1. /\ IsFiniteSet(Lost \cup {c})
            /\ \/ Cardinality(Lost \cup {c}) = Cardinality(Lost)
               \/ Cardinality(Lost \cup {c}) = Cardinality(Lost) + 1
        BY <1>2, FS_AddElement
      <4> QED BY <1>7, <4>1
    <3>3. Cardinality(Lost') <= Cardinality(Lost \cup {c})
      BY <3>1, <3>2, FS_Subset
    <3>4. \/ Cardinality(TooLong) < Cardinality(TooLong')
          \/ Gone < Gone'
          \/ Cardinality(Left) < Cardinality(Left')
      BY <1>3, <1>4, <2>2 DEF OneLost
    <3> QED BY <1>3, <1>4, <1>5, <1>6, <1>7, <3>2, <3>3, <3>4
  <2> QED BY <2>1, <2>2
<1> QED BY <1>8 DEF LossesAccountedFor, TooLong, Gone, Left

\* Every step is one of these.
LEMMA LossesExcused ==
  ASSUME IInv, [Step]_vars
  PROVE  NoneForgiven /\ (NothingLost \/ \E c : OneLost(c))
<1> USE Threads DEF Processor
<1>0. /\ TypeOK /\ Control /\ pc \in [Thread -> Location]
      /\ taken \in 0..Len(sent) /\ sent \in Seq(Kinds)
  BY DEF IInv, TypeOK
<1>1. ASSUME UNCHANGED <<sent, taken, peer>>, Left \subseteq Left'
      PROVE  NoneForgiven
  BY <1>1 DEF NoneForgiven, TooLong, Gone
<1>2. ASSUME NEW t \in Thread, NEW l, Goto(t, l), pc[t] \notin {"close", "done"} \/ l = "done"
      PROVE  Left \subseteq Left'
  BY <1>0, <1>2 DEF Left
<1>3. ASSUME NEW t \in Processor, NEW l \in {"close", "done"}, Goto(t, l),
             pc[t] \notin {"close", "done"}
      PROVE  t \in Left' /\ t \notin Left
  BY <1>0, <1>3 DEF Left
<1>4. ASSUME UNCHANGED <<pools, held>>
      PROVE  NothingLost
  BY <1>4 DEF NothingLost, Reach, pools
<1>5. CASE LaunchStep \/ StopBackend \/ DestroyThreadpool
  BY <1>0, <1>1, <1>2, <1>4, <1>5
  DEF LaunchStep, Connect, ConnectFails, DispatchInput, DispatchOutput, StopBackend,
      DestroyThreadpool, Control, conn, Left
<1>6. ASSUME NEW kind \in Kinds, ControllerSends(kind)
      PROVE  NoneForgiven /\ NothingLost
  <2>1. sent' = Append(sent, kind) /\ UNCHANGED <<pools, held, pc, taken, peer>>
    BY <1>6 DEF ControllerSends
  <2>2. \A n \in 1..taken : sent'[n] = sent[n]
    BY <1>0, <2>1
  <2>3. TooLong' = TooLong
    BY <2>1, <2>2 DEF TooLong
  <2> QED BY <1>4, <2>1, <2>3 DEF NoneForgiven, Gone, Left
<1>7. ASSUME NEW how \in {"closed", "reset"}, ControllerLeaves(how)
      PROVE  NoneForgiven /\ NothingLost
  BY <1>4, <1>7 DEF ControllerLeaves, NoneForgiven, TooLong, Gone, Left
<1>8. CASE Select \/ CloseSocket \/ Handle \/ Write
  BY <1>0, <1>1, <1>2, <1>4, <1>8 DEF Select, CloseSocket, Handle, Write, conn
<1>9. CASE ReaderTouch
  <2>1. held["backend_processor"] = NULL
    BY <1>0, <1>9 DEF ReaderTouch, Control, Holding
  <2>2. NothingLost
    BY <1>0, <1>4, <1>9, <2>1, TouchReach DEF ReaderTouch, Pool!TouchNothing, NothingLost, pools
  <2> QED BY <1>0, <1>1, <1>2, <1>9, <2>2 DEF ReaderTouch, conn, Left
<1>10. ASSUME NEW kind, Reads(kind), UNCHANGED sent
       PROVE  /\ TooLong \subseteq TooLong'
              /\ kind = "too_long" => taken + 1 \in TooLong' /\ taken + 1 \notin TooLong
  <2>1. taken \in Nat /\ taken' = taken + 1 /\ sent[taken + 1] = kind /\ sent' = sent
    BY <1>0, <1>10 DEF Reads
  <2>2. TooLong \subseteq TooLong'
    BY <2>1 DEF TooLong
  <2> QED BY <2>1, <2>2 DEF TooLong
<1>11. CASE ReadMessage
  <2>1. held["backend_processor"] # NULL
    BY <1>0, <1>11 DEF ReadMessage, Reads, Control, Holding
  <2>2. NothingLost
    BY <1>11, <2>1, PutReach DEF ReadMessage, NothingLost
  <2>3. Left \subseteq Left'
    BY <1>2, <1>11 DEF ReadMessage, Reads
  <2> QED BY <1>10, <1>11, <2>2, <2>3 DEF ReadMessage, NoneForgiven, Gone
<1>12. CASE ReadEnd
  <2>1. /\ UNCHANGED <<pools, sent, peer>> /\ Hold("backend_processor", NULL)
        /\ pc["backend_processor"] = "read" /\ Goto("backend_processor", "close")
    BY <1>12 DEF ReadEnd, Reads
  <2>2. TooLong \subseteq TooLong'
    BY <1>10, <1>12 DEF ReadEnd, TooLong
  <2>3. OneLost(held["backend_processor"])
    BY <1>0, <1>3, <2>1, ForgetReach DEF OneLost, pools
  <2>4. Left \subseteq Left' /\ Gone' = Gone /\ Gone \in Nat
    BY <1>2, <2>1 DEF Gone
  <2> QED BY <2>2, <2>3, <2>4 DEF NoneForgiven
<1>13. CASE ReadError
  <2>1. /\ UNCHANGED <<pools, sent>> /\ Hold("backend_processor", NULL)
        /\ pc["backend_processor"] = "read" /\ Goto("backend_processor", "select")
    BY <1>13 DEF ReadError, Reads
  <2>2. Reach \ {held["backend_processor"]} \subseteq Reach'
    BY <1>0, <2>1, ForgetReach DEF pools
  <2>5. Left \subseteq Left' /\ Gone \in Nat
    BY <1>2, <2>1 DEF Gone
  <2>3. CASE Reads("too_long") /\ UNCHANGED peer
    <3>1. taken + 1 \in TooLong' /\ taken + 1 \notin TooLong /\ TooLong \subseteq TooLong'
      BY <1>10, <2>1, <2>3
    <3>2. OneLost(held["backend_processor"])
      BY <2>2, <3>1 DEF OneLost
    <3>3. Gone' = Gone
      BY <2>3 DEF Gone
    <3> QED BY <2>5, <3>1, <3>2, <3>3 DEF NoneForgiven
  <2>4. CASE peer = "reset" /\ peer' = "gone" /\ UNCHANGED taken
    <3>1. Gone' = 1 /\ Gone = 0 /\ TooLong' = TooLong
      BY <2>1, <2>4 DEF Gone, TooLong
    <3>2. OneLost(held["backend_processor"])
      BY <2>2, <3>1 DEF OneLost
    <3> QED BY <2>5, <3>1, <3>2 DEF NoneForgiven
  <2> QED BY <1>13, <2>3, <2>4 DEF ReadError
<1>14. CASE InputRemove
  <2> DEFINE c == Head(input_queue)
  <2>1. held["input_processor"] = NULL /\ UNCHANGED conn /\ pc["input_processor"] = "remove"
        /\ AfterRemoval("input_processor", c, "handle") /\ UNCHANGED unused
        /\ InQ!Take /\ UNCHANGED output_queue
    BY <1>0, <1>14 DEF InputRemove, Control, Holding
  <2>2. Reach \ {c, NULL} \subseteq Reach' /\ (~shutdown => NothingLost)
    BY <2>1, TakeReach DEF NothingLost
  <2> HIDE DEF c
  <2>3. shutdown => OneLost(c)
    BY <1>3, <2>1, <2>2 DEF OneLost, AfterRemoval
  <2>4. Left \subseteq Left'
    BY <1>2, <2>1 DEF AfterRemoval
  <2> QED BY <1>1, <2>1, <2>2, <2>3, <2>4 DEF conn
<1>15. CASE OutputRemove
  <2> DEFINE c == Head(output_queue)
  <2>1. held["output_processor"] = NULL /\ UNCHANGED conn /\ pc["output_processor"] = "remove"
        /\ AfterRemoval("output_processor", c, "write") /\ UNCHANGED unused
        /\ OutQ!Take /\ UNCHANGED input_queue
    BY <1>0, <1>15 DEF OutputRemove, Control, Holding
  <2>2. Reach \ {c, NULL} \subseteq Reach' /\ (~shutdown => NothingLost)
    BY <2>1, TakeReach DEF NothingLost
  <2> HIDE DEF c
  <2>3. shutdown => OneLost(c)
    BY <1>3, <2>1, <2>2 DEF OneLost, AfterRemoval
  <2>4. Left \subseteq Left'
    BY <1>2, <2>1 DEF AfterRemoval
  <2> QED BY <1>1, <2>1, <2>2, <2>3, <2>4 DEF conn
<1>16. ASSUME NEW t \in {"input_processor", "output_processor"}, GiveBack(t)
       PROVE  NoneForgiven /\ NothingLost
  <2>1. NothingLost
    BY <1>0, <1>16, ReturnReach DEF GiveBack, NothingLost
  <2> QED BY <1>1, <1>2, <1>16, <2>1 DEF GiveBack, conn
<1>17. ASSUME NEW t \in {"input_processor", "output_processor"}, NEW q, Wakeup(t, q)
       PROVE  NoneForgiven /\ NothingLost
  BY <1>1, <1>2, <1>4, <1>17 DEF Wakeup, conn
<1>18. ASSUME NEW w \in Worker, CreateDigest(w)
       PROVE  NoneForgiven /\ NothingLost
  <2>1. held[w] = NULL
    BY <1>0, <1>18 DEF CreateDigest, Control, Holding
  <2>2. NothingLost
    BY <1>0, <1>4, <1>18, <2>1, TouchReach DEF CreateDigest, Pool!TouchNothing, NothingLost, pools
  <2> QED BY <1>0, <1>1, <1>2, <1>18, <2>2 DEF CreateDigest, conn, Left
<1>19. ASSUME NEW w \in Worker, FillDigest(w) \/ SendDigest(w)
       PROVE  NoneForgiven /\ NothingLost
  <2>1. held[w] # NULL
    BY <1>0, <1>19 DEF FillDigest, SendDigest, Complete, Control, Holding
  <2>2. NothingLost
    BY <1>4, <1>19, <2>1, PutReach DEF FillDigest, SendDigest, NothingLost, pools
  <2> QED BY <1>1, <1>2, <1>19, <2>2 DEF FillDigest, SendDigest, Complete, conn
<1>20. CASE UNCHANGED vars
  BY <1>1, <1>4, <1>20 DEF vars, conn, Left
<1> QED
  BY <1>5, <1>6, <1>7, <1>8, <1>9, <1>11, <1>12, <1>13, <1>14, <1>15, <1>16, <1>17,
     <1>18, <1>19, <1>20
  DEF Step, Controller, Reader, Input, Output, Sending

\* The pool loses a cell in four ways only, whatever the number of cells, workers
\* and messages: one for each message announced with too great a length, one when
\* the connection is reset, and one for each processor that leaves its loop
\* (ctrl_plane_backend.c:95-105, 115-120, 134-138).
THEOREM LossesHaveCauses == Spec => []LossesAccountedFor
<1>1. Init => LossesAccountedFor
  <2> SUFFICES ASSUME Init PROVE LossesAccountedFor
    OBVIOUS
  <2>1. Lost = {}
    BY DEF Init, Lost
  <2>2. TooLong = {} /\ Left = {} /\ Gone = 0
    BY DEF Init, TooLong, Left, Gone, Thread
  <2>3. /\ Cardinality(Lost) = 0 /\ Cardinality(TooLong) = 0 /\ Cardinality(Left) = 0
    BY <2>1, <2>2, FS_EmptySet
  <2>4. Cardinality(Lost) <= Cardinality(TooLong) + Gone + Cardinality(Left)
    BY <2>2, <2>3
  <2> QED BY <2>4 DEF LossesAccountedFor, TooLong, Left, Gone
<1>2. IInv /\ IInv' /\ LossesAccountedFor /\ [Step]_vars => LossesAccountedFor'
  BY LossesExcused, LossStep
<1> QED BY <1>1, <1>2, Invariance, NextIsStep, PTL DEF Spec

-----------------------------------------------------------------------------
(* Two paths lead through the backend, each a record of what has reached its   *)
(* end followed by what is under way: a sequence done \o way.  A step leaves   *)
(* it alone, adds to its end, moves the first of way to the end of done, or    *)
(* loses it.  Sorted by a relation R: as messages are by their numbers.        *)

Sorted(s, R) == \A i, j \in DOMAIN s : i < j => <<s[i], s[j]>> \in R

\* One more at the end.
LEMMA PathAppend ==
  ASSUME NEW S, NEW R, NEW done \in Seq(S), NEW way \in Seq(S), NEW e \in S,
         Sorted(done \o way, R), \A x \in Elements(done \o way) : <<x, e>> \in R
  PROVE  /\ Elements(done \o Append(way, e)) = Elements(done \o way) \cup {e}
         /\ Sorted(done \o Append(way, e), R)
<1>1. done \o Append(way, e) = Append(done \o way, e) /\ done \o way \in Seq(S)
  OBVIOUS
<1> DEFINE s == done \o way
<1>2. s \in Seq(S)
  BY <1>1
<1> HIDE DEF s
<1>3. /\ Append(s, e) \in Seq(S) /\ Elements(Append(s, e)) = Elements(s) \cup {e}
  BY <1>2, AppendElements
<1>4. ASSUME Sorted(s, R), \A x \in Elements(s) : <<x, e>> \in R
      PROVE  Sorted(Append(s, e), R)
  BY <1>2, <1>4 DEF Sorted, Elements
<1> QED BY <1>1, <1>3, <1>4 DEF s

\* The first on the way is the next to be done.
LEMMA PathMove ==
  ASSUME NEW S, NEW done \in Seq(S), NEW way \in Seq(S), way # <<>>
  PROVE  Append(done, Head(way)) \o Tail(way) = done \o way
<1>1. /\ Head(way) \in S /\ Tail(way) \in Seq(S) /\ Len(Tail(way)) = Len(way) - 1
      /\ \A i \in 1 .. Len(Tail(way)) : Tail(way)[i] = way[i + 1]
      /\ Head(way) = way[1] /\ Len(way) \in Nat \ {0}
  BY HeadTailProperties, EmptySeq
<1>2. /\ Append(done, Head(way)) \in Seq(S) /\ Len(Append(done, Head(way))) = Len(done) + 1
      /\ \A i \in 1 .. Len(done) + 1 :
           Append(done, Head(way))[i] = IF i <= Len(done) THEN done[i] ELSE Head(way)
  BY <1>1
<1> QED BY <1>1, <1>2

\* The first on the way is lost.
LEMMA PathDrop ==
  ASSUME NEW S, NEW R, NEW done \in Seq(S), NEW way \in Seq(S), way # <<>>
  PROVE  /\ done \o Tail(way) \in Seq(S)
         /\ Elements(done \o Tail(way)) \subseteq Elements(done \o way)
         /\ Elements(done \o way) \subseteq Elements(done \o Tail(way)) \cup {Head(way)}
         /\ Sorted(done \o way, R) => Sorted(done \o Tail(way), R)
<1> DEFINE u == done \o way
           v == done \o Tail(way)
           k == Len(done) + 1
<1>1. /\ Head(way) \in S /\ Tail(way) \in Seq(S) /\ Len(Tail(way)) = Len(way) - 1
      /\ \A i \in 1 .. Len(Tail(way)) : Tail(way)[i] = way[i + 1]
      /\ Head(way) = way[1] /\ Len(way) \in Nat \ {0} /\ k \in Nat \ {0}
  BY HeadTailProperties, EmptySeq
<1>2. /\ u \in Seq(S) /\ Len(u) = Len(done) + Len(way) /\ u[k] = Head(way) /\ k \in 1 .. Len(u)
      /\ v \in Seq(S) /\ Len(v) = Len(u) - 1 /\ DOMAIN v = 1 .. Len(u) - 1
      /\ DOMAIN u = 1 .. Len(u)
  BY <1>1
<1>3. \A i \in 1 .. Len(u) - 1 : v[i] = IF i < k THEN u[i] ELSE u[i + 1]
  BY <1>1
<1>4. /\ \A i \in DOMAIN v : i < k => i \in DOMAIN u /\ v[i] = u[i]
      /\ \A i \in DOMAIN v : i >= k => i + 1 \in DOMAIN u /\ v[i] = u[i + 1]
  <2>1. \A i \in DOMAIN v : i \in 1 .. Len(u) - 1 /\ i \in DOMAIN u /\ i + 1 \in DOMAIN u
    BY <1>1, <1>2
  <2>2. \A i \in DOMAIN v : i >= k <=> ~(i < k)
    BY <1>1, <1>2
  <2> HIDE DEF u, v, k
  <2>3. \A i \in DOMAIN v : i < k => v[i] = u[i]
    BY <1>3, <2>1
  <2>4. \A i \in DOMAIN v : i >= k => v[i] = u[i + 1]
    BY <1>3, <2>1, <2>2
  <2> QED BY <2>1, <2>3, <2>4
<1>5. /\ \A i \in DOMAIN u : i < k => i \in DOMAIN v /\ v[i] = u[i]
      /\ \A i \in DOMAIN u : i > k => i - 1 \in DOMAIN v /\ v[i - 1] = u[i]
  <2>1. \A i \in DOMAIN u : i < k => i \in 1 .. Len(u) - 1 /\ i \in DOMAIN v
    BY <1>1, <1>2
  <2>2. \A i \in DOMAIN u : i > k => i - 1 \in 1 .. Len(u) - 1 /\ i - 1 \in DOMAIN v
                                   /\ ~(i - 1 < k) /\ (i - 1) + 1 = i
    BY <1>1, <1>2
  <2> HIDE DEF u, v, k
  <2>3. \A i \in DOMAIN u : i < k => v[i] = u[i]
    BY <1>3, <2>1
  <2>4. \A i \in DOMAIN u : i > k => v[i - 1] = u[i]
    BY <1>3, <2>2
  <2> QED BY <2>1, <2>2, <2>3, <2>4
<1>6. k \in Nat /\ DOMAIN u \subseteq Nat /\ DOMAIN v \subseteq Nat /\ u[k] = Head(way)
  BY <1>1, <1>2
<1> HIDE DEF u, v, k
<1>7. Elements(v) \subseteq Elements(u)
  BY <1>4, <1>6 DEF Elements
<1>8. Elements(u) \subseteq Elements(v) \cup {Head(way)}
  BY <1>5, <1>6 DEF Elements
<1>9. Sorted(u, R) => Sorted(v, R)
  <2>1. ASSUME NEW i \in DOMAIN v, NEW j \in DOMAIN v, i < j
        PROVE  \E m, n \in DOMAIN u : m < n /\ v[i] = u[m] /\ v[j] = u[n]
    <3>1. CASE j < k
      BY <1>4, <1>6, <2>1, <3>1
    <3>2. CASE i < k /\ j >= k
      BY <1>4, <1>6, <2>1, <3>2
    <3>3. CASE i >= k
      BY <1>4, <1>6, <2>1, <3>3
    <3> QED BY <1>6, <3>1, <3>2, <3>3
  <2> QED BY <2>1 DEF Sorted
<1> QED BY <1>2, <1>7, <1>8, <1>9 DEF u, v

\* One cell in hand, and then a queue.
LEMMA HandThenQueue ==
  ASSUME NEW S, NEW h \in S, NEW q \in Seq(S)
  PROVE  /\ <<h>> \o q \in Seq(S) /\ <<h>> \o q # <<>>
         /\ Head(<<h>> \o q) = h /\ Tail(<<h>> \o q) = q
         /\ \A e \in S : <<h>> \o Append(q, e) = Append(<<h>> \o q, e)
         /\ Elements(<<h>> \o q) = {h} \cup Elements(q)
<1>1. /\ <<h>> \o q \in Seq(S) /\ <<h>> \o q # <<>>
      /\ Head(<<h>> \o q) = h /\ Tail(<<h>> \o q) = q
      /\ \A e \in S : <<h>> \o Append(q, e) = Append(<<h>> \o q, e)
  OBVIOUS
<1> DEFINE s == <<h>> \o q
<1>2. /\ Len(q) \in Nat /\ DOMAIN q = 1 .. Len(q) /\ DOMAIN s = 1 .. Len(q) + 1
      /\ \A i \in 1 .. Len(q) + 1 : s[i] = IF i = 1 THEN h ELSE q[i - 1]
  OBVIOUS
<1> HIDE DEF s
<1>3. Elements(s) \subseteq {h} \cup Elements(q)
  BY <1>2 DEF Elements
<1>4. h \in Elements(s)
  BY <1>2 DEF Elements
<1>5. \A i \in DOMAIN q : i + 1 \in DOMAIN s /\ s[i + 1] = q[i]
  BY <1>2
<1>6. Elements(q) \subseteq Elements(s)
  BY <1>5 DEF Elements
<1> QED BY <1>1, <1>3, <1>4, <1>6 DEF s

\* The first of a queue taken in hand.
LEMMA TakenInHand ==
  ASSUME NEW S, NEW q \in Seq(S), q # <<>>
  PROVE  <<Head(q)>> \o Tail(q) = q
  OBVIOUS

\* What is done is before the first on the way.
LEMMA PathFirst ==
  ASSUME NEW S, NEW R, NEW done \in Seq(S), NEW way \in Seq(S)
  PROVE  /\ done \o way \in Seq(S) /\ Elements(done) \subseteq Elements(done \o way)
         /\ way # <<>> => Head(way) \in Elements(done \o way)
         /\ Sorted(done \o way, R) /\ way # <<>> =>
              \A x \in Elements(done) : <<x, Head(way)>> \in R
<1> DEFINE u == done \o way
           k == Len(done) + 1
<1>1. /\ u \in Seq(S) /\ Len(done) \in Nat /\ DOMAIN done = 1 .. Len(done)
      /\ \A i \in 1 .. Len(done) : u[i] = done[i] /\ i \in DOMAIN u /\ i < k
  OBVIOUS
<1>2. way # <<>> => u[k] = Head(way) /\ k \in DOMAIN u
  <2>1. way # <<>> => Len(way) \in Nat \ {0} /\ Head(way) = way[1]
    BY EmptySeq
  <2> QED BY <1>1, <2>1
<1> HIDE DEF u, k
<1>3. Elements(done) \subseteq Elements(u) /\ (way # <<>> => Head(way) \in Elements(u))
  BY <1>1, <1>2 DEF Elements
<1>4. Sorted(u, R) /\ way # <<>> => \A x \in Elements(done) : <<x, Head(way)>> \in R
  BY <1>1, <1>2 DEF Elements, Sorted
<1> QED BY <1>1, <1>3, <1>4 DEF u

\* What a function gives along a sequence.
Along(q, f) == [i \in DOMAIN q |-> f[q[i]]]

\* What f says of the cells of a queue, the first and the others.
LEMMA AlongPath ==
  ASSUME NEW S, NEW V, NEW q \in Seq(S), NEW f, \A x \in Elements(q) : f[x] \in V
  PROVE  /\ Along(q, f) \in Seq(V) /\ (Along(q, f) = <<>> <=> q = <<>>)
         /\ q # <<>> => /\ Head(Along(q, f)) = f[Head(q)]
                        /\ Tail(Along(q, f)) = Along(Tail(q), f)
<1>1. q \in [1 .. Len(q) -> S] /\ Len(q) \in Nat /\ DOMAIN q = 1 .. Len(q)
  BY LenProperties
<1>2. \A i \in 1 .. Len(q) : f[q[i]] \in V
  BY <1>1 DEF Elements
<1>3. /\ Along(q, f) \in [1 .. Len(q) -> V] /\ Along(q, f) \in Seq(V)
      /\ Len(Along(q, f)) = Len(q)
  <2>1. Along(q, f) \in [1 .. Len(q) -> V]
    BY <1>1, <1>2 DEF Along
  <2> QED BY <1>1, <2>1
<1>4. Along(q, f) = <<>> <=> q = <<>>
  BY <1>3
<1>5. ASSUME q # <<>>
      PROVE  Head(Along(q, f)) = f[Head(q)] /\ Tail(Along(q, f)) = Along(Tail(q), f)
  <2>1. /\ Len(q) \in Nat \ {0} /\ Head(q) = q[1] /\ Tail(q) \in Seq(S)
        /\ Len(Tail(q)) = Len(q) - 1 /\ DOMAIN Tail(q) = 1 .. Len(q) - 1
        /\ \A i \in 1 .. Len(q) - 1 : Tail(q)[i] = q[i + 1]
    BY <1>5, HeadTailProperties, EmptySeq
  <2>2. /\ Tail(Along(q, f)) \in Seq(V) /\ Head(Along(q, f)) = Along(q, f)[1]
        /\ Len(Tail(Along(q, f))) = Len(q) - 1
        /\ DOMAIN Tail(Along(q, f)) = 1 .. Len(q) - 1
        /\ \A i \in 1 .. Len(q) - 1 : Tail(Along(q, f))[i] = Along(q, f)[i + 1]
    BY <1>3, <1>4, <1>5, <2>1, HeadTailProperties
  <2>3. \A i \in 1 .. Len(q) : Along(q, f)[i] = f[q[i]]
    BY <1>1 DEF Along
  <2>4. \A i \in 1 .. Len(q) - 1 : Tail(Along(q, f))[i] = Along(Tail(q), f)[i]
    BY <2>1, <2>2, <2>3 DEF Along
  <2>5. DOMAIN Along(Tail(q), f) = 1 .. Len(q) - 1
    BY <2>1 DEF Along
  <2>6. /\ Tail(Along(q, f)) = [i \in 1 .. Len(q) - 1 |-> Tail(Along(q, f))[i]]
        /\ Along(Tail(q), f) = [i \in 1 .. Len(q) - 1 |-> Along(Tail(q), f)[i]]
    BY <2>1, <2>2, <2>5 DEF Along
  <2> QED BY <2>1, <2>2, <2>3, <2>4, <2>6
<1> QED BY <1>3, <1>4, <1>5

\* And of a queue to which a cell was added.
LEMMA AlongAppend ==
  ASSUME NEW S, NEW V, NEW q \in Seq(S), NEW f, \A x \in Elements(q) : f[x] \in V,
         NEW e \in S, f[e] \in V
  PROVE  Along(Append(q, e), f) = Append(Along(q, f), f[e])
<1>1. q \in [1 .. Len(q) -> S] /\ Len(q) \in Nat /\ DOMAIN q = 1 .. Len(q)
  BY LenProperties
<1>2. \A i \in 1 .. Len(q) : f[q[i]] \in V
  BY <1>1 DEF Elements
<1> QED BY <1>1, <1>2 DEF Along

-----------------------------------------------------------------------------
(* The path of the messages: the numbers of those applied, and of those on     *)
(* their way to the callback.                                                  *)

Way == Numbers(ToCallback)
Over == pc["input_processor"] = "done"
Accepted(n) == n \in 1..taken /\ IsValid(n)

\* What a step may do to it: nothing; read a message that takes another path, or
\* one that goes this way; drop the first for shutdown; finish with it.
PassBy ==
  /\ UNCHANGED applied /\ Way' = Way /\ taken' \in {taken, taken + 1}
  /\ \A n : Accepted(n)' <=> Accepted(n)
  /\ Over => Over'
Arrive ==
  /\ UNCHANGED applied /\ Way' = Append(Way, taken + 1) /\ taken' = taken + 1
  /\ \A n \in 1..taken : Accepted(n)' <=> Accepted(n)
  /\ Over => Over'
DropFirst ==
  /\ Way # <<>> /\ Way' = Tail(Way) /\ ~Over /\ Over'
  /\ UNCHANGED <<applied, taken, sent>>
FinishFirst ==
  /\ Way # <<>> /\ Way' = Tail(Way) /\ ~Over
  /\ applied' = IF Accepted(Head(Way)) THEN Append(applied, Head(Way)) ELSE applied
  /\ UNCHANGED <<taken, sent>>

\* The cells of the path hold messages that were read, and nobody else has them.
LEMMA CallbackCells ==
  ASSUME IInv
  PROVE  /\ ToCallback \in Seq(Cell)
         /\ \A c \in Elements(ToCallback) : content[c] \in Read /\ content[c].number \in 1..taken
         /\ pc["input_processor"] = "handle" =>
              /\ ToCallback = <<held["input_processor"]>> \o input_queue
              /\ ToCallback # <<>> /\ Head(ToCallback) = held["input_processor"]
              /\ Tail(ToCallback) = input_queue
         /\ pc["input_processor"] # "handle" => ToCallback = input_queue
         /\ \A t \in Thread \ {"input_processor"} :
              held[t] # NULL => held[t] \notin Elements(ToCallback)
<1> USE Threads DEF Processor, IInv
<1>1. input_queue \in Seq(Cell) /\ held \in [Thread -> Cell \cup {NULL}] /\ taken \in Nat
  BY DEF TypeOK
<1>2. \A m \in Read : m.number \in 1..taken
  BY DEF Read, Message
<1>3. CASE pc["input_processor"] = "handle"
  <2> DEFINE h == held["input_processor"]
  <2>1. ToCallback = <<h>> \o input_queue /\ h \in Cell /\ h # NULL
    BY <1>1, <1>3, BackendAssumption DEF ToCallback, OnesHeld, Control, Holding
  <2>2. Elements(<<h>> \o input_queue) = {h} \cup Elements(input_queue)
    BY <1>1, <2>1, HandThenQueue
  <2>3. content[h] \in Read
    BY <1>3 DEF ReadCells
  <2>4. \A t \in Thread \ {"input_processor"} : held[t] # NULL =>
          held[t] # h /\ held[t] \notin Elements(input_queue)
    BY <2>1 DEF OneOwner
  <2> HIDE DEF h
  <2> QED BY <1>1, <1>2, <1>3, <2>1, <2>2, <2>3, <2>4, HandThenQueue DEF ReadCells, h
<1>4. CASE pc["input_processor"] # "handle"
  <2>1. ToCallback = input_queue
    BY <1>1, <1>4, ConcatEmptySeq DEF ToCallback, OnesHeld
  <2> QED BY <1>1, <1>2, <1>4, <2>1 DEF ReadCells, OneOwner
<1> QED BY <1>3, <1>4

\* The numbers on the way, as a sequence.
LEMMA WayNumbers ==
  ASSUME IInv
  PROVE  /\ Way \in Seq(1..taken) /\ (Way = <<>> <=> ToCallback = <<>>)
         /\ ToCallback # <<>> => /\ Head(Way) = content[Head(ToCallback)].number
                                 /\ Tail(Way) = Numbers(Tail(ToCallback))
<1> DEFINE f == [c \in Cell |-> content[c].number]
<1>1. /\ ToCallback \in Seq(Cell) /\ Elements(ToCallback) \subseteq Cell
      /\ \A c \in Elements(ToCallback) : f[c] \in 1..taken
  BY CallbackCells, ElementsIn
<1>2. \A q \in Seq(Cell) : Numbers(q) = Along(q, f)
  BY DEF Numbers, Along
<1>3. ToCallback # <<>> => Head(ToCallback) \in Cell /\ Tail(ToCallback) \in Seq(Cell)
  BY <1>1, HeadTailProperties
<1>4. ToCallback # <<>> => f[Head(ToCallback)] = content[Head(ToCallback)].number
  BY <1>3
<1> DEFINE V == 1..taken
<1>6. \A c \in Elements(ToCallback) : f[c] \in V
  BY <1>1
<1> HIDE DEF f, V
<1>5. /\ Along(ToCallback, f) \in Seq(V)
      /\ Along(ToCallback, f) = <<>> <=> ToCallback = <<>>
      /\ ToCallback # <<>> => /\ Head(Along(ToCallback, f)) = f[Head(ToCallback)]
                              /\ Tail(Along(ToCallback, f)) = Along(Tail(ToCallback), f)
  BY <1>1, <1>6, AlongPath
<1> QED BY <1>1, <1>2, <1>3, <1>4, <1>5 DEF Way, V

\* Nothing on the way changes as long as its cells are the same and not written to.
LEMMA WayStays ==
  ASSUME IInv, ToCallback' = ToCallback,
         \A c \in Elements(ToCallback) : content'[c] = content[c]
  PROVE  Way' = Way
  BY CallbackCells DEF Way, Numbers, Elements

\* A message put behind the others, in a cell that was not among them.
LEMMA WayGrows ==
  ASSUME IInv, NEW c \in Cell, c \notin Elements(ToCallback),
         ToCallback' = Append(ToCallback, c),
         content' = [content EXCEPT ![c] = Message(taken + 1)]
  PROVE  Way' = Append(Way, taken + 1)
<1> DEFINE f == [d \in Cell |-> content'[d].number]
<1>1. /\ ToCallback \in Seq(Cell) /\ Elements(ToCallback) \subseteq Cell
      /\ \A d \in Elements(ToCallback) : content[d].number \in 1..taken
      /\ taken \in Nat /\ content \in [Cell -> Content]
  BY CallbackCells, ElementsIn DEF IInv, TypeOK
<1>2. /\ \A d \in Elements(ToCallback) : f[d] \in Nat /\ f[d] = content[d].number
      /\ f[c] = taken + 1 /\ f[c] \in Nat
  BY <1>1 DEF Message
<1>3. Append(ToCallback, c) \in Seq(Cell)
  BY <1>1
<1>4. Way' = Along(Append(ToCallback, c), f)
  BY <1>1, <1>3 DEF Way, Numbers, Along
<1>5. Way = Along(ToCallback, f)
  BY <1>1, <1>2 DEF Way, Numbers, Along, Elements
<1> DEFINE V == Nat
<1>7. f[c] \in V /\ \A x \in Elements(ToCallback) : f[x] \in V
  BY <1>2
<1> HIDE DEF f, V
<1>6. Along(Append(ToCallback, c), f) = Append(Along(ToCallback, f), f[c])
  <2>1. ASSUME NEW q \in Seq(Cell), NEW g, \A x \in Elements(q) : g[x] \in V,
               NEW e \in Cell, g[e] \in V
        PROVE  Along(Append(q, e), g) = Append(Along(q, g), g[e])
    BY <2>1, AlongAppend, SMTT(60)
  <2> QED BY <1>1, <1>7, <2>1
<1> QED BY <1>2, <1>4, <1>5, <1>6

\* Every step is one of these, as long as no message of unknown type was sent.
LEMMA MessageMoves ==
  ASSUME IInv, IInv', [Step]_vars, "unknown" \notin Elements(sent)'
  PROVE  PassBy \/ Arrive \/ DropFirst \/ FinishFirst
<1> USE Threads DEF Processor
<1>0. /\ TypeOK /\ Control /\ pc \in [Thread -> Location]
      /\ taken \in 0..Len(sent) /\ sent \in Seq(Kinds) /\ Len(sent) \in Nat
      /\ content \in [Cell -> Content] /\ held \in [Thread -> Cell \cup {NULL}]
      /\ input_queue \in Seq(Cell)
  BY DEF IInv, TypeOK
<1>1. ASSUME UNCHANGED <<input_queue, content, applied, taken, sent,
                         pc["input_processor"], held["input_processor"]>>
      PROVE  PassBy
  <2>1. ToCallback' = ToCallback
    BY <1>1 DEF ToCallback, OnesHeld
  <2>2. Way' = Way
    BY <1>1, <2>1, WayStays
  <2> QED BY <1>1, <2>2 DEF PassBy, Accepted, IsValid, Over
<1>2. CASE Connect \/ ConnectFails \/ DispatchOutput \/ StopBackend \/ DestroyThreadpool
  BY <1>0, <1>1, <1>2
  DEF Connect, ConnectFails, DispatchOutput, StopBackend, DestroyThreadpool, pools, conn, logs
<1>3. ASSUME NEW how \in {"closed", "reset"}, ControllerLeaves(how)
      PROVE  PassBy
  BY <1>1, <1>3 DEF ControllerLeaves, pools, logs
<1>4. CASE Select \/ CloseSocket \/ ReaderTouch
  BY <1>0, <1>1, <1>4 DEF Select, CloseSocket, ReaderTouch, pools, conn, logs
<1>5. CASE Output
  BY <1>0, <1>1, <1>5 DEF Output, OutputRemove, AfterRemoval, Write, GiveBack, Return,
       Wakeup, pools, conn, logs
<1>6. ASSUME NEW w \in Worker, CreateDigest(w) \/ SendDigest(w)
      PROVE  PassBy
  BY <1>0, <1>1, <1>6 DEF CreateDigest, SendDigest, pools, conn, logs
<1>7. CASE UNCHANGED vars
  BY <1>1, <1>7 DEF vars, pools, conn, logs
<1>8. ASSUME UNCHANGED <<input_queue, content, applied, taken, sent>>, ~Over,
             pc["input_processor"] # "handle", pc'["input_processor"] # "handle"
      PROVE  PassBy
  <2>1. ToCallback' = ToCallback
    BY <1>8 DEF ToCallback, OnesHeld
  <2>2. Way' = Way
    BY <1>8, <2>1, WayStays
  <2> QED BY <1>8, <2>2 DEF PassBy, Accepted, IsValid
<1>9. CASE DispatchInput \/ GiveBack("input_processor")
           \/ Wakeup("input_processor", input_queue)
  BY <1>0, <1>8, <1>9
  DEF DispatchInput, Control, GiveBack, Resume, Wakeup, Over, pools, conn, logs
<1>10. ASSUME NEW w \in Worker, FillDigest(w)
       PROVE  PassBy
  <2>1. /\ UNCHANGED <<input_queue, held, applied, taken, sent, pc["input_processor"]>>
        /\ content' = [content EXCEPT ![held[w]] = Digest(w, DigestNumber(w))]
        /\ held[w] # NULL
    BY <1>0, <1>10 DEF FillDigest, Control, Holding, pools, conn, logs
  <2>2. held[w] \notin Elements(ToCallback)
    BY <2>1, CallbackCells
  <2>3. ToCallback' = ToCallback
    BY <2>1 DEF ToCallback, OnesHeld
  <2>4. \A c \in Elements(ToCallback) : content'[c] = content[c]
    BY <1>0, <2>1, <2>2, CallbackCells, ElementsIn
  <2>5. Way' = Way
    BY <2>3, <2>4, WayStays
  <2> QED BY <2>1, <2>5 DEF PassBy, Accepted, IsValid, Over
<1>11. ASSUME UNCHANGED <<input_queue, content, applied, pc["input_processor"],
                          held["input_processor"]>>,
              taken' \in {taken, taken + 1}, \A n : Accepted(n)' <=> Accepted(n)
       PROVE  PassBy
  <2>1. ToCallback' = ToCallback
    BY <1>11 DEF ToCallback, OnesHeld
  <2>2. Way' = Way
    BY <1>11, <2>1, WayStays
  <2> QED BY <1>11, <2>2 DEF PassBy, Over
<1>12. ASSUME NEW kind \in Kinds, ControllerSends(kind)
       PROVE  PassBy
  <2>1. sent' = Append(sent, kind) /\ UNCHANGED <<pools, held, content, pc, taken, logs>>
    BY <1>12 DEF ControllerSends
  <2>2. \A n \in 1..taken : sent'[n] = sent[n]
    BY <1>0, <2>1
  <2>3. \A n : Accepted(n)' <=> Accepted(n)
    BY <2>1, <2>2 DEF Accepted, IsValid
  <2> QED BY <1>11, <2>1, <2>3 DEF pools, logs
<1>13. ASSUME NEW kind, Reads(kind), UNCHANGED sent
       PROVE  /\ taken' = taken + 1 /\ taken + 1 \in DOMAIN sent
              /\ \A n \in 1..taken : Accepted(n)' <=> Accepted(n)
              /\ kind # "valid" => \A n : Accepted(n)' <=> Accepted(n)
  <2>1. /\ taken \in Nat /\ taken' = taken + 1 /\ sent[taken + 1] = kind /\ sent' = sent
        /\ taken + 1 \in DOMAIN sent
    BY <1>0, <1>13 DEF Reads
  <2>2. \A n : n \in 1..taken + 1 <=> n \in 1..taken \/ n = taken + 1
    BY <2>1
  <2> QED BY <2>1, <2>2 DEF Accepted, IsValid
<1>14. CASE ReadEnd \/ ReadError
  <2>1. UNCHANGED <<pools, content, sent, logs>> /\ Hold("backend_processor", NULL)
        /\ \E l : Goto("backend_processor", l)
    BY <1>14 DEF ReadEnd, ReadError
  <2>2. Reads("header_only") \/ Reads("too_long") \/ UNCHANGED taken
    BY <1>14 DEF ReadEnd, ReadError
  <2>3. taken' \in {taken, taken + 1} /\ \A n : Accepted(n)' <=> Accepted(n)
    BY <1>13, <2>1, <2>2 DEF Accepted, IsValid
  <2>4. UNCHANGED <<pc["input_processor"], held["input_processor"]>>
    BY <1>0, <2>1
  <2> QED BY <1>11, <2>1, <2>3, <2>4 DEF pools, logs
<1>15. CASE ReadMessage
  <2> DEFINE c == held["backend_processor"]
  <2>1. /\ c \in Cell /\ c # NULL /\ InQ!Put(c) /\ UNCHANGED <<sent, logs>>
        /\ content' = [content EXCEPT ![c] = Message(taken + 1)]
        /\ UNCHANGED <<pc["input_processor"], held["input_processor"]>>
    BY <1>0, <1>15, BackendAssumption DEF ReadMessage, Reads, Control, Holding
  <2>2. c \notin Elements(ToCallback)
    BY <2>1, CallbackCells
  <2>3. Len(input_queue) < P4_BG_QUEUE_SIZE
    BY <2>1, Room DEF QueuesHaveRoom
  <2> HIDE DEF c
  <2>4. input_queue' = Append(input_queue, c)
    BY <2>1, <2>3 DEF InQ!Put
  <2>5. ToCallback' = Append(ToCallback, c)
    <3>1. CASE pc["input_processor"] = "handle"
      <4>1. held["input_processor"] \in Cell
        BY <1>0, <3>1 DEF Control, Holding
      <4> QED BY <1>0, <2>1, <2>4, <3>1, <4>1, HandThenQueue DEF ToCallback, OnesHeld
    <3>2. CASE pc["input_processor"] # "handle"
      BY <1>0, <2>1, <2>4, <3>2, ConcatEmptySeq DEF ToCallback, OnesHeld
    <3> QED BY <3>1, <3>2
  <2>6. Way' = Append(Way, taken + 1)
    BY <2>1, <2>2, <2>5, WayGrows
  <2>7. taken' = taken + 1 /\ \A n \in 1..taken : Accepted(n)' <=> Accepted(n)
    BY <1>13, <1>15, <2>1 DEF ReadMessage
  <2> QED BY <2>1, <2>6, <2>7 DEF Arrive, Over, logs
<1>16. CASE InputRemove
  <2>1. /\ pc["input_processor"] = "remove" /\ input_queue # <<>>
        /\ input_queue' = Tail(input_queue) /\ UNCHANGED <<content, applied, taken, sent>>
        /\ AfterRemoval("input_processor", Head(input_queue), "handle")
    BY <1>16 DEF InputRemove, InQ!Take, conn, logs
  <2>2. ToCallback = input_queue /\ ~Over
    BY <2>1, CallbackCells DEF Over
  <2>3. CASE shutdown
    <3>1. pc'["input_processor"] = "done"
      BY <1>0, <2>1, <2>3 DEF AfterRemoval
    <3>2. input_queue' \in Seq(Cell)
      BY <1>0, <2>1, HeadTailProperties
    <3>3. ToCallback' = Tail(ToCallback)
      BY <2>1, <2>2, <3>1, <3>2, ConcatEmptySeq DEF ToCallback, OnesHeld
    <3>4. Way' = Numbers(Tail(ToCallback))
      BY <2>1, <3>3 DEF Way, Numbers
    <3> QED BY <2>1, <2>2, <3>1, <3>4, WayNumbers DEF DropFirst, Over
  <2>4. CASE ~shutdown
    <3>1. pc'["input_processor"] = "handle" /\ held'["input_processor"] = Head(input_queue)
      BY <1>0, <2>1, <2>4 DEF AfterRemoval
    <3>2. ToCallback' = ToCallback
      BY <1>0, <2>1, <2>2, <3>1, TakenInHand DEF ToCallback, OnesHeld
    <3>3. Way' = Way
      BY <2>1, <3>2, WayStays
    <3> QED BY <2>1, <2>2, <3>3 DEF PassBy, Accepted, IsValid
  <2> QED BY <2>3, <2>4
<1>17. CASE Handle
  <2> DEFINE n == content[held["input_processor"]].number
  <2>1. /\ pc["input_processor"] = "handle" /\ Callback(n) /\ pc'["input_processor"] = "detouch"
        /\ UNCHANGED <<input_queue, content, taken, sent>>
    BY <1>0, <1>17 DEF Handle, pools, conn
  <2>2. /\ ToCallback # <<>> /\ Head(ToCallback) = held["input_processor"]
        /\ Tail(ToCallback) = input_queue
    BY <2>1, CallbackCells
  <2>3. ToCallback' = input_queue
    BY <1>0, <2>1, ConcatEmptySeq DEF ToCallback, OnesHeld
  <2>4. Way' = Tail(Way) /\ Way # <<>> /\ Head(Way) = n /\ Way \in Seq(1..taken)
    <3>1. Way' = Numbers(input_queue)
      BY <2>1, <2>3 DEF Way, Numbers
    <3> QED BY <2>2, <3>1, WayNumbers
  <2> HIDE DEF n
  <2>5. n \in 1..taken
    BY <2>4, HeadTailProperties
  <2>6. sent[n] # "unknown"
    <3>1. n \in DOMAIN sent
      BY <1>0, <2>5
    <3> QED BY <2>1, <3>1 DEF Elements
  <2>7. applied' = IF Accepted(n) THEN Append(applied, n) ELSE applied
    BY <2>1, <2>5, <2>6 DEF Callback, Accepted, IsValid
  <2> QED BY <2>1, <2>4, <2>7 DEF FinishFirst, Over
<1> QED
  BY <1>2, <1>3, <1>4, <1>5, <1>6, <1>7, <1>9, <1>10, <1>12, <1>14, <1>15, <1>16, <1>17
  DEF Step, LaunchStep, Controller, Reader, Input, Sending

\* MessagesInOrder, in terms of the path.
Less == {p \in Nat \X Nat : p[1] < p[2]}
MessagePath ==
  /\ Elements(applied \o Way) \subseteq 1..taken
  /\ Sorted(applied \o Way, Less)
  /\ \A n \in Elements(applied) : Accepted(n)
  /\ \A n : Accepted(n) /\ n \notin Elements(applied \o Way) =>
       Over /\ \A m \in Elements(applied) : m < n

NoUnknown == "unknown" \notin Elements(sent)

\* MessagesInOrder is said of every pair of places of the path messages take.
LEMMA MessagePathIs == IInv => (MessagesInOrder <=> (NoUnknown => MessagePath))
<1> SUFFICES ASSUME IInv PROVE MessagesInOrder <=> (NoUnknown => MessagePath)
  OBVIOUS
<1> DEFINE all == applied \o Way
<1>1. applied \in Seq(Nat) /\ Way \in Seq(Nat) /\ taken \in Nat
  <2>1. 1..MaxMsgs \subseteq Nat /\ 1..taken \subseteq Nat /\ taken \in Nat
    BY BackendAssumption DEF IInv, TypeOK
  <2> QED BY <2>1, WayNumbers, SeqMonotonic DEF IInv, TypeOK
<1>2. all \in Seq(Nat) /\ Elements(applied) \subseteq Elements(all)
  BY <1>1, PathFirst
<1>3. \A i \in DOMAIN all : all[i] \in Nat
  BY <1>2
<1> HIDE DEF all
<1>4. Sorted(all, Less) <=> \A i, j \in DOMAIN all : i < j => all[i] < all[j]
  BY <1>3 DEF Sorted, Less
<1>5. MessagesInOrder <=>
        (NoUnknown =>
           /\ Elements(all) \subseteq 1..taken
           /\ \A i, j \in DOMAIN all : i < j => all[i] < all[j]
           /\ \A n \in Elements(applied) : IsValid(n)
           /\ \A n \in 1..taken : IsValid(n) /\ n \notin Elements(all) =>
                Over /\ \A m \in Elements(applied) : m < n)
  BY DEF MessagesInOrder, NoUnknown, Way, Over, all
<1>6. MessagePath <=>
           /\ Elements(all) \subseteq 1..taken
           /\ Sorted(all, Less)
           /\ \A n \in Elements(applied) : Accepted(n)
           /\ \A n : Accepted(n) /\ n \notin Elements(all) =>
                Over /\ \A m \in Elements(applied) : m < n
  BY DEF MessagePath, all
<1> QED BY <1>2, <1>4, <1>5, <1>6 DEF Accepted

\* Each of the moves keeps it.
LEMMA MessagePathStep ==
  ASSUME IInv, IInv', MessagePath, PassBy \/ Arrive \/ DropFirst \/ FinishFirst
  PROVE  MessagePath'
<1> DEFINE all == applied \o Way
           h == Head(Way)
<1>1. /\ applied \in Seq(Nat) /\ Way \in Seq(Nat) /\ taken \in Nat
      /\ Way # <<>> => h \in Nat
  <2>1. 1..MaxMsgs \subseteq Nat /\ 1..taken \subseteq Nat /\ taken \in Nat
    BY BackendAssumption DEF IInv, TypeOK
  <2>2. applied \in Seq(Nat) /\ Way \in Seq(Nat)
    BY <2>1, WayNumbers, SeqMonotonic DEF IInv, TypeOK
  <2> QED BY <2>1, <2>2, HeadTailProperties
<1>2. /\ Elements(all) \subseteq 1..taken /\ Sorted(all, Less)
      /\ \A n \in Elements(applied) : Accepted(n)
      /\ \A n : Accepted(n) /\ n \notin Elements(all) =>
           Over /\ \A m \in Elements(applied) : m < n
  BY DEF MessagePath
<1>3. /\ all \in Seq(Nat) /\ Elements(applied) \subseteq Elements(all)
      /\ Way # <<>> => h \in Elements(all) /\ \A m \in Elements(applied) : m < h
  <2>1. Way # <<>> => h \in Elements(all) /\ \A m \in Elements(applied) : <<m, h>> \in Less
    BY <1>1, <1>2, PathFirst
  <2> QED BY <1>1, <2>1, PathFirst DEF Less
<1>4. CASE PassBy
  <2>1. applied' \o Way' = all /\ applied' = applied
    BY <1>4 DEF PassBy
  <2>2. 1..taken \subseteq 1..taken'
    BY <1>1, <1>4 DEF PassBy
  <2> HIDE DEF all
  <2> QED BY <1>2, <1>4, <2>1, <2>2 DEF PassBy, MessagePath
<1>5. CASE Arrive
  <2>1. /\ applied' = applied /\ Way' = Append(Way, taken + 1) /\ taken' = taken + 1
        /\ taken + 1 \in Nat
    BY <1>1, <1>5 DEF Arrive
  <2>2. \A x \in Elements(all) : <<x, taken + 1>> \in Less
    BY <1>1, <1>2 DEF Less
  <2>3. /\ Elements(applied' \o Way') = Elements(all) \cup {taken + 1}
        /\ Sorted(applied' \o Way', Less)
    <3> DEFINE e == taken + 1
               N == Nat
    <3>1. applied \in Seq(N) /\ Way \in Seq(N) /\ e \in N
      BY <1>1, <2>1
    <3>2. \A x \in Elements(all) : <<x, e>> \in Less
      BY <2>2
    <3> HIDE DEF e, N
    <3>3. /\ Elements(applied \o Append(Way, e)) = Elements(all) \cup {e}
          /\ Sorted(applied \o Append(Way, e), Less)
      BY <1>2, <3>1, <3>2, PathAppend
    <3> QED BY <2>1, <3>3 DEF e
  <2>4. /\ 1..taken' = 1..taken \cup {taken + 1} /\ \A n \in 1..taken : Accepted(n)' <=> Accepted(n)
    BY <1>1, <1>5, <2>1 DEF Arrive
  <2> HIDE DEF all
  <2>5. \A n : Accepted(n)' => n \in 1..taken'
    BY DEF Accepted
  <2> QED BY <1>2, <1>3, <1>5, <2>1, <2>3, <2>4, <2>5 DEF Arrive, MessagePath, Accepted
<1>6. CASE DropFirst \/ (FinishFirst /\ ~Accepted(h))
  <2>1. /\ Way # <<>> /\ Way' = Tail(Way) /\ applied' = applied /\ ~Over
        /\ taken' = taken /\ sent' = sent /\ (Accepted(h) => Over')
    BY <1>6 DEF DropFirst, FinishFirst
  <2>2. /\ Elements(applied' \o Way') \subseteq Elements(all)
        /\ Elements(all) \subseteq Elements(applied' \o Way') \cup {h}
        /\ Sorted(applied' \o Way', Less)
    BY <1>1, <1>2, <2>1, PathDrop
  <2>3. \A n : Accepted(n)' <=> Accepted(n)
    BY <2>1 DEF Accepted, IsValid
  <2> HIDE DEF all, h
  <2> QED BY <1>2, <1>3, <2>1, <2>2, <2>3 DEF MessagePath
<1>7. CASE FinishFirst /\ Accepted(h)
  <2>1. /\ Way # <<>> /\ Way' = Tail(Way) /\ applied' = Append(applied, h) /\ ~Over
        /\ taken' = taken /\ sent' = sent
    BY <1>7 DEF FinishFirst
  <2>2. applied' \o Way' = all
    BY <1>1, <2>1, PathMove
  <2>3. Elements(applied') = Elements(applied) \cup {h}
    BY <1>1, <2>1, AppendElements
  <2>4. \A n : Accepted(n)' <=> Accepted(n)
    BY <2>1 DEF Accepted, IsValid
  <2> HIDE DEF all, h
  <2> QED BY <1>2, <1>7, <2>1, <2>2, <2>3, <2>4 DEF MessagePath
<1> QED BY <1>4, <1>5, <1>6, <1>7

\* Nothing has been sent, and nothing applied.
LEMMA MessagesInit == Init => MessagesInOrder
<1> SUFFICES ASSUME Init PROVE MessagesInOrder
  OBVIOUS
<1>1. applied = <<>> /\ taken = 0 /\ ToCallback = <<>>
  BY DEF Init, ToCallback, OnesHeld, Thread, Processor
<1>2. Numbers(ToCallback) = <<>>
  BY <1>1 DEF Numbers
<1>3. applied \o Numbers(ToCallback) = <<>>
  BY <1>1, <1>2
<1>4. \A n : n \notin 1..taken
  BY <1>1
<1> QED BY <1>1, <1>3, <1>4 DEF MessagesInOrder, Elements

\* Every step preserves the order.
LEMMA MessagesStep ==
  ASSUME IInv, IInv', MessagesInOrder, [Step]_vars
  PROVE  MessagesInOrder'
<1>1. IInv' => (MessagesInOrder' <=> (NoUnknown' => MessagePath'))
  BY MessagePathIs, PTL
<1> SUFFICES ASSUME NoUnknown' PROVE MessagePath'
  BY <1>1
<1>2. NoUnknown
  <2>1. sent' = sent \/ \E kind \in Kinds : ControllerSends(kind)
    BY DEF Step, vars, conn, LaunchStep, Connect, ConnectFails, DispatchInput,
      DispatchOutput, StopBackend, DestroyThreadpool, Controller, ControllerLeaves,
      Reader, Select, ReaderTouch, ReadMessage, ReadEnd, ReadError, CloseSocket,
      Input, InputRemove, Handle, GiveBack, Wakeup, Output, OutputRemove, Write,
      CreateDigest, Sending, FillDigest, SendDigest
  <2>2. ASSUME NEW kind \in Kinds, ControllerSends(kind)
        PROVE  Elements(sent) \subseteq Elements(sent')
    BY <2>2, AppendElements DEF ControllerSends, IInv, TypeOK
  <2> QED BY <2>1, <2>2 DEF NoUnknown
<1>3. MessagePath
  BY <1>2, MessagePathIs
<1> QED BY <1>3, MessageMoves, MessagePathStep DEF NoUnknown

\* As long as no message of unknown type is sent, the callback is given what the
\* controller sent, in the order it sent it, each message once and no rejected one,
\* whatever the workers do with the same pool and however the connection ends
\* (ctrl_plane_backend.c:92-123).
THEOREM MessagesKeepOrder == Spec => []MessagesInOrder
BY MessagesInit, MessagesStep, Invariance, NextIsStep, PTL DEF Spec

\* What was applied has no gaps: of two valid messages that were sent, the later
\* one is not applied without the earlier one.
LEMMA NothingSkipped ==
  ASSUME IInv, MessagesInOrder, NoUnknown,
         NEW i \in DOMAIN applied, NEW n \in 1 .. applied[i] - 1, IsValid(n)
  PROVE  \E j \in DOMAIN applied : applied[j] = n
<1> DEFINE all == applied \o Way
<1>1. applied \in Seq(Nat) /\ Way \in Seq(Nat) /\ taken \in Nat
  <2>1. 1..MaxMsgs \subseteq Nat /\ 1..taken \subseteq Nat /\ taken \in Nat
    BY BackendAssumption DEF IInv, TypeOK
  <2> QED BY <2>1, WayNumbers, SeqMonotonic DEF IInv, TypeOK
<1>2. MessagePath
  BY MessagePathIs
<1>3. /\ Len(all) = Len(applied) + Len(Way) /\ DOMAIN all = 1 .. Len(all)
      /\ \A k \in DOMAIN applied : all[k] = applied[k] /\ k \in DOMAIN all
      /\ \A k \in 1 .. Len(all) : k > Len(applied) => all[k] = Way[k - Len(applied)]
      /\ DOMAIN applied = 1 .. Len(applied) /\ Len(applied) \in Nat /\ Len(all) \in Nat
  BY <1>1
<1> HIDE DEF all
<1>4. applied[i] \in Elements(all) /\ applied[i] \in Elements(applied)
  BY <1>3 DEF Elements
<1>5. applied[i] \in 1..taken
  BY <1>2, <1>4 DEF MessagePath, all
<1>6. Accepted(n) /\ n \in Nat /\ applied[i] \in Nat /\ n < applied[i]
  BY <1>1, <1>5 DEF Accepted
<1>7. n \in Elements(all)
  BY <1>2, <1>4, <1>6 DEF MessagePath, all
<1>8. PICK j \in DOMAIN all : all[j] = n
  BY <1>7 DEF Elements
<1>9. j < i
  <2>1. SUFFICES ASSUME i < j PROVE FALSE
    BY <1>3, <1>6, <1>8
  <2>2. <<all[i], all[j]>> \in Less
    BY <1>2, <1>3, <2>1 DEF MessagePath, Sorted, all
  <2> QED BY <1>3, <1>6, <1>8, <2>2 DEF Less
<1> QED BY <1>3, <1>8, <1>9

-----------------------------------------------------------------------------
(* The path of the digests: those that reached the controller, and those in    *)
(* the cells output_processor and its queue have.                              *)

Coming == Contents(ToController)
Up == peer = "open" /\ socket # "closed" /\ ~shutdown

\* A worker queues a digest it has filled in; and the connection is made once.
Filled ==
  /\ \A w \in Worker : pc[w] = "send" => content[held[w]] = Digest(w, created[w])
  /\ main = "launch" => socket = "none"

\* What a step may do to the path.
DigestsStay ==
  /\ UNCHANGED written /\ Coming' = Coming
  /\ \A w \in Worker : Queued(w)' = Queued(w)
  /\ Up' => Up
Queue(w) ==
  /\ UNCHANGED written /\ Coming' = Append(Coming, Digest(w, Queued(w) + 1))
  /\ Digest(w, Queued(w) + 1) \in Content
  /\ Queued(w)' = Queued(w) + 1 /\ \A v \in Worker \ {w} : Queued(v)' = Queued(v)
  /\ Up' => Up
LoseFirst ==
  /\ Coming # <<>> /\ Coming' = Tail(Coming) /\ UNCHANGED written
  /\ \A w \in Worker : Queued(w)' = Queued(w)
  /\ ~Up'
DeliverFirst ==
  /\ Coming # <<>> /\ Coming' = Tail(Coming) /\ written' = Append(written, Head(Coming))
  /\ \A w \in Worker : Queued(w)' = Queued(w)
  /\ Up' => Up

\* The cells of the path, which nobody else has.
LEMMA ControllerCells ==
  ASSUME IInv
  PROVE  /\ ToController \in Seq(Cell)
         /\ pc["output_processor"] = "write" =>
              /\ ToController = <<held["output_processor"]>> \o output_queue
              /\ ToController # <<>> /\ Head(ToController) = held["output_processor"]
              /\ Tail(ToController) = output_queue
         /\ pc["output_processor"] # "write" => ToController = output_queue
         /\ \A t \in Thread \ {"output_processor"} :
              held[t] # NULL => held[t] \notin Elements(ToController)
<1> USE Threads DEF Processor, IInv
<1>1. output_queue \in Seq(Cell) /\ held \in [Thread -> Cell \cup {NULL}]
  BY DEF TypeOK
<1>3. CASE pc["output_processor"] = "write"
  <2> DEFINE h == held["output_processor"]
  <2>1. ToController = <<h>> \o output_queue /\ h \in Cell /\ h # NULL
    BY <1>1, <1>3, BackendAssumption DEF ToController, OnesHeld, Control, Holding
  <2>2. Elements(<<h>> \o output_queue) = {h} \cup Elements(output_queue)
    BY <1>1, <2>1, HandThenQueue
  <2>3. \A t \in Thread \ {"output_processor"} : held[t] # NULL =>
          held[t] # h /\ held[t] \notin Elements(output_queue)
    BY <2>1 DEF OneOwner
  <2> HIDE DEF h
  <2> QED BY <1>1, <1>3, <2>1, <2>2, <2>3, HandThenQueue DEF h
<1>4. CASE pc["output_processor"] # "write"
  <2>1. ToController = output_queue
    BY <1>1, <1>4, ConcatEmptySeq DEF ToController, OnesHeld
  <2> QED BY <1>1, <1>4, <2>1 DEF OneOwner
<1> QED BY <1>3, <1>4

\* The digests on the way, as a sequence.
LEMMA ComingDigests ==
  ASSUME IInv
  PROVE  /\ Coming \in Seq(Content) /\ (Coming = <<>> <=> ToController = <<>>)
         /\ ToController # <<>> => /\ Head(Coming) = content[Head(ToController)]
                                   /\ Tail(Coming) = Contents(Tail(ToController))
<1>1. /\ ToController \in Seq(Cell) /\ Elements(ToController) \subseteq Cell
      /\ content \in [Cell -> Content]
  BY ControllerCells, ElementsIn DEF IInv, TypeOK
<1>2. \A x \in Elements(ToController) : content[x] \in Content
  BY <1>1
<1>3. \A q : Contents(q) = Along(q, content)
  BY DEF Contents, Along
<1> QED BY <1>1, <1>2, <1>3, AlongPath DEF Coming

\* As for the messages: what is on the way changes only with its cells.
LEMMA ComingStays ==
  ASSUME IInv, ToController' = ToController,
         \A c \in Elements(ToController) : content'[c] = content[c]
  PROVE  Coming' = Coming
  BY ControllerCells DEF Coming, Contents, Elements

\* A cell more on the way, a digest more.
LEMMA ComingGrows ==
  ASSUME IInv, NEW c \in Cell, ToController' = Append(ToController, c), content' = content
  PROVE  Coming' = Append(Coming, content[c])
<1>1. /\ ToController \in Seq(Cell) /\ content[c] \in Content
      /\ \A x \in Elements(ToController) : content[x] \in Content
  BY ControllerCells, ElementsIn DEF IInv, TypeOK
<1>2. \A q : Contents(q) = Along(q, content)
  BY DEF Contents, Along
<1>3. Along(Append(ToController, c), content) = Append(Along(ToController, content), content[c])
  <2>1. ASSUME NEW q \in Seq(Cell), NEW g, \A x \in Elements(q) : g[x] \in Content,
               NEW b \in Cell, g[b] \in Content
        PROVE  Along(Append(q, b), g) = Append(Along(q, g), g[b])
    <3>1. q \in [1 .. Len(q) -> Cell] /\ Len(q) \in Nat /\ DOMAIN q = 1 .. Len(q)
      BY LenProperties
    <3>2. \A i \in 1 .. Len(q) : g[q[i]] \in Content
      BY <2>1, <3>1 DEF Elements
    <3> QED BY <2>1, <3>1, <3>2 DEF Along
  <2> QED BY <1>1, <2>1
<1>4. Coming' = Contents(Append(ToController, c))
  BY DEF Coming, Contents
<1> QED BY <1>2, <1>3, <1>4 DEF Coming

\* Each worker's cell is filled in before it is queued.
LEMMA FilledStep ==
  ASSUME IInv, Filled, [Step]_vars
  PROVE  Filled'
<1> USE Threads DEF Processor
<1>0. /\ TypeOK /\ Control /\ pc \in [Thread -> Location]
      /\ content \in [Cell -> Content] /\ held \in [Thread -> Cell \cup {NULL}]
      /\ created \in [Worker -> 0..MaxDigests]
  BY DEF IInv, TypeOK
<1>1. ASSUME UNCHANGED <<content, created, main, socket>>,
             \A w \in Worker : pc'[w] = pc[w] /\ held'[w] = held[w]
      PROVE  Filled'
  BY <1>1 DEF Filled
<1>2. CASE LaunchStep \/ StopBackend \/ DestroyThreadpool \/ CloseSocket
  BY <1>0, <1>2 DEF LaunchStep, Connect, ConnectFails, DispatchInput, DispatchOutput,
       StopBackend, DestroyThreadpool, CloseSocket, Control, Filled, pools, conn, logs
<1>3. CASE Controller
  BY <1>1, <1>3 DEF Controller, ControllerSends, ControllerLeaves, pools, conn, logs
<1>4. CASE Select \/ ReaderTouch \/ ReadEnd \/ ReadError
  BY <1>0, <1>1, <1>4 DEF Select, ReaderTouch, ReadEnd, ReadError, pools, conn, logs
<1>5. CASE Input
  BY <1>0, <1>1, <1>5
  DEF Input, InputRemove, Handle, GiveBack, Return, Wakeup, AfterRemoval, pools, conn, logs
<1>6. CASE Output
  BY <1>0, <1>1, <1>6
  DEF Output, OutputRemove, Write, GiveBack, Return, Wakeup, AfterRemoval, pools, conn, logs
<1>7. CASE ReadMessage
  <2> DEFINE c == held["backend_processor"]
  <2>1. /\ content' = [content EXCEPT ![c] = Message(taken + 1)]
        /\ UNCHANGED <<created, main, socket>>
        /\ \A w \in Worker : pc'[w] = pc[w] /\ held'[w] = held[w]
    BY <1>0, <1>7 DEF ReadMessage, logs
  <2>2. \A w \in Worker : pc[w] = "send" => held[w] \in Cell /\ held[w] # c
    BY <1>0, <1>7 DEF Control, Holding, IInv, OneOwner, ReadMessage, Reads
  <2> HIDE DEF c
  <2> QED BY <1>0, <2>1, <2>2 DEF Filled
<1>8. ASSUME NEW w \in Worker, CreateDigest(w)
      PROVE  Filled'
  <2>1. /\ UNCHANGED <<content, main, socket>> /\ pc[w] = "idle"
        /\ pc'[w] \in {"idle", "fill"}
        /\ \A v \in Worker \ {w} :
             pc'[v] = pc[v] /\ held'[v] = held[v] /\ created'[v] = created[v]
    BY <1>0, <1>8 DEF CreateDigest, conn
  <2> QED BY <2>1 DEF Filled
<1>9. ASSUME NEW w \in Worker, FillDigest(w)
      PROVE  Filled'
  <2>1. /\ UNCHANGED <<created, main, socket, held>> /\ held[w] \in Cell
        /\ content' = [content EXCEPT ![held[w]] = Digest(w, created[w])]
        /\ \A v \in Worker \ {w} : pc'[v] = pc[v]
    BY <1>0, <1>9 DEF FillDigest, DigestNumber, Control, Holding, pools, conn, logs
  <2>2. \A v \in Worker \ {w} : pc[v] = "send" => held[v] \in Cell /\ held[v] # held[w]
    BY <1>0, <1>9 DEF FillDigest, Control, Holding, IInv, OneOwner
  <2>3. content'[held[w]] = Digest(w, created[w])
    BY <1>0, <2>1
  <2>4. \A v \in Worker \ {w} : pc[v] = "send" => content'[held[v]] = content[held[v]]
    BY <1>0, <2>1, <2>2
  <2> QED BY <2>1, <2>3, <2>4 DEF Filled
<1>10. ASSUME NEW w \in Worker, SendDigest(w)
       PROVE  Filled'
  <2>1. /\ UNCHANGED <<created, content, main, socket>> /\ pc'[w] = "idle"
        /\ \A v \in Worker \ {w} : pc'[v] = pc[v] /\ held'[v] = held[v]
    BY <1>0, <1>10 DEF SendDigest, conn, logs
  <2> QED BY <2>1 DEF Filled
<1>11. CASE UNCHANGED vars
  BY <1>1, <1>11 DEF vars, pools, conn, logs
<1> QED
  BY <1>2, <1>3, <1>4, <1>5, <1>6, <1>7, <1>8, <1>9, <1>10, <1>11 DEF Step, Reader, Sending

\* Every step is one of the moves.
LEMMA DigestMoves ==
  ASSUME IInv, IInv', Filled, [Step]_vars
  PROVE  DigestsStay \/ LoseFirst \/ DeliverFirst \/ \E w \in Worker : Queue(w)
<1> USE Threads DEF Processor
<1>0. /\ TypeOK /\ Control /\ pc \in [Thread -> Location]
      /\ content \in [Cell -> Content] /\ held \in [Thread -> Cell \cup {NULL}]
      /\ output_queue \in Seq(Cell) /\ created \in [Worker -> 0..MaxDigests]
  BY DEF IInv, TypeOK
<1>1. ASSUME UNCHANGED <<output_queue, content, written, created, pc["output_processor"],
                         held["output_processor"]>>,
             \A w \in Worker : pc'[w] = pc[w],
             Up' => Up
      PROVE  DigestsStay
  <2>1. ToController' = ToController
    BY <1>1 DEF ToController, OnesHeld
  <2>2. Coming' = Coming
    BY <1>1, <2>1, ComingStays
  <2>3. \A w \in Worker : Queued(w)' = Queued(w)
    BY <1>1 DEF Queued
  <2> QED BY <1>1, <2>2, <2>3 DEF DigestsStay
<1>2. CASE Connect \/ ConnectFails \/ DispatchInput \/ StopBackend \/ DestroyThreadpool
           \/ CloseSocket
  BY <1>0, <1>1, <1>2
  DEF Connect, ConnectFails, DispatchInput, StopBackend, DestroyThreadpool, CloseSocket,
      Filled, Up, pools, conn, logs
<1>3. CASE Controller
  BY <1>1, <1>3 DEF Controller, ControllerSends, ControllerLeaves, Up, pools, conn, logs
<1>4. CASE Select \/ ReaderTouch \/ ReadEnd \/ ReadError
  BY <1>0, <1>1, <1>4
  DEF Select, ReaderTouch, ReadEnd, ReadError, Reads, Up, pools, conn, logs
<1>5. CASE Input
  BY <1>0, <1>1, <1>5 DEF Input, InputRemove, Handle, GiveBack, Return, Wakeup,
       AfterRemoval, Up, pools, conn, logs
<1>6. CASE UNCHANGED vars
  BY <1>1, <1>6 DEF vars, Up, pools, conn, logs
<1>7. ASSUME UNCHANGED <<output_queue, content, written, created, peer, socket, shutdown>>,
             \A w \in Worker : pc'[w] = pc[w],
             pc["output_processor"] # "write", pc'["output_processor"] # "write"
      PROVE  DigestsStay
  <2>1. ToController' = ToController
    BY <1>7 DEF ToController, OnesHeld
  <2>2. Coming' = Coming
    BY <1>7, <2>1, ComingStays
  <2> QED BY <1>7, <2>2 DEF DigestsStay, Queued, Up
<1>8. CASE DispatchOutput \/ GiveBack("output_processor")
           \/ Wakeup("output_processor", output_queue)
  BY <1>0, <1>7, <1>8
  DEF DispatchOutput, Control, GiveBack, Resume, Wakeup, pools, conn, logs
<1>9. ASSUME NEW c, NEW m, c \notin Elements(ToController),
             content' = [content EXCEPT ![c] = m],
             UNCHANGED <<output_queue, written, pc["output_processor"],
                         held["output_processor"], peer, socket, shutdown>>,
             \A w \in Worker : Queued(w)' = Queued(w)
      PROVE  DigestsStay
  <2>1. ToController' = ToController
    BY <1>9 DEF ToController, OnesHeld
  <2>2. \A d \in Elements(ToController) : content'[d] = content[d]
    BY <1>0, <1>9, ControllerCells, ElementsIn
  <2>3. Coming' = Coming
    BY <2>1, <2>2, ComingStays
  <2> QED BY <1>9, <2>3 DEF DigestsStay, Up
<1>10. CASE ReadMessage
  <2> DEFINE c == held["backend_processor"]
  <2>1. /\ content' = [content EXCEPT ![c] = Message(taken + 1)] /\ c # NULL
        /\ UNCHANGED <<output_queue, logs, peer, socket, shutdown, pc["output_processor"],
                       held["output_processor"]>>
        /\ \A w \in Worker : pc'[w] = pc[w]
    BY <1>0, <1>10 DEF ReadMessage, Reads, Control, Holding
  <2>2. c \notin Elements(ToController)
    BY <2>1, ControllerCells
  <2>3. \A w \in Worker : Queued(w)' = Queued(w)
    BY <2>1 DEF Queued, logs
  <2> HIDE DEF c
  <2> QED BY <1>9, <2>1, <2>2, <2>3 DEF logs
<1>11. ASSUME NEW w \in Worker, FillDigest(w)
       PROVE  DigestsStay
  <2> DEFINE c == held[w]
  <2>1. /\ content' = [content EXCEPT ![c] = Digest(w, DigestNumber(w))] /\ c # NULL
        /\ UNCHANGED <<output_queue, logs, conn, shutdown, pc["output_processor"],
                       held["output_processor"]>>
        /\ pc[w] = "fill" /\ pc'[w] = "send"
        /\ \A v \in Worker \ {w} : pc'[v] = pc[v]
    BY <1>0, <1>11 DEF FillDigest, Control, Holding, pools
  <2>2. c \notin Elements(ToController)
    BY <2>1, ControllerCells
  <2>3. \A v \in Worker : Queued(v)' = Queued(v)
    BY <2>1 DEF Queued, logs
  <2> HIDE DEF c
  <2> QED BY <1>9, <2>1, <2>2, <2>3 DEF logs, conn
<1>12. ASSUME NEW w \in Worker, CreateDigest(w)
       PROVE  DigestsStay
  <2>1. /\ UNCHANGED <<output_queue, content, written, conn, shutdown,
                       pc["output_processor"], held["output_processor"]>>
        /\ pc[w] = "idle" /\ created[w] \in Int
        /\ \/ UNCHANGED <<pc, created>>
           \/ pc'[w] = "fill" /\ created'[w] = created[w] + 1
        /\ \A v \in Worker \ {w} : pc'[v] = pc[v] /\ created'[v] = created[v]
    BY <1>0, <1>12 DEF CreateDigest
  <2>2. ToController' = ToController
    BY <2>1 DEF ToController, OnesHeld
  <2>3. Coming' = Coming
    BY <2>1, <2>2, ComingStays
  <2>4. \A v \in Worker : Queued(v)' = Queued(v)
    BY <2>1 DEF Queued
  <2> QED BY <2>1, <2>3, <2>4 DEF DigestsStay, Up, conn
<1>13. ASSUME NEW w \in Worker, SendDigest(w)
       PROVE  Queue(w)
  <2> DEFINE c == held[w]
             d == Digest(w, created[w])
  <2>1. /\ UNCHANGED <<content, logs, conn, shutdown, pc["output_processor"],
                       held["output_processor"]>>
        /\ pc[w] = "send" /\ pc'[w] = "idle" /\ OutQ!Put(c) /\ c \in Cell /\ c # NULL
        /\ \A v \in Worker \ {w} : pc'[v] = pc[v]
    BY <1>0, <1>13, BackendAssumption DEF SendDigest, Complete, Control, Holding
  <2>2. content[c] = d /\ d \in Content
    BY <1>0, <2>1 DEF Filled
  <2>3. Len(output_queue) < P4_BG_QUEUE_SIZE
    BY <2>1, Room DEF QueuesHaveRoom
  <2>4. /\ created[w] \in Int /\ Queued(w)' = Queued(w) + 1 /\ d = Digest(w, Queued(w) + 1)
        /\ \A v \in Worker \ {w} : Queued(v)' = Queued(v)
    BY <1>0, <2>1 DEF Queued, logs
  <2> HIDE DEF c, d
  <2>5. output_queue' = Append(output_queue, c)
    BY <2>1, <2>3 DEF OutQ!Put
  <2>6. ToController' = Append(ToController, c)
    <3>1. CASE pc["output_processor"] = "write"
      <4>1. held["output_processor"] \in Cell
        BY <1>0, <3>1 DEF Control, Holding
      <4> QED BY <1>0, <2>1, <2>5, <3>1, <4>1, HandThenQueue DEF ToController, OnesHeld
    <3>2. CASE pc["output_processor"] # "write"
      BY <1>0, <2>1, <2>5, <3>2, ConcatEmptySeq DEF ToController, OnesHeld
    <3> QED BY <3>1, <3>2
  <2>7. Coming' = Append(Coming, d)
    BY <2>1, <2>2, <2>6, ComingGrows
  <2>8. Digest(w, Queued(w) + 1) \in Content
    BY <2>2, <2>4
  <2> QED BY <2>1, <2>4, <2>7, <2>8 DEF Queue, Up, conn, logs
<1>14. CASE OutputRemove
  <2>1. /\ pc["output_processor"] = "remove" /\ output_queue # <<>>
        /\ output_queue' = Tail(output_queue) /\ UNCHANGED <<content, logs, conn, shutdown>>
        /\ AfterRemoval("output_processor", Head(output_queue), "write")
        /\ \A w \in Worker : pc'[w] = pc[w]
    BY <1>0, <1>14 DEF OutputRemove, OutQ!Take, AfterRemoval
  <2>2. ToController = output_queue
    BY <2>1, ControllerCells
  <2>3. \A w \in Worker : Queued(w)' = Queued(w)
    BY <2>1 DEF Queued, logs
  <2>4. CASE shutdown
    <3>1. pc'["output_processor"] = "done"
      BY <1>0, <2>1, <2>4 DEF AfterRemoval
    <3>2. output_queue' \in Seq(Cell)
      BY <1>0, <2>1, HeadTailProperties
    <3>3. ToController' = Tail(ToController)
      BY <2>1, <2>2, <3>1, <3>2, ConcatEmptySeq DEF ToController, OnesHeld
    <3>4. Coming' = Contents(Tail(ToController))
      BY <2>1, <3>3 DEF Coming, Contents
    <3> QED BY <2>1, <2>2, <2>3, <2>4, <3>4, ComingDigests DEF LoseFirst, Up, logs
  <2>5. CASE ~shutdown
    <3>1. pc'["output_processor"] = "write" /\ held'["output_processor"] = Head(output_queue)
      BY <1>0, <2>1, <2>5 DEF AfterRemoval
    <3>2. ToController' = ToController
      BY <1>0, <2>1, <2>2, <3>1, TakenInHand DEF ToController, OnesHeld
    <3>3. Coming' = Coming
      BY <2>1, <3>2, ComingStays
    <3> QED BY <2>1, <2>3, <3>3 DEF DigestsStay, Up, conn, logs
  <2> QED BY <2>4, <2>5
<1>15. CASE Write
  <2>1. /\ pc["output_processor"] = "write" /\ pc'["output_processor"] = "detouch"
        /\ UNCHANGED <<output_queue, content, created, conn, shutdown>>
        /\ \A w \in Worker : pc'[w] = pc[w]
    BY <1>0, <1>15 DEF Write, pools
  <2>2. /\ ToController # <<>> /\ Head(ToController) = held["output_processor"]
        /\ Tail(ToController) = output_queue
    BY <2>1, ControllerCells
  <2>3. ToController' = output_queue
    BY <1>0, <2>1, ConcatEmptySeq DEF ToController, OnesHeld
  <2>4. Coming' = Tail(Coming) /\ Coming # <<>> /\ Head(Coming) = content[held["output_processor"]]
    <3>1. Coming' = Contents(output_queue)
      BY <2>1, <2>3 DEF Coming, Contents
    <3> QED BY <2>2, <3>1, ComingDigests
  <2>5. \A w \in Worker : Queued(w)' = Queued(w)
    BY <2>1 DEF Queued
  <2>6. \/ written' = Append(written, Head(Coming))
        \/ UNCHANGED written /\ (socket = "closed" \/ peer # "open")
    BY <1>15, <2>4 DEF Write
  <2> QED BY <2>1, <2>4, <2>5, <2>6 DEF DeliverFirst, LoseFirst, Up, conn
<1> QED
  BY <1>2, <1>3, <1>4, <1>5, <1>6, <1>8, <1>10, <1>11, <1>12, <1>13, <1>14, <1>15
  DEF Step, LaunchStep, Reader, Output, Sending

\* DigestsInOrder, of a path and of how many digests each worker has queued.
InTurn == {p \in Content \X Content : p[1].from = p[2].from => p[1].number < p[2].number}
Kept(all, count) ==
  /\ \A d \in Elements(all) : \E w \in Worker : \E n \in 1..count[w] : d = Digest(w, n)
  /\ Sorted(all, InTurn)
Whole(all, count) ==
  \A w \in Worker : \A n \in 1..count[w] : Digest(w, n) \in Elements(all)
Counts == [w \in Worker |-> Queued(w)]
DigestPath == Kept(written \o Coming, Counts) /\ (Up => Whole(written \o Coming, Counts))

\* So is DigestsInOrder of the path of digests.
LEMMA DigestPathIs == IInv => (DigestsInOrder <=> DigestPath)
<1> SUFFICES ASSUME IInv PROVE DigestsInOrder <=> DigestPath
  OBVIOUS
<1> DEFINE all == written \o Coming
<1>1. all \in Seq(Content)
  BY ComingDigests, PathFirst DEF IInv, TypeOK
<1>2. \A i \in DOMAIN all : all[i] \in Content
  BY <1>1
<1> HIDE DEF all
<1>3. Sorted(all, InTurn) <=> \A i, j \in DOMAIN all :
         i < j /\ all[i].from = all[j].from => all[i].number < all[j].number
  BY <1>2 DEF Sorted, InTurn
<1>4. DigestsInOrder <=>
         /\ \A d \in Elements(all) : \E w \in Worker : \E n \in 1..Queued(w) : d = Digest(w, n)
         /\ \A i, j \in DOMAIN all :
              i < j /\ all[i].from = all[j].from => all[i].number < all[j].number
         /\ Up => \A w \in Worker : \A n \in 1..Queued(w) : Digest(w, n) \in Elements(all)
  BY DEF DigestsInOrder, Coming, Up, all
<1>5. \A w \in Worker : Counts[w] = Queued(w)
  BY DEF Counts
<1> QED BY <1>3, <1>4, <1>5 DEF DigestPath, Kept, Whole, all

\* Each of the moves keeps DigestsInOrder.
LEMMA DigestPathStep ==
  ASSUME IInv, DigestPath,
         DigestsStay \/ LoseFirst \/ DeliverFirst \/ \E w \in Worker : Queue(w)
  PROVE  DigestPath'
<1>1. /\ written \in Seq(Content) /\ Coming \in Seq(Content)
      /\ Counts \in [Worker -> Int]
  <2>1. created \in [Worker -> 0..MaxDigests] /\ written \in Seq(Content)
    BY DEF IInv, TypeOK
  <2>2. \A w \in Worker : Queued(w) \in Int
    BY <2>1, BackendAssumption DEF Queued
  <2> QED BY <2>1, <2>2, ComingDigests DEF Counts
<1>2. Kept(written \o Coming, Counts) /\ (Up => Whole(written \o Coming, Counts))
  BY DEF DigestPath
<1>3. ASSUME \A w \in Worker : Queued(w)' = Queued(w)
      PROVE  Counts' = Counts
  BY <1>3 DEF Counts
<1>4. CASE DigestsStay \/ DeliverFirst
  <2>1. written' \o Coming' = written \o Coming
    <3>1. ASSUME Coming # <<>>
          PROVE  Append(written, Head(Coming)) \o Tail(Coming) = written \o Coming
      BY <1>1, <3>1, PathMove
    <3> QED BY <1>4, <3>1 DEF DigestsStay, DeliverFirst
  <2>2. Counts' = Counts /\ (Up' => Up)
    BY <1>3, <1>4 DEF DigestsStay, DeliverFirst
  <2> QED BY <1>2, <2>1, <2>2 DEF DigestPath, Kept
<1>5. CASE LoseFirst
  <2>1. /\ Coming # <<>> /\ Coming' = Tail(Coming) /\ written' = written /\ ~Up'
        /\ Counts' = Counts
    BY <1>3, <1>5 DEF LoseFirst
  <2>2. Sorted(written \o Coming, InTurn)
    BY <1>2 DEF Kept
  <2>3. /\ Elements(written \o Tail(Coming)) \subseteq Elements(written \o Coming)
        /\ Sorted(written \o Tail(Coming), InTurn)
    BY <1>1, <2>1, <2>2, PathDrop
  <2> QED BY <1>2, <2>1, <2>3 DEF DigestPath, Kept
<1>6. ASSUME NEW w \in Worker, Queue(w)
      PROVE  DigestPath'
  <2>1. PICK k : k = Queued(w) + 1
    OBVIOUS
  <2>2. /\ written' = written /\ Coming' = Append(Coming, Digest(w, k))
    BY <1>6, <2>1 DEF Queue
  <2>3. Digest(w, k) \in Content
    BY <1>6, <2>1 DEF Queue
  <2>4. Up' => Up
    BY <1>6 DEF Queue
  <2>5. /\ \A v \in Worker : Counts[v] \in Int
        /\ \A v \in Worker \ {w} : Counts'[v] = Counts[v]
        /\ k = Counts[w] + 1 /\ Counts'[w] = k /\ k \in Int
    BY <1>1, <1>6, <2>1 DEF Queue, Counts
  <2>6. PICK done, way, count, next : /\ done = written /\ way = Coming
                                      /\ count = Counts /\ next = Counts'
    OBVIOUS
  <2>7. done \in Seq(Content) /\ way \in Seq(Content) /\ Kept(done \o way, count)
    BY <1>1, <1>2, <2>6
  <2>8. /\ \A v \in Worker : count[v] \in Int /\ (v # w => next[v] = count[v])
        /\ k = count[w] + 1 /\ next[w] = k /\ k \in Int
    BY <2>5, <2>6
  <2> DEFINE e == Digest(w, k)
             all == done \o way
             more == done \o Append(way, e)
  <2>9. e.from = w /\ e.number = k /\ e \in Content
    <3>1. e \in Content
      BY <2>3
    <3>2. e.from = w /\ e.number = k
      BY DEF Digest
    <3> QED BY <3>1, <3>2
  <2>10. all \in Seq(Content) /\ Elements(all) \subseteq Content
    BY <2>7, PathFirst, ElementsIn
  <2>11. /\ \A d \in Elements(all) : \E v \in Worker : \E n \in 1..count[v] : d = Digest(v, n)
        /\ Sorted(all, InTurn)
    BY <2>7 DEF Kept
  <2> HIDE DEF e
  <2>12. ASSUME NEW x \in Elements(all)
         PROVE  <<x, e>> \in InTurn
    <3> HIDE DEF all
    <3>1. PICK v \in Worker : \E n \in 1..count[v] : x = Digest(v, n)
      BY <2>11
    <3>2. PICK n \in 1..count[v] : x = Digest(v, n)
      BY <3>1
    <3>3. x.from = v /\ x.number = n
      BY <3>2 DEF Digest
    <3>4. v = w => n < k
      BY <2>8
    <3> QED BY <2>9, <2>10, <3>3, <3>4 DEF InTurn
  <2>13. Elements(more) = Elements(all) \cup {e} /\ Sorted(more, InTurn)
    BY <2>7, <2>9, <2>11, <2>12, PathAppend
  <2> HIDE DEF all, more
  <2>14. k \in 1..next[w]
    <3>1. e.type = "digest" /\ Blank.type # "digest" /\ \A n : Message(n).type # "digest"
      BY DEF e, Digest, Blank, Message
    <3>2. PICK v \in Worker : \E n \in 1..MaxDigests : e = Digest(v, n)
      BY <2>9, <3>1 DEF Content
    <3>3. PICK n \in 1..MaxDigests : e = Digest(v, n)
      BY <3>2
    <3>4. n = k
      BY <2>9, <3>3 DEF Digest
    <3> QED BY <2>8, <3>3, <3>4
  <2>15. \A v \in Worker : 1..count[v] \subseteq 1..next[v]
    BY <2>8
  <2>16. Kept(more, next)
    <3>1. \E m \in 1..next[w] : e = Digest(w, m)
      BY <2>14 DEF e
    <3> QED BY <2>11, <2>13, <2>15, <3>1 DEF Kept
  <2>17. ASSUME Whole(all, count)
         PROVE  Whole(more, next)
    <3>1. ASSUME NEW v \in Worker, NEW n \in 1..next[v]
          PROVE  Digest(v, n) \in Elements(more)
      <4>1. n \in 1..count[v] \/ (v = w /\ n = k)
        BY <2>8
      <4>2. \A m \in 1..count[v] : Digest(v, m) \in Elements(all)
        BY <2>17 DEF Whole
      <4> QED BY <2>13, <4>1, <4>2 DEF e
    <3> QED BY <3>1 DEF Whole
  <2>18. written' \o Coming' = more /\ Counts' = next /\ all = written \o Coming
    BY <2>2, <2>6 DEF more, all, e
  <2>19. Kept(written' \o Coming', Counts')
    BY <2>16, <2>18
  <2>20. Up' => Whole(written' \o Coming', Counts')
    <3>1. Up => Whole(all, count)
      BY <1>2, <2>6, <2>18
    <3>2. Up' => Whole(more, next)
      BY <2>4, <2>17, <3>1
    <3> QED BY <2>18, <3>2
  <2> QED BY <2>19, <2>20 DEF DigestPath
<1> QED BY <1>4, <1>5, <1>6

\* No digest has been created.
LEMMA DigestsInit == Init => DigestsInOrder /\ Filled
<1> SUFFICES ASSUME Init PROVE DigestsInOrder /\ Filled
  OBVIOUS
<1>1. written = <<>> /\ ToController = <<>>
  BY DEF Init, ToController, OnesHeld, Thread, Processor
<1>2. Contents(ToController) = <<>>
  BY <1>1 DEF Contents
<1>3. written \o Contents(ToController) = <<>>
  BY <1>1, <1>2
<1>4. \A w \in Worker : pc[w] = "idle" /\ created[w] = 0
  BY Threads DEF Init
<1>5. \A w \in Worker : Queued(w) = 0
  BY <1>4 DEF Queued
<1> QED BY <1>3, <1>4, <1>5 DEF DigestsInOrder, Filled, Elements, Init

\* Every step preserves the order of each worker's digests.
LEMMA DigestsStep ==
  ASSUME IInv, IInv', DigestsInOrder, Filled, [Step]_vars
  PROVE  DigestsInOrder' /\ Filled'
<1>1. IInv' => (DigestsInOrder' <=> DigestPath')
  BY DigestPathIs, PTL
<1> QED BY <1>1, DigestPathIs, DigestMoves, DigestPathStep, FilledStep

\* What reaches the controller of a worker's digests is what that worker sent, in its
\* order and each digest once, however many workers share the pool and the queue;
\* and none is missing while the connection is up (ctrl_plane_backend.c:325-358).
THEOREM DigestsKeepOrder == Spec => []DigestsInOrder
BY DigestsInit, DigestsStep, Invariance, NextIsStep, PTL DEF Spec

\* What output_processor writes is a digest one of the workers has created.
LEMMA WritesDigests ==
  ASSUME IInv, DigestsInOrder, pc["output_processor"] = "write"
  PROVE  \E w \in Worker : \E n \in 1 .. created[w] :
           content[held["output_processor"]] = Digest(w, n)
<1>1. DigestPath
  BY DigestPathIs
<1>2. /\ ToController # <<>> /\ Head(ToController) = held["output_processor"]
  BY ControllerCells
<1>3. written \in Seq(Content) /\ Coming \in Seq(Content) /\ Coming # <<>>
      /\ Head(Coming) = content[held["output_processor"]]
  BY <1>2, ComingDigests DEF IInv, TypeOK
<1>4. content[held["output_processor"]] \in Elements(written \o Coming)
  BY <1>3, PathFirst, ZenonT(60)
<1>5. PICK w \in Worker : \E n \in 1 .. Counts[w] :
          content[held["output_processor"]] = Digest(w, n)
  BY <1>1, <1>4 DEF DigestPath, Kept
<1>6. created[w] \in Nat /\ Counts[w] = Queued(w)
  BY DEF IInv, TypeOK, Counts
<1> QED BY <1>5, <1>6 DEF Queued
=============================================================================
