------------------------------ MODULE Backend -------------------------------
(***************************************************************************)
(* ctrl_plane_backend.c: the switch's end of the control connection.  One  *)
(* pool of message cells serves two flows:                                 *)
(*                                                                         *)
(*   controller -> backend_processor -> input_queue -> input_processor     *)
(*                                            -> callback (table updates)  *)
(*   data-plane worker -> output_queue -> output_processor -> controller   *)
(*                                                                         *)
(* A cell is taken from the pool at the start of its flow and given back   *)
(* at its end; in between a pointer to it is in exactly one place.  The    *)
(* pool is used as module CellPool describes it and the queues as          *)
(* BoundedQueue does; MemPool and Fifo show that the code keeps to these.  *)
(* fifo_wait becomes the condition for removing an element.                *)
(***************************************************************************)
EXTENDS Naturals, Sequences, FiniteSets

CONSTANTS
  Cell,              \* the memory cells of the pool, 1000 in controlplane.c.py
  Worker,            \* data-plane threads that run generate_digest
  P4_BG_QUEUE_SIZE,  \* slots of each queue, 1024
  NULL,              \* the null pointer
  Kinds,             \* the kinds of messages the controller sends
  MaxMsgs,           \* bound: messages the controller sends
  MaxDigests         \* bound: digests each worker creates

Processor == {"backend_processor", "input_processor", "output_processor"}
Thread == Processor \cup Worker

\* What the controller's bytes are to the code that reads them:
\*   valid        an add_table_entry or set_default_action message
\*   rejected     one with too many matches or parameters
\*   unknown      a message of any other type that has a body
\*   header_only  a message without a body: read_p4_msg returns 0
\*   too_long     a header whose length exceeds the cell's: read_p4_msg
\*                returns -100 and leaves the body in the stream, to be read
\*                as the messages that follow
Kind == {"valid", "rejected", "unknown", "header_only", "too_long"}

\* 1000 cells against 1024 slots: a queue has room for every cell there is.
ASSUME BackendAssumption ==
  /\ IsFiniteSet(Cell)
  /\ P4_BG_QUEUE_SIZE \in Nat
  /\ Cardinality(Cell) <= P4_BG_QUEUE_SIZE
  /\ NULL \notin Cell
  /\ Worker \cap Processor = {}
  /\ Kinds \subseteq Kind
  /\ MaxMsgs \in Nat /\ MaxDigests \in Nat

VARIABLES
  unused,         \* the cells on the unused list
  input_queue,
  output_queue,
  held,           \* held[t]: the cell thread t has a pointer to, or NULL
  content,        \* what is in the memory of each cell
  pc,             \* where each thread is
  main,           \* where the thread that owns the backend is
  shutdown,       \* bgt->shutdown
  peer,           \* the controller's end: "open", "closed", "reset" or, once
                  \* read has reported the reset, "gone"
  socket,         \* our end: "none", "open" or "closed"
  sent,           \* kinds of the messages the controller has sent so far
  taken,          \* how many of them have been read from the socket
  applied,        \* the messages the callback was given, by number
  created,        \* created[w]: digests worker w has created
  written,        \* the digests that reached the controller
  process         \* "running", "crashed" or "killed"

pools == <<unused, input_queue, output_queue>>
conn  == <<peer, socket, sent, taken>>
logs  == <<applied, created, written>>
vars  == <<pools, held, content, pc, main, shutdown, conn, logs, process>>

InQ  == INSTANCE BoundedQueue WITH q <- input_queue, out <- held,
          Element <- Cell, Reader <- Thread, Capacity <- P4_BG_QUEUE_SIZE, None <- NULL
OutQ == INSTANCE BoundedQueue WITH q <- output_queue, out <- held,
          Element <- Cell, Reader <- Thread, Capacity <- P4_BG_QUEUE_SIZE, None <- NULL
Pool == INSTANCE CellPool

Blank == [type |-> "blank"]
Message(n) == [type |-> "message", number |-> n]
Digest(w, n) == [type |-> "digest", from |-> w, number |-> n]

-----------------------------------------------------------------------------
Init ==
  /\ unused = Cell
  /\ input_queue = <<>> /\ output_queue = <<>>
  /\ held = [t \in Thread |-> NULL]
  /\ content = [c \in Cell |-> Blank]
  /\ pc = [t \in Thread |-> IF t \in Processor THEN "not_started" ELSE "idle"]
  /\ main = "launch"
  /\ shutdown = FALSE
  /\ peer = "open" /\ socket = "none"
  /\ sent = <<>> /\ taken = 0
  /\ applied = <<>> /\ created = [w \in Worker |-> 0] /\ written = <<>>
  /\ process = "running"

Goto(t, l) == pc' = [pc EXCEPT ![t] = l]
Hold(t, c) == held' = [held EXCEPT ![t] = c]

-----------------------------------------------------------------------------
\* Faulty variants, for the mutants of PROJECT.json: a cell given back and
\* kept, a cell forgotten, digests numbered from zero, a callback for rejected
\* messages, a digest queued before it is filled in, and a processor that leaves
\* its loop after one message.
ReturnButKeep(t) == Pool!Detouch(held[t]) /\ UNCHANGED held
ReturnForgotten(t) == Hold(t, NULL) /\ UNCHANGED unused
NumberFromZero(w) == created[w] - 1
CallbackAlways(n) == applied' = Append(applied, n) /\ UNCHANGED process
SendUnfilled(w) == pc[w] \in {"fill", "send"}
ResumeNever == "done"

-----------------------------------------------------------------------------
(* launch_backend, stop_backend and destroy_threadpool.                    *)

Connect ==
  /\ main = "launch" /\ peer = "open"
  /\ socket' = "open"
  /\ Goto("backend_processor", "select")
  /\ main' = "dispatch_input"
  /\ UNCHANGED <<pools, held, content, shutdown, peer, sent, taken, logs, process>>

\* connect fails: launch_backend returns, starts no thread and tells nobody.
ConnectFails ==
  /\ main = "launch"
  /\ main' = "serving"
  /\ UNCHANGED <<pools, held, content, pc, shutdown, conn, logs, process>>

DispatchInput ==
  /\ main = "dispatch_input"
  /\ Goto("input_processor", "remove")
  /\ main' = "dispatch_output"
  /\ UNCHANGED <<pools, held, content, shutdown, conn, logs, process>>

DispatchOutput ==
  /\ main = "dispatch_output"
  /\ Goto("output_processor", "remove")
  /\ main' = "serving"
  /\ UNCHANGED <<pools, held, content, shutdown, conn, logs, process>>

\* The one caller, tests/test_backend.c, has sent its digests by then.
StopBackend ==
  /\ main = "serving"
  /\ \A w \in Worker : pc[w] = "idle"
  /\ shutdown' = TRUE
  /\ main' = "destroy_threadpool"
  /\ UNCHANGED <<pools, held, content, pc, conn, logs, process>>

\* SIGUSR1 has no handler: it ends the process and not only the thread.
DestroyThreadpool ==
  /\ main = "destroy_threadpool"
  /\ process' = "killed"
  /\ UNCHANGED <<pools, held, content, pc, main, shutdown, conn, logs>>

-----------------------------------------------------------------------------
(* The controller's end of the connection.                                 *)

ControllerSends(kind) ==
  /\ socket # "none" /\ peer = "open" /\ Len(sent) < MaxMsgs
  /\ sent' = Append(sent, kind)
  /\ UNCHANGED <<pools, held, content, pc, main, shutdown, peer, socket, taken,
                 logs, process>>

\* An orderly end of the stream, or a reset.
ControllerLeaves(how) ==
  /\ socket # "none" /\ peer = "open"
  /\ peer' = how
  /\ UNCHANGED <<pools, held, content, pc, main, shutdown, socket, sent, taken,
                 logs, process>>

-----------------------------------------------------------------------------
(* backend_processor.                                                      *)

Readable == taken < Len(sent) \/ peer # "open"

\* select returns with data, or after 5 seconds without; either way shutdown is
\* tested next.
Select ==
  /\ pc["backend_processor"] = "select"
  /\ \/ shutdown /\ Goto("backend_processor", "close")
     \/ ~shutdown /\ Readable /\ Goto("backend_processor", "touch")
  /\ UNCHANGED <<pools, held, content, main, shutdown, conn, logs, process>>

\* touch_mem_cell; its result is dereferenced without a test.
ReaderTouch ==
  /\ pc["backend_processor"] = "touch"
  /\ \/ /\ \E c \in unused : Pool!Touch(c) /\ Hold("backend_processor", c)
        /\ Goto("backend_processor", "read")
        /\ UNCHANGED process
     \/ /\ Pool!TouchNothing
        /\ process' = "crashed"
        /\ UNCHANGED <<held, pc>>
  /\ UNCHANGED <<input_queue, output_queue, content, main, shutdown, conn, logs>>

\* The message read next is of the given kind.
Reads(kind) ==
  /\ pc["backend_processor"] = "read"
  /\ peer \in {"open", "closed"} /\ taken < Len(sent)
  /\ sent[taken + 1] = kind
  /\ taken' = taken + 1

\* read_p4_msg returned a length: the cell is queued for input_processor.
ReadMessage ==
  LET c == held["backend_processor"] IN
  /\ \E kind \in {"valid", "rejected", "unknown"} : Reads(kind)
  /\ content' = [content EXCEPT ![c] = Message(taken + 1)]
  /\ InQ!Put(c)
  /\ Hold("backend_processor", NULL)
  /\ Goto("backend_processor", "select")
  /\ UNCHANGED <<unused, output_queue, main, shutdown, peer, socket, sent, logs, process>>

StreamEnd == peer = "gone" \/ (peer = "closed" /\ taken = Len(sent))

\* read_p4_msg returned 0.  The loop is left; the cell is not given back.
ReadEnd ==
  /\ \/ Reads("header_only")
     \/ pc["backend_processor"] = "read" /\ StreamEnd /\ UNCHANGED taken
  /\ Hold("backend_processor", NULL)
  /\ Goto("backend_processor", "close")
  /\ UNCHANGED <<pools, content, main, shutdown, peer, socket, sent, logs, process>>

\* read_p4_msg returned a negative value.  The cell is not given back.
ReadError ==
  /\ \/ Reads("too_long") /\ UNCHANGED peer
     \/ /\ pc["backend_processor"] = "read" /\ peer = "reset"
        /\ peer' = "gone"
        /\ UNCHANGED taken
  /\ Hold("backend_processor", NULL)
  /\ Goto("backend_processor", "select")
  /\ UNCHANGED <<pools, content, main, shutdown, socket, sent, logs, process>>

CloseSocket ==
  /\ pc["backend_processor"] = "close"
  /\ socket' = "closed"
  /\ Goto("backend_processor", "done")
  /\ UNCHANGED <<pools, held, content, main, shutdown, peer, sent, taken, logs, process>>

-----------------------------------------------------------------------------
(* input_processor and output_processor.                                   *)

\* After a removal: with shutdown set the loop is left and the cell that was
\* removed is not given back.
AfterRemoval(t, c, next) ==
  IF shutdown THEN Goto(t, "done") /\ UNCHANGED held
  ELSE Goto(t, next) /\ Hold(t, c)

\* fifo_wait returned without a signal: the removal finds nothing, and only
\* shutdown makes that differ from not waking at all.
Wakeup(t, queue) ==
  /\ pc[t] = "remove" /\ queue = <<>> /\ shutdown
  /\ Goto(t, "done")
  /\ UNCHANGED <<pools, held, content, main, shutdown, conn, logs, process>>

\* detouch_mem_cell at the end of the loop.
Return(t) == Pool!Detouch(held[t]) /\ Hold(t, NULL)
Resume == "remove"

GiveBack(t) ==
  /\ pc[t] = "detouch"
  /\ Return(t)
  /\ Goto(t, Resume)
  /\ UNCHANGED <<input_queue, output_queue, content, main, shutdown, conn, logs, process>>

InputRemove ==
  /\ pc["input_processor"] = "remove"
  /\ InQ!Take
  /\ AfterRemoval("input_processor", Head(input_queue), "handle")
  /\ UNCHANGED <<unused, output_queue, content, main, shutdown, conn, logs, process>>

\* handle_p4_msg.  For a message of unknown type the callback is run on a
\* p4_ctrl_msg that was never written (handlers.c:55-58): it may do nothing,
\* find what an earlier message left on the stack, or follow a wild pointer.
Callback(n) ==
  \/ sent[n] = "valid" /\ applied' = Append(applied, n) /\ UNCHANGED process
  \/ sent[n] = "rejected" /\ UNCHANGED <<applied, process>>
  \/ /\ sent[n] = "unknown"
     /\ \/ UNCHANGED <<applied, process>>
        \/ /\ applied # <<>>
           /\ applied' = Append(applied, applied[Len(applied)])
           /\ UNCHANGED process
        \/ process' = "crashed" /\ UNCHANGED applied

Handle ==
  /\ pc["input_processor"] = "handle"
  /\ Callback(content[held["input_processor"]].number)
  /\ Goto("input_processor", "detouch")
  /\ UNCHANGED <<pools, held, content, main, shutdown, conn, created, written>>

OutputRemove ==
  /\ pc["output_processor"] = "remove"
  /\ OutQ!Take
  /\ AfterRemoval("output_processor", Head(output_queue), "write")
  /\ UNCHANGED <<unused, input_queue, content, main, shutdown, conn, logs, process>>

\* write_p4_msg, whose result is not looked at.  On a connection the peer has
\* left, the data is lost or SIGPIPE, which has no handler, ends the process;
\* on the socket that backend_processor has closed it is lost.
Write ==
  /\ pc["output_processor"] = "write"
  /\ \/ /\ socket = "open" /\ peer = "open"
        /\ written' = Append(written, content[held["output_processor"]])
        /\ UNCHANGED process
     \/ /\ socket = "closed" \/ peer # "open"
        /\ UNCHANGED <<written, process>>
     \/ /\ socket = "open" /\ peer # "open"
        /\ process' = "killed"
        /\ UNCHANGED written
  /\ Goto("output_processor", "detouch")
  /\ UNCHANGED <<pools, held, content, main, shutdown, conn, applied, created>>

-----------------------------------------------------------------------------
(* generate_digest, run by a worker: create_digest, then the fields, then  *)
(* send_digest.                                                            *)

\* With the pool empty create_digest returns 0, which generate_digest passes to
\* add_digest_field: it is dereferenced there.
CreateDigest(w) ==
  /\ main = "serving" /\ pc[w] = "idle" /\ created[w] < MaxDigests
  /\ \/ /\ \E c \in unused : Pool!Touch(c) /\ Hold(w, c)
        /\ Goto(w, "fill")
        /\ created' = [created EXCEPT ![w] = @ + 1]
        /\ UNCHANGED process
     \/ /\ Pool!TouchNothing
        /\ process' = "crashed"
        /\ UNCHANGED <<held, pc, created>>
  /\ UNCHANGED <<input_queue, output_queue, content, main, shutdown, conn,
                 applied, written>>

DigestNumber(w) == created[w]

FillDigest(w) ==
  /\ pc[w] = "fill"
  /\ content' = [content EXCEPT ![held[w]] = Digest(w, DigestNumber(w))]
  /\ Goto(w, "send")
  /\ UNCHANGED <<pools, held, main, shutdown, conn, logs, process>>

Complete(w) == pc[w] = "send"

SendDigest(w) ==
  /\ Complete(w)
  /\ OutQ!Put(held[w])
  /\ Hold(w, NULL)
  /\ Goto(w, "idle")
  /\ UNCHANGED <<unused, input_queue, content, main, shutdown, conn, logs, process>>

-----------------------------------------------------------------------------
LaunchStep == Connect \/ ConnectFails \/ DispatchInput \/ DispatchOutput
Reader == Select \/ ReaderTouch \/ ReadMessage \/ ReadEnd \/ ReadError \/ CloseSocket
Input ==
  \/ InputRemove \/ Handle
  \/ GiveBack("input_processor") \/ Wakeup("input_processor", input_queue)
Output ==
  \/ OutputRemove \/ Write
  \/ GiveBack("output_processor") \/ Wakeup("output_processor", output_queue)
Sending(w) == FillDigest(w) \/ SendDigest(w)
Controller ==
  \/ \E kind \in Kinds : ControllerSends(kind)
  \/ \E how \in {"closed", "reset"} : ControllerLeaves(how)

Step ==
  \/ LaunchStep \/ StopBackend \/ DestroyThreadpool
  \/ Controller \/ Reader \/ Input \/ Output
  \/ \E w \in Worker : CreateDigest(w) \/ Sending(w)

Next == process = "running" /\ Step

Spec == Init /\ [][Next]_vars

-----------------------------------------------------------------------------
Elements(s) == {s[i] : i \in DOMAIN s}
Injective(s) == \A i, j \in DOMAIN s : i # j => s[i] # s[j]

Content ==
  {Blank} \cup {Message(n) : n \in 1..MaxMsgs}
          \cup {Digest(w, n) : w \in Worker, n \in 1..MaxDigests}

Location == {"idle", "fill", "send", "not_started", "select", "touch", "read",
             "close", "remove", "handle", "write", "detouch", "done"}

\* Every variable keeps to its type: what is queued is a cell, and what is applied
\* the number of a message.
TypeOK ==
  /\ unused \subseteq Cell
  /\ input_queue \in Seq(Cell) /\ output_queue \in Seq(Cell)
  /\ held \in [Thread -> Cell \cup {NULL}]
  /\ content \in [Cell -> Content]
  /\ pc \in [Thread -> Location]
  /\ main \in {"launch", "dispatch_input", "dispatch_output", "serving",
               "destroy_threadpool"}
  /\ shutdown \in BOOLEAN
  /\ peer \in {"open", "closed", "reset", "gone"}
  /\ socket \in {"none", "open", "closed"}
  /\ sent \in Seq(Kinds) /\ Len(sent) <= MaxMsgs
  /\ taken \in 0..Len(sent)
  /\ applied \in Seq(1..MaxMsgs)
  /\ created \in [Worker -> 0..MaxDigests]
  /\ written \in Seq(Content)
  /\ process \in {"running", "crashed", "killed"}

\* A pointer to a cell is in one place only: on the unused list, once in one of
\* the queues, or with one thread.  So no thread writes into a cell another one
\* is reading, and no cell is given back twice (ctrl_plane_backend.c:96-98,
\* 116-123, 135-141, 338, 356).
OneOwner ==
  /\ Injective(input_queue) /\ Injective(output_queue)
  /\ Elements(input_queue) \cap Elements(output_queue) = {}
  /\ unused \cap (Elements(input_queue) \cup Elements(output_queue)) = {}
  /\ \A t \in Thread : held[t] # NULL =>
       /\ held[t] \notin unused \cup Elements(input_queue) \cup Elements(output_queue)
       /\ \A u \in Thread \ {t} : held[u] # held[t]

\* fifo_add_msg drops what does not fit and tells nobody, but whoever has a cell
\* to queue finds room in either queue: there are not more cells than slots.
QueuesHaveRoom ==
  \A t \in Thread : held[t] # NULL =>
    Len(input_queue) < P4_BG_QUEUE_SIZE /\ Len(output_queue) < P4_BG_QUEUE_SIZE

\* Cells that nobody can reach any more.
Lost == Cell \ (unused \cup Elements(input_queue) \cup Elements(output_queue)
                  \cup {held[t] : t \in Thread})

\* The pool shrinks in four ways only: a cell for every message announced with
\* too great a length, one when the connection is reset, one when the reader
\* leaves its loop, and one for each processor that leaves its own.  In
\* particular no ordinary message or digest costs a cell.
LossesAccountedFor ==
  Cardinality(Lost) <=
    Cardinality({n \in 1..taken : sent[n] = "too_long"})
    + (IF peer = "gone" THEN 1 ELSE 0)
    + Cardinality({t \in Processor : pc[t] \in {"close", "done"}})

-----------------------------------------------------------------------------
IsValid(n) == sent[n] = "valid"
OnesHeld(t, l) == IF pc[t] = l THEN <<held[t]>> ELSE <<>>
ToCallback == OnesHeld("input_processor", "handle") \o input_queue
ToController == OnesHeld("output_processor", "write") \o output_queue

\* The numbers, and the digests, in the cells of a sequence.
Numbers(cells) == [i \in DOMAIN cells |-> content[cells[i]].number]
Contents(cells) == [i \in DOMAIN cells |-> content[cells[i]]]

\* From the socket to the callback: what was applied, then what input_processor
\* is about to handle and what is queued for it, is in the order it was sent and
\* each once.  Nothing rejected is applied, and no other message is missing but
\* those behind the last cell, which input_processor drops when it sees shutdown.
\* Not so after a message of unknown type.
MessagesInOrder ==
  "unknown" \notin Elements(sent) =>
  LET all == applied \o Numbers(ToCallback)
  IN /\ Elements(all) \subseteq 1..taken
     /\ \A i, j \in DOMAIN all : i < j => all[i] < all[j]
     /\ \A n \in Elements(applied) : IsValid(n)
     /\ \A n \in 1..taken : IsValid(n) /\ n \notin Elements(all) =>
          pc["input_processor"] = "done" /\ \A m \in Elements(applied) : m < n

\* The digests a worker has queued.
Queued(w) == created[w] - (IF pc[w] = "idle" THEN 0 ELSE 1)

\* From the worker to the controller: what arrived, is being written or is queued
\* are digests their worker has finished, each worker's in order and once; and as
\* long as the connection is up, none is missing.
DigestsInOrder ==
  LET all == written \o Contents(ToController)
  IN /\ \A d \in Elements(all) : \E w \in Worker : \E n \in 1..Queued(w) : d = Digest(w, n)
     /\ \A i, j \in DOMAIN all :
          i < j /\ all[i].from = all[j].from => all[i].number < all[j].number
     /\ peer = "open" /\ socket # "closed" /\ ~shutdown =>
          \A w \in Worker : \A n \in 1..Queued(w) : Digest(w, n) \in Elements(all)

\* "EOF TODO: RETRY !!!" (ctrl_plane_backend.c:100): the reader leaves its loop
\* and closes the connection at the end of the stream or for shutdown.
ClosesOnlyAtEnd == pc["backend_processor"] = "close" => shutdown \/ peer # "open"
=============================================================================
