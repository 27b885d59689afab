------------------------------ MODULE Controller ------------------------------
(***************************************************************************)
(* controller.c: the process a controller program runs in.  Its main       *)
(* thread accepts switches, runs the program's init script for each of     *)
(* them and reads the digests they send; the threads of a pool of three    *)
(* hand digests to the program's digest handler (input_processor) and      *)
(* write what the program sends (output_processor).  Both queues belong to *)
(* the process and not to a connection: the output_processor of any        *)
(* connection takes the next message, and writes it to the descriptor it   *)
(* was given when it was dispatched.                                       *)
(*                                                                         *)
(* The program is mac_controller.c (module MacController).  The switches   *)
(* are external: they report a source address that is not in smac, and     *)
(* apply what they are sent in the order they are sent it (Backend shows   *)
(* that they do; the time a message takes is part of the time it waits     *)
(* here before it is written).  Messages and digests are numbered in the   *)
(* order they are created; the queues, the threads and the sockets hold    *)
(* the numbers.                                                            *)
(***************************************************************************)
EXTENDS MacController, FiniteSets

CONSTANTS
  Switch, Mac,
  Threads,          \* the threads of the pool: create_threadpool(3)
  Script,           \* what the init script sends, init(entries)
  Startup,          \* what main sends before it waits for switches
  P4_BG_QUEUE_SIZE,
  MaxReports,       \* bound: digests sent by all switches together
  Leaving,          \* bound: the switches that may leave
  None

ASSUME ControllerAssumption ==
  /\ IsFiniteSet(Switch) /\ Leaving \subseteq Switch /\ Threads \in Nat \ {0}
  /\ P4_BG_QUEUE_SIZE \in Nat \ {0} /\ MaxReports \in Nat
  /\ \A msgs \in {Script, Startup} : msgs \in Seq({msgs[i] : i \in DOMAIN msgs})
  /\ Len(Startup) <= P4_BG_QUEUE_SIZE /\ None \notin Nat

VARIABLES
  sent,             \* every message handed to send_p4_msg
  reported,         \* every digest sent, [switch, mac, port]
  input_queue, output_queue,
  held,             \* held[t]: the message thread t has removed
  todo,             \* todo[t]: what thread t, or main, still has to send
  jobs,             \* dispatched and not yet taken by a thread
  job,              \* job[t]: what thread t runs
  main,             \* where execute_controller is
  link,             \* link[s]: "down", "pending", "open", "gone" or "closed"
  fd,               \* fd[s]: the descriptor of the connection to s
  toController,     \* toController[s]: digests of s that main has not read
  toSwitch,         \* toSwitch[s]: messages written to s, which has applied them
  handled,          \* the digests the handler was called with
  dropped, lost,    \* messages refused by a full queue, and written to nobody
  refused,          \* digests refused by a full queue
  process           \* "running" or "killed"

queues   == <<input_queue, output_queue>>
threads  == <<held, todo, jobs, job>>
links    == <<link, fd, toController, toSwitch>>
history  == <<sent, reported, handled, dropped, lost, refused>>
vars == <<queues, threads, main, links, history, process>>

\* The threads are numbered in the order in which they take a job.
Thread == 1 .. Threads
Main == 0
Idle == [kind |-> "none", fd |-> 0]
Accepting == [at |-> "select", switch |-> None]

\* The slots fifo_add_msg fills before it refuses.
Slots == P4_BG_QUEUE_SIZE

\* Where dispatch puts a job; a mutant that puts it in front.
InFront(j) == <<j>> \o jobs
Behind(j) == Append(jobs, j)

\* free(mem_cell) in output_processor; a mutant without it.
NotFreed(t) == held
Freed(t) == [held EXCEPT ![t] = None]

In == INSTANCE BoundedQueue WITH q <- input_queue, out <- held,
        Element <- Nat, Reader <- Thread, Capacity <- Slots
Out == INSTANCE BoundedQueue WITH q <- output_queue, out <- held,
        Element <- Nat, Reader <- Thread, Capacity <- Slots

-----------------------------------------------------------------------------
\* create_controller_with_init, and what main sends before execute_controller.
Init ==
  /\ sent = Startup /\ output_queue = [i \in DOMAIN Startup |-> i]
  /\ reported = <<>> /\ input_queue = <<>>
  /\ held = [t \in Thread |-> None]
  /\ todo = [t \in Thread \union {Main} |-> <<>>]
  /\ jobs = <<>> /\ job = [t \in Thread |-> Idle]
  /\ main = Accepting
  /\ link = [s \in Switch |-> "down"] /\ fd = [s \in Switch |-> 0]
  /\ toController = [s \in Switch |-> <<>>] /\ toSwitch = [s \in Switch |-> <<>>]
  /\ handled = <<>> /\ dropped = {} /\ lost = {} /\ refused = {}
  /\ process = "running"

\* send_p4_msg by thread t: a copy goes to the output queue.  When that is full
\* fifo_add_msg still returns the queue, the error is not seen, and nobody has
\* the copy.
send_p4_msg(t) ==
  /\ todo[t] # <<>>
  /\ sent' = Append(sent, Head(todo[t]))
  /\ Out!Put(Len(sent) + 1)
  /\ dropped' = IF Len(output_queue) < Slots THEN dropped
                ELSE dropped \union {Len(sent) + 1}
  /\ todo' = [todo EXCEPT ![t] = Tail(@)]
  /\ UNCHANGED <<input_queue, held, jobs, job, main, links, reported, handled,
                 lost, refused, process>>

-----------------------------------------------------------------------------
(* execute_controller.                                                     *)

InUse == {fd[s] : s \in {x \in Switch : link[x] \in {"open", "gone"}}}
LowestFree == CHOOSE f \in 1 .. Cardinality(Switch) :
                f \notin InUse /\ \A g \in 1 .. f - 1 : g \in InUse

\* accept, and the dispatch of an output_processor for the new descriptor.
Accept(s) ==
  /\ main = Accepting /\ link[s] = "pending"
  /\ link' = [link EXCEPT ![s] = "open"]
  /\ fd' = [fd EXCEPT ![s] = LowestFree]
  /\ jobs' = Behind([kind |-> "output_processor", fd |-> LowestFree])
  /\ main' = [at |-> "sleep", switch |-> s]
  /\ UNCHANGED <<queues, held, todo, job, toController, toSwitch, history, process>>

\* After the sleep an input_processor is dispatched, and the init script runs in
\* this thread.
DispatchInput ==
  /\ main.at = "sleep"
  /\ jobs' = Behind([kind |-> "input_processor", fd |-> fd[main.switch]])
  /\ todo' = [todo EXCEPT ![Main] = Script]
  /\ main' = [main EXCEPT !.at = "init"]
  /\ UNCHANGED <<queues, held, job, links, history, process>>

InitDone ==
  /\ main.at = "init" /\ todo[Main] = <<>>
  /\ main' = Accepting
  /\ UNCHANGED <<queues, threads, links, history, process>>

\* read_p4_msg returned a length.
ReadDigest(s) ==
  /\ main = Accepting
  /\ link[s] \in {"open", "gone"} /\ toController[s] # <<>>
  /\ LET n == Head(toController[s])
     IN /\ In!Put(n)
        /\ refused' = IF Len(input_queue) < Slots THEN refused
                      ELSE refused \union {n}
  /\ toController' = [toController EXCEPT ![s] = Tail(@)]
  /\ UNCHANGED <<output_queue, threads, main, link, fd, toSwitch, sent, reported,
                 handled, dropped, lost, process>>

\* read_p4_msg returned 0: the descriptor is closed.  Its output_processor is not
\* told.
ReadEnd(s) ==
  /\ main = Accepting
  /\ link[s] = "gone" /\ toController[s] = <<>>
  /\ link' = [link EXCEPT ![s] = "closed"]
  /\ UNCHANGED <<queues, threads, main, fd, toController, toSwitch, history, process>>

-----------------------------------------------------------------------------
(* The threads.                                                            *)

\* The pool: a free thread takes the oldest job.  Neither function returns, so
\* no thread is ever free again.
TakeJob(t) ==
  /\ job[t] = Idle /\ jobs # <<>> /\ \A u \in 1 .. t - 1 : job[u] # Idle
  /\ job' = [job EXCEPT ![t] = Head(jobs)]
  /\ jobs' = Tail(jobs)
  /\ UNCHANGED <<queues, held, todo, main, links, history, process>>

\* fifo_wait and fifo_remove_msg; the handler is entered with what was removed,
\* and the buffer is freed when it has sent the last of its messages.
InputRemove(t) ==
  /\ job[t].kind = "input_processor" /\ todo[t] = <<>>
  /\ In!Take
  /\ LET d == reported[Head(input_queue)]
         fields == <<Param("", d.mac, 48), Param("", d.port, 9)>>
     IN todo' = [todo EXCEPT ![t] = dhf(Digest("mac_learn_digest", fields))]
  /\ handled' = Append(handled, Head(input_queue))
  /\ UNCHANGED <<output_queue, held, jobs, job, main, links, sent, reported, dropped,
                 lost, refused, process>>

OutputRemove(t) ==
  /\ job[t].kind = "output_processor" /\ held[t] = None
  /\ Out!RemoveOldest(t)
  /\ UNCHANGED <<input_queue, todo, jobs, job, main, links, history, process>>

Owner(f) == {s \in Switch : fd[s] = f /\ link[s] \in {"open", "gone"}}

\* write_p4_msg to the descriptor of the job, whoever has it now; and free.  A
\* descriptor nobody has is an error that is ignored.  Where the other side has
\* left, the bytes are lost, or SIGPIPE ends the process.
OutputWrite(t) ==
  /\ job[t].kind = "output_processor" /\ held[t] # None
  /\ \/ \E s \in Owner(job[t].fd) :
          /\ link[s] = "open"
          /\ toSwitch' = [toSwitch EXCEPT ![s] = Append(@, held[t])]
          /\ UNCHANGED <<lost, process>>
     \/ /\ \A s \in Owner(job[t].fd) : link[s] = "gone"
        /\ lost' = lost \union {held[t]}
        /\ process' \in IF Owner(job[t].fd) = {} THEN {process} ELSE {process, "killed"}
        /\ UNCHANGED toSwitch
  /\ held' = Freed(t)
  /\ UNCHANGED <<queues, todo, jobs, job, main, link, fd, toController, sent,
                 reported, handled, dropped, refused>>

-----------------------------------------------------------------------------
(* The switches.                                                           *)

Applied(s) == {sent[toSwitch[s][i]] : i \in DOMAIN toSwitch[s]}
Entries(s, table) ==
  {m.matches[1].value :
     m \in {x \in Applied(s) : x.type = "ADD_TABLE_ENTRY" /\ x.table = table}}
smac(s) == Entries(s, "smac")
dmac(s) == Entries(s, "dmac")

Connect(s) ==
  /\ link[s] = "down"
  /\ link' = [link EXCEPT ![s] = "pending"]
  /\ UNCHANGED <<queues, threads, main, fd, toController, toSwitch, history, process>>

Leave(s) ==
  /\ link[s] = "open" /\ s \in Leaving
  /\ link' = [link EXCEPT ![s] = "gone"]
  /\ UNCHANGED <<queues, threads, main, fd, toController, toSwitch, history, process>>

\* A digest of s waits at its descriptor.
Arrives(s, mac) ==
  /\ reported' = Append(reported, [switch |-> s, mac |-> mac, port |-> 1])
  /\ toController' = [toController EXCEPT ![s] = Append(@, Len(reported) + 1)]
  /\ UNCHANGED <<queues, threads, main, link, fd, toSwitch, sent, handled, dropped,
                 lost, refused, process>>

\* A frame from an address that is not in smac: the action mac_learn.
Report(s, mac) ==
  /\ link[s] \in {"pending", "open"} /\ mac \notin smac(s)
  /\ Len(reported) < MaxReports
  /\ Arrives(s, mac)

-----------------------------------------------------------------------------
MainStep == (\E s \in Switch : Accept(s) \/ ReadDigest(s) \/ ReadEnd(s))
            \/ DispatchInput \/ InitDone
ThreadStep(t) == TakeJob(t) \/ InputRemove(t) \/ OutputRemove(t) \/ OutputWrite(t)
Process == MainStep \/ (\E t \in Thread : ThreadStep(t))
           \/ (\E t \in Thread \union {Main} : send_p4_msg(t))
External == \E s \in Switch :
  Connect(s) \/ Leave(s) \/ \E mac \in Mac : Report(s, mac)

Next == process = "running" /\ (Process \/ External)

Spec == Init /\ [][Next]_vars

\* No thread stops for good while it can go on, the main loop serves every ready
\* descriptor in its turn.  Nothing makes a switch connect, leave or report.
Running(A) == process = "running" /\ A
FairSpec ==
  /\ Spec
  /\ WF_vars(Running(MainStep))
  /\ \A s \in Switch : WF_vars(Running(ReadDigest(s)))
  /\ \A t \in Thread : WF_vars(Running(ThreadStep(t)))
  /\ \A t \in Thread \union {Main} : WF_vars(Running(send_p4_msg(t)))

-----------------------------------------------------------------------------
Connected == {s \in Switch : link[s] # "down"}

\* Where message n is, each place as often as it is there.
Places(n) ==
  Cardinality({i \in DOMAIN output_queue : output_queue[i] = n})
  + Cardinality({t \in Thread : job[t].kind = "output_processor" /\ held[t] = n})
  + Cardinality({p \in Switch \X (1 .. Len(sent)) :
                   p[2] <= Len(toSwitch[p[1]]) /\ toSwitch[p[1]][p[2]] = n})
  + (IF n \in dropped THEN 1 ELSE 0) + (IF n \in lost THEN 1 ELSE 0)

\* Whatever switches come and go, every message a program sends is written to one
\* switch, once, or is on its way there, or is one of those that met a full
\* queue or a connection whose other end has left: no thread writes a buffer
\* another one has freed.
EveryMessageInOnePlace == \A n \in DOMAIN sent : Places(n) = 1

\* Digests are handled one after the other, in the order main read them, however
\* many switches there are: the pool has no thread left for a second
\* input_processor (controller.c:100, 205-207), so no two calls of a handler, which
\* is not written to be called twice at a time, overlap.
HandledOneByOne ==
  /\ Cardinality({t \in Thread : todo[t] # <<>>}) <= 1
  /\ \A i, j \in DOMAIN handled :
       i < j /\ reported[handled[i]].switch = reported[handled[j]].switch
         => handled[i] < handled[j]

\* With one switch connected since the start, an address it would no longer
\* report is one it can forward to, so no address is broadcast for ever: dmac is
\* filled before smac (mac_controller.c:104-105), and the entry of dmac is only
\* missing if the queue was full.
KnownIsForwardable ==
  Cardinality(Connected) <= 1 =>
    \A s \in Switch : \A mac \in smac(s) :
      \/ mac \in dmac(s)
      \/ \E n \in dropped \union lost : sent[n].table = "dmac"

Trouble(s) ==
  \/ Cardinality(Connected) > 1 \/ link[s] \in {"gone", "closed"}
  \/ dropped # {} \/ lost # {} \/ refused # {} \/ process # "running"

\* An address the only switch reports is learned: the digest is read, handled and
\* answered, and both entries are applied.
ReportedIsLearned ==
  \A s \in Switch : \A mac \in Mac :
    (\E n \in DOMAIN reported : reported[n].switch = s /\ reported[n].mac = mac)
      ~> (mac \in smac(s) /\ mac \in dmac(s)) \/ Trouble(s)
==============================================================================
