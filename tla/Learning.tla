------------------------------ MODULE Learning ------------------------------
(***************************************************************************)
(* A switch that learns addresses (examples/p4_src/l2_fwd.p4) and the      *)
(* controller that teaches it (mac_controller.c), two processes at the two *)
(* ends of one connection: modules Backend and Controller.  Where one of   *)
(* them has an environment, here is the other one:                         *)
(*                                                                         *)
(*   - a message on its way to the switch is one that the controller's     *)
(*     output_processor has written;                                       *)
(*   - a digest on its way to the controller is one that the switch's      *)
(*     output_processor has written;                                       *)
(*   - a worker reports the addresses that are not in the switch's own     *)
(*     smac table.                                                         *)
(*                                                                         *)
(* Connecting and the two kinds of writing are steps of both; every other  *)
(* step is of one of them.  External are the frames, and when the          *)
(* controller's process ends.  The switch does not stop by itself, and all *)
(* messages are of the kind Messages shows the program to send.            *)
(*                                                                         *)
(* The controller is Controller's own, without the action that stands      *)
(* there for a switch's digest (Report, and its bound MaxReports); what is *)
(* of the switch has the prefix s_ where the controller has the name.      *)
(***************************************************************************)
EXTENDS Controller

CONSTANTS
  Cell, Worker, NULL,   \* the switch, see Backend
  MaxMsgs,              \* bound: messages the controller writes
  MaxDigests            \* bound: digests each worker creates

\* Of the switch: the variables of Backend.
VARIABLES
  unused, s_input_queue, s_output_queue, s_held, content, pc, s_main, shutdown,
  peer, socket, s_sent, taken, applied, created, written, s_process

\* about[w]: the addresses that worker w has reported, in its order.
VARIABLE about

switch == <<unused, s_input_queue, s_output_queue, s_held, content, pc, s_main,
            shutdown, peer, socket, s_sent, taken, applied, created, written,
            s_process>>
both == <<switch, vars, about>>

\* The one switch.
It == CHOOSE s \in Switch : TRUE

S == INSTANCE Backend WITH
       input_queue <- s_input_queue, output_queue <- s_output_queue, held <- s_held,
       main <- s_main, sent <- s_sent, process <- s_process, Kinds <- {"valid"}

ASSUME LearningAssumption ==
  /\ Switch = {It} /\ Leaving = {}
  /\ IsFiniteSet(Cell) /\ NULL \notin Cell /\ Cardinality(Cell) <= P4_BG_QUEUE_SIZE
  /\ Worker \cap S!Processor = {}
  /\ MaxMsgs \in Nat /\ MaxDigests \in Nat

BothInit == S!Init /\ Init /\ about = [w \in Worker |-> <<>>]

-----------------------------------------------------------------------------
(* The tables of the switch.                                               *)

s_Applied == {sent[toSwitch[It][applied[i]]] : i \in DOMAIN applied}
s_Entries(table) ==
  {m.matches[1].value : m \in {x \in s_Applied : x.type = "ADD_TABLE_ENTRY" /\ x.table = table}}
s_smac == s_Entries("smac")
s_dmac == s_Entries("dmac")

-----------------------------------------------------------------------------
(* The two processes.                                                      *)

SwitchOnly(A) == s_process = "running" /\ A /\ UNCHANGED <<vars, about>>
ControllerOnly(A) == process = "running" /\ A /\ UNCHANGED <<switch, about>>

\* launch_backend.
BothConnect ==
  /\ s_process = "running" /\ process = "running"
  /\ S!Connect /\ Connect(It)
  /\ UNCHANGED about
Launch == SwitchOnly(S!ConnectFails \/ S!DispatchInput \/ S!DispatchOutput)

\* A frame with an address the table does not have: the action mac_learn.
Unknown(mac) == mac \notin s_smac
mac_learn(w, mac) ==
  /\ s_process = "running"
  /\ Unknown(mac)
  /\ S!CreateDigest(w)
  /\ about' = IF created' = created THEN about ELSE [about EXCEPT ![w] = Append(@, mac)]
  /\ UNCHANGED vars
Digesting(w) == SwitchOnly(S!Sending(w))

Reader == SwitchOnly(S!Reader)
Input == SwitchOnly(S!Input)

\* A digest that output_processor has written waits for the controller.
DigestArrives(d) == Arrives(It, about[d.from][d.number])
Write ==
  /\ s_process = "running"
  /\ S!Write
  /\ IF written' = written THEN UNCHANGED vars
     ELSE DigestArrives(content[s_held["output_processor"]])
  /\ UNCHANGED about
Output == Write \/ SwitchOnly(S!OutputRemove \/ S!GiveBack("output_processor"))

\* The threads of the controller; what its output_processor has written waits
\* for the switch.
ControllerMain == ControllerOnly(MainStep)
ControllerReads == ControllerOnly(ReadDigest(It))
ControllerWrites(t) ==
  /\ process = "running"
  /\ OutputWrite(t)
  /\ IF toSwitch' = toSwitch THEN UNCHANGED switch ELSE S!ControllerSends("valid")
  /\ UNCHANGED about
ControllerThread(t) ==
  ControllerWrites(t) \/ ControllerOnly(TakeJob(t) \/ InputRemove(t) \/ OutputRemove(t))
ControllerSends(t) == ControllerOnly(send_p4_msg(t))

\* The controller's process ends, at any moment.  What it has written still
\* arrives, unless there was something it had not read.
ControllerEnds(how) ==
  /\ process = "running" /\ s_process = "running"
  /\ how = "reset" => toController[It] # <<>>
  /\ S!ControllerLeaves(how)
  /\ process' = "killed"
  /\ UNCHANGED <<queues, threads, main, links, history, about>>

BothNext ==
  \/ BothConnect \/ Launch
  \/ \E w \in Worker : Digesting(w) \/ \E mac \in Mac : mac_learn(w, mac)
  \/ Reader \/ Input \/ Output
  \/ ControllerMain \/ \E t \in Thread : ControllerThread(t)
  \/ \E t \in Thread \union {Main} : ControllerSends(t)
  \/ \E how \in {"closed", "reset"} : ControllerEnds(how)

BothSpec == BothInit /\ [][BothNext]_both

\* The fairness of Backend and of Controller.
BothFairSpec ==
  /\ BothSpec
  /\ WF_both(BothConnect \/ Launch) /\ WF_both(Reader) /\ WF_both(Input) /\ WF_both(Output)
  /\ \A w \in Worker : WF_both(Digesting(w))
  /\ WF_both(ControllerMain) /\ WF_both(ControllerReads)
  /\ \A t \in Thread : WF_both(ControllerThread(t))
  /\ \A t \in Thread \union {Main} : WF_both(ControllerSends(t))

-----------------------------------------------------------------------------
ItsElements(s) == {s[i] : i \in DOMAIN s}

\* At no moment, not even after the controller's process has ended between two
\* messages, does the switch know an address it cannot forward to, which would be
\* broadcast to for ever: the order in which mac_learn_digest sends survives two
\* queues, two threads, the connection, two more queues and threads
\* (mac_controller.c:104-105).  An exception is an address whose message for
\* dmac met a full queue.
TablesForwardWhatTheyKnow ==
  \A mac \in s_smac :
    \/ mac \in s_dmac
    \/ \E n \in dropped : sent[n].table = "dmac" /\ sent[n].matches[1].value = mac

\* The connection was never made, one of the processes has ended, or a queue of
\* the controller was full.
BothTrouble ==
  \/ socket = "none" /\ s_main = "serving"
  \/ s_process # "running" \/ process # "running"
  \/ dropped # {} \/ refused # {}

\* An address that a worker reports gets into both tables: through a cell, the
\* switch's output queue, the connection, the controller's main thread, its input
\* queue, the handler, its output queue, the connection, a cell again and the
\* switch's input queue.
AddressLearned ==
  \A w \in Worker, mac \in Mac :
    mac \in ItsElements(about[w]) ~> (mac \in s_smac /\ mac \in s_dmac) \/ BothTrouble

\* What the controller has written is applied, even if the controller has ended
\* since, unless it ended with a reset or the switch ends too.
EveryMessageApplied ==
  \A n \in 1 .. MaxMsgs :
    n <= Len(toSwitch[It]) ~>
      n \in ItsElements(applied) \/ peer \in {"reset", "gone"} \/ s_process # "running"

\* While the controller is there, a cell does not stay out of the pool.
EveryCellReturns ==
  \A c \in Cell : socket = "open" /\ c \notin unused ~>
    c \in unused \/ process # "running" \/ s_process # "running"
=============================================================================
