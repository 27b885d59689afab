-------------------------- MODULE Controller_proofs --------------------------
(***************************************************************************)
(* The controller process: no message is in two places or in none, digests *)
(* are handled one at a time and in order, and with one switch an address  *)
(* in its smac is in its dmac.  The invariant has these parts:             *)
(*                                                                         *)
(*   TypeOK     the numbers in the queues, the threads and the sockets are *)
(*              numbers of messages and digests there are                  *)
(*   PoolInv    jobs are dispatched and taken in turn, an output_processor *)
(*              and an input_processor for every switch, and two threads   *)
(*              are taken for the first one                                *)
(*   PlaceInv   every message is in exactly one place, and once            *)
(*   DigestInv  what main has read and will read of a switch is in order   *)
(*   OrderInv   with one switch, what is written is older than what a      *)
(*              thread holds, and that is older than what is queued        *)
(*   FirstInv   an address is added to smac only after it is to dmac, in   *)
(*              what was sent and in what every sender has still to send   *)
(*                                                                         *)
(* OrderInv and FirstInv are needed for Forwardable alone, and again in    *)
(* Forwards, where a switch running Backend is at the other end of the     *)
(* connection (module Learning).                                           *)
(***************************************************************************)
EXTENDS Learning, FiniteSetTheorems, WellFoundedInduction, TLAPS

-----------------------------------------------------------------------------
(* A step.  No invariant speaks of process, which a step of Next needs to  *)
(* be "running", nor of when a switch reports an address: they hold as     *)
(* well where the process is ended from outside and the digests come from  *)
(* Backend (module Learning).                                              *)

state == <<queues, threads, main, links, history>>

Outside ==
  \E s \in Switch : Connect(s) \/ Leave(s) \/ \E mac \in Mac : Arrives(s, mac)
Step == Process \/ Outside

\* What the process and the switches do is a Step, whenever the process runs.
LEMMA NextIsStep == [Next]_vars => [Step]_state
BY DEF Next, External, Report, vars, state, Step, Outside

-----------------------------------------------------------------------------
(* Types.                                                                  *)

\* What can be sent: a message of the two scripts, or an answer to a digest.
Message ==
  {Script[i] : i \in DOMAIN Script} \union {Startup[i] : i \in DOMAIN Startup}
    \union {fill_dmac_table(Byte(1), m) : m \in Mac}
    \union {fill_smac_table(Byte(1), m) : m \in Mac}
Sighting == [switch : Switch, mac : Mac, port : {1}]
Kinds == {"output_processor", "input_processor"}
Job == [kind : Kinds, fd : Nat]

\* Where the messages, of the numbers N, and the digests, of D, can be.
Messages(N) ==
  /\ output_queue \in Seq(N) /\ held \in [Thread -> N \union {None}]
  /\ toSwitch \in [Switch -> Seq(N)] /\ dropped \subseteq N /\ lost \subseteq N
Digests(D) ==
  input_queue \in Seq(D) /\ handled \in Seq(D) /\ toController \in [Switch -> Seq(D)]

Typed ==
  /\ sent \in Seq(Message) /\ reported \in Seq(Sighting)
  /\ todo \in [Thread \union {Main} -> Seq(Message)]
  /\ jobs \in Seq(Job) /\ job \in [Thread -> Job \union {Idle}]
  /\ main \in [at : {"select", "sleep", "init"}, switch : Switch \union {None}]
  /\ main.at = "sleep" => main.switch \in Switch
  /\ main.at = "select" => main = Accepting
  /\ link \in [Switch -> {"down", "pending", "open", "gone", "closed"}]
  /\ fd \in [Switch -> Nat]

TypeOK == Typed /\ Messages(DOMAIN sent) /\ Digests(DOMAIN reported)

\* What the handler sends for a digest of the data plane.
LEMMA Answer ==
  ASSUME NEW mac, NEW port
  PROVE  dhf(Digest("mac_learn_digest", <<Param("", mac, 48), Param("", port, 9)>>))
           = <<fill_dmac_table(Byte(port), mac), fill_smac_table(Byte(port), mac)>>
<1>1. PICK d : d = Digest("mac_learn_digest", <<Param("", mac, 48), Param("", port, 9)>>)
  OBVIOUS
<1>2. d.type = "DIGEST" /\ d.table = "mac_learn_digest"
      /\ d.params[1].value = mac /\ d.params[2].value = port
  BY <1>1 DEF Digest, Param
<1>3. dhf(d) = mac_learn_digest(d.params)
  BY <1>2 DEF dhf
<1> QED BY <1>1, <1>2, <1>3 DEF mac_learn_digest

\* A set of numbers has a least one.
LEMMA LeastNumber ==
  ASSUME NEW X, \A v \in X : v \in Nat, X # {}
  PROVE  \E x \in X : \A y \in X : x <= y
<1> DEFINE L == {p \in Nat \X Nat : p[1] < p[2]}
<1>1. IsWellFoundedOn(L, Nat)
  BY NatLessThanWellFounded DEF OpToRel
<1>2. PICK x \in X : \A y \in X : ~(<<y, x>> \in L)
  <2>1. X \subseteq Nat
    OBVIOUS
  <2> HIDE DEF L
  <2> QED BY <1>1, <2>1, WFMin
<1>3. \A v, w \in Nat : ~(<<v, w>> \in L) => w <= v
  OBVIOUS
<1> HIDE DEF L
<1> QED BY <1>2, <1>3, Zenon

\* There is a free descriptor for a switch that has none, and one is found.
LEMMA FreeDescriptor ==
  ASSUME Typed, NEW s \in Switch, link[s] = "pending"
  PROVE  LowestFree \in Nat
<1>1. PICK U \in SUBSET Switch : U = {x \in Switch : link[x] \in {"open", "gone"}}
  OBVIOUS
<1>2. PICK D : D = {fd[x] : x \in U}
  OBVIOUS
<1>3. D = InUse
  BY <1>1, <1>2 DEF InUse
<1>4. PICK n \in Nat : n = Cardinality(Switch)
  BY ControllerAssumption, FS_CardinalityType
<1>5. IsFiniteSet(D) /\ Cardinality(D) \in Nat /\ Cardinality(D) < n
  <2>1. s \notin U
    BY <1>1
  <2>2. IsFiniteSet(Switch) /\ IsFiniteSet(U) /\ IsFiniteSet(U \union {s})
        /\ Cardinality(U) \in Nat /\ Cardinality(U \union {s}) = Cardinality(U) + 1
        /\ Cardinality(U \union {s}) <= n
    <3>1. IsFiniteSet(Switch) /\ IsFiniteSet(U)
      BY ControllerAssumption, FS_Subset
    <3>2. U \union {s} \in SUBSET Switch
      OBVIOUS
    <3>3. IsFiniteSet(U \union {s}) /\ Cardinality(U \union {s}) <= Cardinality(Switch)
      BY <3>1, <3>2, FS_Subset
    <3>4. Cardinality(U \union {s}) = Cardinality(U) + 1 /\ Cardinality(U) \in Nat
      BY <2>1, <3>1, FS_AddElement, FS_CardinalityType
    <3> QED BY <1>4, <3>1, <3>3, <3>4
  <2>3. PICK f : f = [x \in U |-> fd[x]]
    OBVIOUS
  <2>4. f \in Surjection(U, D)
    BY <1>2, <2>3 DEF Surjection
  <2>5. IsFiniteSet(D) /\ Cardinality(D) <= Cardinality(U)
    BY <2>2, <2>4, FS_Surjection
  <2> QED BY <2>2, <2>5, FS_CardinalityType
<1>6. PICK F : F = {f \in 1 .. n : f \notin D}
  OBVIOUS
<1>7. F # {}
  <2>1. SUFFICES ASSUME F = {} PROVE FALSE
    OBVIOUS
  <2>2. 1 .. n \in SUBSET D
    BY <1>6, <2>1
  <2>3. Cardinality(1 .. n) <= Cardinality(D)
    BY <1>5, <2>2, FS_Subset
  <2>4. Cardinality(1 .. n) = n
    BY FS_Interval
  <2> QED BY <1>5, <2>3, <2>4
<1>8. \A v \in F : v \in Nat
  BY <1>6
<1>9. PICK x \in F : \A y \in F : x <= y
  BY <1>7, <1>8, LeastNumber
<1>10. x \in 1 .. n /\ x \notin D /\ \A g \in 1 .. x - 1 : g \in D
  BY <1>6, <1>8, <1>9
<1>11. LowestFree \in 1 .. n
  BY <1>3, <1>4, <1>10 DEF LowestFree
<1> QED BY <1>11

\* The scripts are of messages, and the one of the start fits into the queue.
LEMMA Scripts ==
  /\ Script \in Seq(Message) /\ Startup \in Seq(Message) /\ Len(Startup) <= Slots
<1>1. PICK A : A = {Script[i] : i \in DOMAIN Script}
  OBVIOUS
<1>2. PICK B : B = {Startup[i] : i \in DOMAIN Startup}
  OBVIOUS
<1>3. Script \in Seq(A) /\ Startup \in Seq(B)
  BY <1>1, <1>2, ControllerAssumption
<1>4. A \subseteq Message /\ B \subseteq Message
  BY <1>1, <1>2 DEF Message
<1>5. Script \in Seq(Message) /\ Startup \in Seq(Message)
  BY <1>3, <1>4
<1> QED BY <1>5, ControllerAssumption DEF Slots

\* Everything has its type at the beginning.
LEMMA TypeInit == Init => TypeOK
<1> SUFFICES ASSUME Init PROVE TypeOK
  OBVIOUS
<1>1. Script \in Seq(Message) /\ Startup \in Seq(Message)
  BY Scripts
<1>2. Typed
  BY <1>1 DEF Init, Typed, Accepting, Idle
<1>3. Messages(DOMAIN sent) /\ Digests(DOMAIN reported)
  BY <1>1 DEF Init, Messages, Digests
<1> QED BY <1>2, <1>3 DEF TypeOK

\* More of them are no harm.
LEMMA MoreMessages ==
  ASSUME NEW N, NEW M, N \subseteq M, Messages(N)
  PROVE  Messages(M)
BY DEF Messages

\* Digests keep their places' types when more are reported.
LEMMA MoreDigests ==
  ASSUME NEW D, NEW E, D \subseteq E, Digests(D)
  PROVE  Digests(E)
BY DEF Digests

\* A step leaves everything but messages and digests its type.
LEMMA TypedStep ==
  ASSUME TypeOK, [Step]_state
  PROVE  Typed'
<1> USE DEF Typed
<1>0. Typed
  BY DEF TypeOK
<1>1. ASSUME NEW t \in Thread \union {Main}, send_p4_msg(t) PROVE Typed'
  <2>1. todo[t] \in Seq(Message) /\ todo[t] # <<>>
    BY <1>0, <1>1 DEF send_p4_msg
  <2>2. Head(todo[t]) \in Message /\ Tail(todo[t]) \in Seq(Message)
    BY <2>1
  <2>3. sent' \in Seq(Message) /\ todo' \in [Thread \union {Main} -> Seq(Message)]
    BY <1>0, <1>1, <2>2 DEF send_p4_msg
  <2> QED BY <1>0, <1>1, <2>3 DEF send_p4_msg, links
<1>2. ASSUME NEW s \in Switch, Accept(s) PROVE Typed'
  <2>1. LowestFree \in Nat
    BY <1>0, <1>2, FreeDescriptor DEF Accept
  <2>2. jobs' \in Seq(Job)
    BY <1>0, <1>2, <2>1 DEF Accept, Behind, Job, Kinds
  <2> QED BY <1>0, <1>2, <2>1, <2>2 DEF Accept, history
<1>3. ASSUME DispatchInput PROVE Typed'
  <2>1. jobs' \in Seq(Job)
    BY <1>0, <1>3 DEF DispatchInput, Behind, Job, Kinds
  <2>2. todo' \in [Thread \union {Main} -> Seq(Message)]
    BY <1>0, <1>3, Scripts DEF DispatchInput
  <2>3. main' = [at |-> "init", switch |-> main.switch]
    BY <1>0, <1>3 DEF DispatchInput
  <2> QED BY <1>0, <1>3, <2>1, <2>2, <2>3 DEF DispatchInput, links, history
<1>4. ASSUME InitDone PROVE Typed'
  BY <1>0, <1>4 DEF InitDone, threads, links, history, Accepting
<1>5. ASSUME NEW s \in Switch, ReadDigest(s) PROVE Typed'
  BY <1>0, <1>5 DEF ReadDigest, threads
<1>6. ASSUME NEW s \in Switch, ReadEnd(s) PROVE Typed'
  BY <1>0, <1>6 DEF ReadEnd, threads, history
<1>7. ASSUME NEW t \in Thread, TakeJob(t) PROVE Typed'
  BY <1>0, <1>7 DEF TakeJob, links, history
<1>8. ASSUME NEW t \in Thread, InputRemove(t) PROVE Typed'
  <2>1. PICK n \in DOMAIN reported : n = Head(input_queue)
    <3>1. PICK D : D = DOMAIN reported
      OBVIOUS
    <3>2. input_queue # <<>>
      BY <1>8 DEF InputRemove, In!Take
    <3>3. input_queue \in Seq(D)
      BY <3>1 DEF TypeOK, Digests
    <3> QED BY <3>1, <3>2, <3>3
  <2>2. reported[n] \in Sighting
    BY <1>0
  <2>3. PICK m \in Mac : m = reported[n].mac /\ reported[n].port = 1
    BY <2>2 DEF Sighting
  <2>4. PICK a : a = <<fill_dmac_table(Byte(1), m), fill_smac_table(Byte(1), m)>>
    OBVIOUS
  <2>5. todo' = [todo EXCEPT ![t] = a]
    BY <1>8, <2>1, <2>3, <2>4, Answer DEF InputRemove
  <2>6. a \in Seq(Message)
    BY <2>4 DEF Message
  <2> QED BY <1>0, <1>8, <2>5, <2>6, ZenonT(60) DEF InputRemove, links
<1>9. ASSUME NEW t \in Thread, OutputRemove(t) PROVE Typed'
  BY <1>0, <1>9 DEF OutputRemove, links, history
<1>10. ASSUME NEW t \in Thread, OutputWrite(t) PROVE Typed'
  BY <1>0, <1>10 DEF OutputWrite
<1>11. ASSUME NEW s \in Switch, Connect(s) \/ Leave(s) PROVE Typed'
  BY <1>0, <1>11 DEF Connect, Leave, threads, history
<1>12. ASSUME NEW s \in Switch, NEW mac \in Mac, Arrives(s, mac) PROVE Typed'
  <2>1. [switch |-> s, mac |-> mac, port |-> 1] \in Sighting
    BY DEF Sighting
  <2>2. reported' \in Seq(Sighting)
    BY <1>0, <1>12, <2>1 DEF Arrives
  <2> QED BY <1>0, <1>12, <2>2 DEF Arrives, threads
<1>13. CASE UNCHANGED state
  BY <1>0, <1>13 DEF state, threads, links, history
<1> QED BY <1>1, <1>2, <1>3, <1>4, <1>5, <1>6, <1>7, <1>8, <1>9, <1>10, <1>11, <1>12, <1>13
        DEF Step, Process, MainStep, ThreadStep, Outside

\* A step puts only messages that were sent into the messages' places.
LEMMA MessagesStep ==
  ASSUME TypeOK, [Step]_state
  PROVE  Messages(DOMAIN sent)'
<1> USE DEF Messages
<1>0. Typed /\ Messages(DOMAIN sent)
  BY DEF TypeOK
<1>1. ASSUME NEW t \in Thread \union {Main}, send_p4_msg(t) PROVE Messages(DOMAIN sent)'
  <2>1. PICK N : N = DOMAIN sent'
    OBVIOUS
  <2>2. Head(todo[t]) \in Message
    BY <1>0, <1>1 DEF send_p4_msg, Typed
  <2>3. DOMAIN sent \subseteq N /\ Len(sent) + 1 \in N
    BY <1>0, <1>1, <2>1, <2>2 DEF send_p4_msg, Typed
  <2>4. Messages(N)
    BY <1>0, <2>3, MoreMessages
  <2>5. output_queue' \in Seq(N) /\ dropped' \subseteq N
    BY <1>1, <2>3, <2>4 DEF send_p4_msg, Out!Put
  <2> QED BY <1>1, <2>1, <2>4, <2>5 DEF send_p4_msg, links
<1>2. ASSUME NEW t \in Thread, OutputRemove(t) PROVE Messages(DOMAIN sent)'
  BY <1>0, <1>2 DEF OutputRemove, Out!RemoveOldest, Out!Take, links, history
<1>3. ASSUME NEW t \in Thread, OutputWrite(t) PROVE Messages(DOMAIN sent)'
  <2>1. held[t] \in DOMAIN sent
    BY <1>0, <1>3 DEF OutputWrite
  <2>2. toSwitch' \in [Switch -> Seq(DOMAIN sent)] /\ lost' \subseteq DOMAIN sent
    <3>1. PICK N : N = DOMAIN sent
      OBVIOUS
    <3>2. PICK n \in N : n = held[t]
      BY <2>1, <3>1
    <3>3. /\ toSwitch' = toSwitch \/ \E s \in Switch : toSwitch' = [toSwitch EXCEPT ![s] = Append(@, n)]
          /\ lost' = lost \/ lost' = lost \union {n}
      BY <1>3, <3>2 DEF OutputWrite, Owner
    <3>4. toSwitch \in [Switch -> Seq(N)] /\ lost \subseteq N
      BY <1>0, <3>1
    <3>5. lost' \subseteq N
      BY <3>3, <3>4
    <3>6. toSwitch' \in [Switch -> Seq(N)]
      <4>1. CASE toSwitch' = toSwitch
        BY <3>4, <4>1
      <4>2. ASSUME NEW s \in Switch, toSwitch' = [toSwitch EXCEPT ![s] = Append(@, n)]
            PROVE  toSwitch' \in [Switch -> Seq(N)]
        <5>1. Append(toSwitch[s], n) \in Seq(N)
          BY <3>4
        <5> QED BY <3>4, <4>2, <5>1
      <4> QED BY <3>3, <4>1, <4>2
    <3> QED BY <3>1, <3>5, <3>6
  <2> QED BY <1>0, <1>3, <2>2 DEF OutputWrite, queues, Freed
<1>4. ASSUME UNCHANGED <<sent, output_queue, held, toSwitch, dropped, lost>>
      PROVE  Messages(DOMAIN sent)'
  BY <1>0, <1>4
<1>5. ASSUME [MainStep \/ Outside \/ \E t \in Thread : TakeJob(t) \/ InputRemove(t)]_state
      PROVE  UNCHANGED <<sent, output_queue, held, toSwitch, dropped, lost>>
  BY <1>5 DEF MainStep, Outside, TakeJob, InputRemove, Accept, DispatchInput, InitDone,
        ReadDigest, ReadEnd, Connect, Leave, Arrives, state, queues, threads, links, history
<1> QED BY <1>1, <1>2, <1>3, <1>4, <1>5 DEF Step, Process, ThreadStep

\* A step puts only digests that were reported into theirs.
LEMMA DigestsStep ==
  ASSUME TypeOK, [Step]_state
  PROVE  Digests(DOMAIN reported)'
<1> USE DEF Digests
<1>0. Typed /\ Digests(DOMAIN reported)
  BY DEF TypeOK
<1>1. ASSUME NEW s \in Switch, ReadDigest(s) PROVE Digests(DOMAIN reported)'
  <2>1. PICK D : D = DOMAIN reported
    OBVIOUS
  <2>2. toController[s] \in Seq(D) /\ toController[s] # <<>>
    BY <1>0, <1>1, <2>1 DEF ReadDigest
  <2>3. Head(toController[s]) \in D /\ Tail(toController[s]) \in Seq(D)
    BY <2>2
  <2>4. input_queue' \in Seq(D)
    <3>1. PICK n \in D : n = Head(toController[s])
      BY <2>3
    <3>2. input_queue' = input_queue \/ input_queue' = Append(input_queue, n)
      BY <1>1, <3>1 DEF ReadDigest, In!Put
    <3>3. input_queue \in Seq(D)
      BY <1>0, <2>1
    <3> QED BY <3>2, <3>3
  <2>5. toController' \in [Switch -> Seq(D)]
    BY <1>0, <1>1, <2>1, <2>3 DEF ReadDigest
  <2>6. reported' = reported /\ handled' = handled
    BY <1>1 DEF ReadDigest
  <2>7. handled \in Seq(D)
    BY <1>0, <2>1
  <2>8. DOMAIN reported' = D
    BY <2>1, <2>6
  <2> QED BY <2>4, <2>5, <2>6, <2>7, <2>8
<1>2. ASSUME NEW t \in Thread, InputRemove(t) PROVE Digests(DOMAIN reported)'
  <2>1. PICK D : D = DOMAIN reported
    OBVIOUS
  <2>2. /\ input_queue # <<>> /\ input_queue' = Tail(input_queue)
        /\ handled' = Append(handled, Head(input_queue))
        /\ toController' = toController /\ reported' = reported
    BY <1>2 DEF InputRemove, In!Take, links
  <2>3. input_queue \in Seq(D) /\ handled \in Seq(D) /\ toController \in [Switch -> Seq(D)]
    BY <1>0, <2>1
  <2>4. Tail(input_queue) \in Seq(D) /\ Append(handled, Head(input_queue)) \in Seq(D)
    BY <2>2, <2>3
  <2>5. /\ input_queue' \in Seq(D) /\ handled' \in Seq(D)
        /\ toController' \in [Switch -> Seq(D)]
    BY <2>2, <2>3, <2>4
  <2> QED BY <2>1, <2>2, <2>5
<1>3. ASSUME NEW s \in Switch, NEW mac \in Mac, Arrives(s, mac) PROVE Digests(DOMAIN reported)'
  <2>1. PICK D : D = DOMAIN reported'
    OBVIOUS
  <2>2. DOMAIN reported \subseteq D /\ Len(reported) + 1 \in D
    <3>1. [switch |-> s, mac |-> mac, port |-> 1] \in Sighting
      BY DEF Sighting
    <3>2. PICK x \in Sighting : x = [switch |-> s, mac |-> mac, port |-> 1]
      BY <3>1
    <3>3. reported' = Append(reported, x) /\ reported \in Seq(Sighting)
      BY <1>0, <1>3, <3>2 DEF Arrives, Typed
    <3> QED BY <2>1, <3>3
  <2>3. Digests(D)
    BY <1>0, <2>2, MoreDigests
  <2>4. toController' \in [Switch -> Seq(D)]
    BY <1>3, <2>2, <2>3 DEF Arrives
  <2> QED BY <1>3, <2>1, <2>3, <2>4 DEF Arrives, queues
<1>4. ASSUME UNCHANGED <<reported, input_queue, handled, toController>>
      PROVE  Digests(DOMAIN reported)'
  BY <1>0, <1>4
<1>5. ASSUME NEW s \in Switch, Accept(s) \/ ReadEnd(s) \/ Connect(s) \/ Leave(s)
      PROVE  UNCHANGED <<reported, input_queue, handled, toController>>
  BY <1>5 DEF Accept, ReadEnd, Connect, Leave, queues, links, history
<1>6. ASSUME DispatchInput \/ InitDone \/ UNCHANGED state
      PROVE  UNCHANGED <<reported, input_queue, handled, toController>>
  BY <1>6 DEF DispatchInput, InitDone, state, queues, links, history
<1>7. ASSUME NEW t \in Thread \union {Main}, send_p4_msg(t)
      PROVE  UNCHANGED <<reported, input_queue, handled, toController>>
  BY <1>7 DEF send_p4_msg, links
<1>8. ASSUME NEW t \in Thread, TakeJob(t) \/ OutputRemove(t) \/ OutputWrite(t)
      PROVE  UNCHANGED <<reported, input_queue, handled, toController>>
  BY <1>8 DEF TakeJob, OutputRemove, OutputWrite, queues, links, history
<1> QED BY <1>1, <1>2, <1>3, <1>4, <1>5, <1>6, <1>7, <1>8
        DEF Step, Process, MainStep, ThreadStep, Outside

\* Every step keeps the types.
LEMMA TypeStep == TypeOK /\ [Step]_state => TypeOK'
BY TypedStep, MessagesStep, DigestsStep DEF TypeOK

-----------------------------------------------------------------------------
(* The pool: jobs are dispatched, and taken, in turn.                      *)

KindOf(n) == IF n % 2 = 1 THEN "output_processor" ELSE "input_processor"

\* k threads have a job, and k + Len(jobs) were dispatched.
Dispatched(k) ==
  /\ \A t \in Thread : IF t <= k THEN job[t].kind = KindOf(t) ELSE job[t] = Idle
  /\ \A i \in DOMAIN jobs : jobs[i].kind = KindOf(k + i)
  /\ main.at = "sleep" <=> (k + Len(jobs)) % 2 = 1

\* Switches never go back to "down": at most one has ever connected, and none has
\* been accepted.
Alone == \A s, r \in Connected : s = r
NoneAccepted == \A s \in Switch : link[s] \in {"down", "pending"}

\* Two jobs are dispatched for every switch.
Few(k) ==
  /\ NoneAccepted => k + Len(jobs) = 0
  /\ Alone => k + Len(jobs) <= 2

PoolInv ==
  /\ \E k \in 0 .. Threads : Dispatched(k) /\ Few(k)
  /\ \A t \in Thread : todo[t] # <<>> => job[t].kind = "input_processor"
  /\ \A t \in Thread : held[t] # None => job[t].kind = "output_processor"

\* No job is dispatched at the beginning.
LEMMA PoolInit == Init => PoolInv
<1> SUFFICES ASSUME Init PROVE PoolInv
  OBVIOUS
<1>1. Dispatched(0)
  BY DEF Init, Dispatched, Thread, Accepting
<1>2. 0 \in 0 .. Threads /\ Few(0)
  BY ControllerAssumption DEF Init, Few
<1> QED BY <1>1, <1>2 DEF Init, PoolInv, Thread, Main

\* No switch goes back to a connection's earlier state, so that what holds of few
\* connected switches held before.
LEMMA LinksGrow ==
  ASSUME TypeOK, [Step]_state
  PROVE  /\ \A s \in Switch : /\ link[s] # "down" => link'[s] # "down"
                              /\ link[s] \notin {"down", "pending"}
                                   => link'[s] \notin {"down", "pending"}
         /\ NoneAccepted' => NoneAccepted
         /\ Alone' => Alone
<1>1. /\ link \in [Switch -> {"down", "pending", "open", "gone", "closed"}]
      /\ main.at = "sleep" => main.switch \in Switch
  BY DEF TypeOK, Typed
<1>2. \/ link' = link
      \/ \E s \in Switch : Accept(s) \/ ReadEnd(s) \/ Connect(s) \/ Leave(s)
  BY DEF Step, Process, MainStep, ThreadStep, Outside, DispatchInput, InitDone, ReadDigest,
         TakeJob, InputRemove, OutputRemove, OutputWrite, send_p4_msg, Arrives, links, state
<1>3. \A s \in Switch : /\ link[s] # "down" => link'[s] # "down"
                        /\ link[s] \notin {"down", "pending"}
                             => link'[s] \notin {"down", "pending"}
  BY <1>1, <1>2 DEF Accept, ReadEnd, Connect, Leave
<1>4. NoneAccepted' => NoneAccepted
  BY <1>3 DEF NoneAccepted
<1>5. Alone' => Alone
  BY <1>3 DEF Alone, Connected
<1> QED BY <1>3, <1>4, <1>5

\* One more job behind the others.
LEMMA DispatchStep ==
  ASSUME TypeOK, NEW k \in 0 .. Threads, Dispatched(k), NEW j \in Job, jobs' = Append(jobs, j),
         j.kind = KindOf(k + Len(jobs) + 1), job' = job,
         main'.at = "sleep" <=> main.at # "sleep"
  PROVE  Dispatched(k)'
<1>1. k \in Nat /\ Len(jobs) \in Nat /\ jobs \in Seq(Job)
  BY ControllerAssumption DEF TypeOK, Typed
<1>2. /\ Len(jobs') = Len(jobs) + 1 /\ DOMAIN jobs' = 1 .. Len(jobs')
      /\ jobs'[Len(jobs) + 1] = j /\ \A i \in 1 .. Len(jobs) : jobs'[i] = jobs[i]
  BY <1>1
<1>3. \A i \in DOMAIN jobs' : jobs'[i].kind = KindOf(k + i)
  <2>1. ASSUME NEW i \in DOMAIN jobs' PROVE jobs'[i].kind = KindOf(k + i)
    <3>1. CASE i = Len(jobs) + 1
      <4>1. k + i = k + Len(jobs) + 1
        BY <1>1, <3>1
      <4> QED BY <1>2, <3>1, <4>1
    <3>2. CASE i # Len(jobs) + 1
      <4>1. i \in 1 .. Len(jobs)
        BY <1>1, <1>2, <3>2
      <4> QED BY <1>1, <1>2, <4>1 DEF Dispatched
    <3> QED BY <3>1, <3>2
  <2> QED BY <2>1
<1>4. main'.at = "sleep" <=> (k + Len(jobs')) % 2 = 1
  <2>1. main.at = "sleep" <=> (k + Len(jobs)) % 2 = 1
    BY DEF Dispatched
  <2>2. \A n \in Nat : (n + 1) % 2 = 1 <=> n % 2 # 1
    OBVIOUS
  <2>3. PICK n \in Nat : n = k + Len(jobs)
    BY <1>1
  <2>4. k + Len(jobs') = n + 1
    BY <1>1, <1>2, <2>3
  <2> QED BY <2>1, <2>2, <2>3, <2>4
<1>5. \A t \in Thread : IF t <= k THEN job'[t].kind = KindOf(t) ELSE job'[t] = Idle
  BY DEF Dispatched
<1> QED BY <1>3, <1>4, <1>5 DEF Dispatched, Thread, Idle

\* Jobs of both kinds go on to be dispatched and taken in turn (controller.c's accept
\* and threadpool.c).
LEMMA PoolStep ==
  ASSUME TypeOK, TypeOK', PoolInv, [Step]_state
  PROVE  PoolInv'
<1>0. PICK k \in 0 .. Threads : Dispatched(k) /\ Few(k)
  BY DEF PoolInv
<1>11. (NoneAccepted' => NoneAccepted) /\ (Alone' => Alone)
  BY LinksGrow
<1>12. jobs' = jobs => Few(k)'
  BY <1>0, <1>11 DEF Few
<1>10. k \in Nat /\ Len(jobs) \in Nat /\ jobs \in Seq(Job) /\ Threads \in Nat
  BY ControllerAssumption DEF TypeOK, Typed
<1>1. ASSUME NEW s \in Switch, Accept(s) PROVE PoolInv'
  <2>1. PICK j \in Job : j = [kind |-> "output_processor", fd |-> LowestFree]
    BY <1>1, FreeDescriptor DEF Accept, Job, Kinds, TypeOK
  <2>2. main.at = "select" /\ main'.at = "sleep" /\ jobs' = Append(jobs, j)
        /\ UNCHANGED <<job, held, todo>>
    BY <1>1, <2>1 DEF Accept, Behind, Accepting
  <2>3. (k + Len(jobs)) % 2 # 1
    BY <1>0, <2>2 DEF Dispatched
  <2>4. j.kind = KindOf(k + Len(jobs) + 1)
    <3>1. \A n \in Nat : n % 2 # 1 => (n + 1) % 2 = 1
      OBVIOUS
    <3> QED BY <1>10, <2>1, <2>3, <3>1 DEF KindOf
  <2>5. Dispatched(k)'
    BY <1>0, <2>2, <2>4, DispatchStep
  <2>6. Few(k)'
    <3>1. link[s] = "pending" /\ link'[s] = "open"
      BY <1>1 DEF Accept, TypeOK, Typed
    <3>2. Alone' => NoneAccepted
      <4>1. \A r \in Switch : link[r] # "down" => link'[r] # "down"
        BY LinksGrow
      <4> QED BY <3>1, <4>1 DEF Alone, Connected, NoneAccepted
    <3>3. ~NoneAccepted'
      BY <3>1 DEF NoneAccepted
    <3>4. Len(jobs') = Len(jobs) + 1
      BY <1>10, <2>2
    <3> QED BY <1>0, <1>10, <3>2, <3>3, <3>4 DEF Few
  <2> QED BY <2>2, <2>5, <2>6 DEF PoolInv
<1>2. ASSUME DispatchInput PROVE PoolInv'
  <2>1. main.at = "sleep" /\ main \in [at : {"select", "sleep", "init"}, switch : Switch \union {None}]
        /\ main.switch \in Switch /\ fd \in [Switch -> Nat]
    BY <1>2 DEF DispatchInput, TypeOK, Typed
  <2>2. PICK j \in Job : j = [kind |-> "input_processor", fd |-> fd[main.switch]]
    BY <2>1 DEF Job, Kinds
  <2>3. main'.at = "init"
    BY <1>2, <2>1 DEF DispatchInput
  <2>4. jobs' = Append(jobs, j) /\ UNCHANGED <<job, held>> /\ todo' = [todo EXCEPT ![Main] = Script]
    BY <1>2, <2>2 DEF DispatchInput, Behind
  <2>5. (k + Len(jobs)) % 2 = 1
    BY <1>0, <2>1 DEF Dispatched
  <2>6. j.kind = KindOf(k + Len(jobs) + 1)
    <3>1. \A n \in Nat : n % 2 = 1 => (n + 1) % 2 # 1
      OBVIOUS
    <3> QED BY <1>10, <2>2, <2>5, <3>1 DEF KindOf
  <2>7. Dispatched(k)'
    BY <1>0, <2>1, <2>3, <2>4, <2>6, DispatchStep
  <2>8. \A t \in Thread : todo'[t] = todo[t]
    BY <2>4 DEF Thread, Main, TypeOK, Typed
  <2>9. Few(k)'
    <3>1. Len(jobs') = Len(jobs) + 1
      BY <1>10, <2>4
    <3>2. \A n \in Nat : n % 2 = 1 => n # 0 /\ n # 2
      OBVIOUS
    <3>3. k + Len(jobs) # 0 /\ k + Len(jobs) # 2
      BY <1>10, <2>5, <3>2
    <3> QED BY <1>0, <1>10, <1>11, <3>1, <3>3 DEF Few
  <2> QED BY <2>4, <2>7, <2>8, <2>9 DEF PoolInv
<1>3. ASSUME NEW t \in Thread, TakeJob(t) PROVE PoolInv'
  <2>1. /\ job[t] = Idle /\ jobs # <<>> /\ \A u \in 1 .. t - 1 : job[u] # Idle
        /\ job' = [job EXCEPT ![t] = Head(jobs)] /\ jobs' = Tail(jobs)
        /\ UNCHANGED <<held, todo, main>>
    BY <1>3 DEF TakeJob
  <2>2. t = k + 1
    <3>1. t \in Nat /\ t >= 1 /\ t <= Threads
      BY <1>10 DEF Thread
    <3>2. ~(t <= k)
      BY <1>0, <2>1 DEF Dispatched, KindOf, Idle
    <3>3. ASSUME t > k + 1 PROVE FALSE
      <4>1. k + 1 \in 1 .. t - 1 /\ k + 1 \in Thread
        BY <1>10, <3>1, <3>3 DEF Thread
      <4>2. job[k + 1] = Idle
        BY <1>0, <1>10, <4>1 DEF Dispatched
      <4> QED BY <2>1, <4>1, <4>2
    <3> QED BY <1>10, <3>1, <3>2, <3>3
  <2>3. k + 1 \in 0 .. Threads
    BY <1>10, <2>2 DEF Thread
  <2>4. Head(jobs) = jobs[1] /\ jobs[1].kind = KindOf(k + 1) /\ Len(jobs) \in Nat \ {0}
        /\ Len(jobs') = Len(jobs) - 1
        /\ \A i \in DOMAIN jobs' : i \in 1 .. Len(jobs) - 1 /\ jobs'[i] = jobs[i + 1]
    <3>1. Len(jobs) \in Nat \ {0} /\ 1 \in DOMAIN jobs /\ Head(jobs) = jobs[1]
      BY <1>10, <2>1
    <3>2. jobs[1].kind = KindOf(k + 1)
      BY <1>0, <3>1 DEF Dispatched
    <3> QED BY <1>10, <2>1, <3>1, <3>2
  <2>5. \A u \in Thread : IF u <= k + 1 THEN job'[u].kind = KindOf(u) ELSE job'[u] = Idle
    <3>1. ASSUME NEW u \in Thread
          PROVE  IF u <= k + 1 THEN job'[u].kind = KindOf(u) ELSE job'[u] = Idle
      <4>1. job'[u] = IF u = t THEN jobs[1] ELSE job[u]
        BY <2>1, <2>4 DEF TypeOK, Typed
      <4>2. u \in Nat /\ (u <= k + 1 <=> u = t \/ u <= k)
        BY <1>10, <2>2 DEF Thread
      <4>3. IF u <= k THEN job[u].kind = KindOf(u) ELSE job[u] = Idle
        BY <1>0 DEF Dispatched
      <4> QED BY <1>10, <2>2, <2>4, <4>1, <4>2, <4>3
    <3> QED BY <3>1
  <2>6. \A i \in DOMAIN jobs' : jobs'[i].kind = KindOf((k + 1) + i)
    <3>1. ASSUME NEW i \in DOMAIN jobs' PROVE jobs'[i].kind = KindOf((k + 1) + i)
      <4>1. i + 1 \in DOMAIN jobs /\ jobs'[i] = jobs[i + 1] /\ (k + 1) + i = k + (i + 1)
        BY <1>10, <2>4
      <4>2. jobs[i + 1].kind = KindOf(k + (i + 1))
        BY <1>0, <4>1 DEF Dispatched
      <4> QED BY <4>1, <4>2
    <3> QED BY <3>1
  <2>7. main'.at = "sleep" <=> ((k + 1) + Len(jobs')) % 2 = 1
    <3>1. (k + 1) + Len(jobs') = k + Len(jobs)
      BY <1>10, <2>4
    <3> QED BY <1>0, <2>1, <3>1 DEF Dispatched
  <2>8. Dispatched(k + 1)'
    BY <2>5, <2>6, <2>7 DEF Dispatched, Thread, Idle
  <2>9. \A u \in Thread : job[u].kind # "none" => job'[u] = job[u]
    BY <2>1 DEF Idle, TypeOK, Typed
  <2>10. Few(k + 1)'
    BY <1>0, <1>10, <1>11, <2>4 DEF Few
  <2> QED BY <2>1, <2>3, <2>8, <2>9, <2>10 DEF PoolInv
<1>4. ASSUME NEW t \in Thread, InputRemove(t) PROVE PoolInv'
  <2>1. /\ job[t].kind = "input_processor" /\ UNCHANGED <<held, jobs, job, main>>
        /\ \A u \in Thread : u # t => todo'[u] = todo[u]
    BY <1>4 DEF InputRemove, TypeOK, Typed
  <2>2. Dispatched(k)'
    BY <1>0, <2>1 DEF Dispatched, Thread, Idle
  <2> QED BY <1>12, <2>1, <2>2 DEF PoolInv
<1>5. ASSUME NEW t \in Thread, OutputRemove(t) \/ OutputWrite(t) PROVE PoolInv'
  <2>1. /\ job[t].kind = "output_processor" /\ UNCHANGED <<todo, jobs, job, main>>
        /\ \A u \in Thread : u # t => held'[u] = held[u]
    BY <1>5 DEF OutputRemove, OutputWrite, Out!RemoveOldest, Freed, TypeOK, Messages
  <2>2. Dispatched(k)'
    BY <1>0, <2>1 DEF Dispatched, Thread, Idle
  <2> QED BY <1>12, <2>1, <2>2 DEF PoolInv
<1>6. ASSUME NEW t \in Thread \union {Main}, send_p4_msg(t) PROVE PoolInv'
  <2>1. /\ todo[t] # <<>> /\ UNCHANGED <<held, jobs, job, main>>
        /\ \A u \in Thread : u # t => todo'[u] = todo[u]
    BY <1>6 DEF send_p4_msg, TypeOK, Typed
  <2>2. Dispatched(k)'
    BY <1>0, <2>1 DEF Dispatched, Thread, Idle
  <2> QED BY <1>12, <2>1, <2>2 DEF PoolInv
<1>7. ASSUME UNCHANGED <<held, todo, jobs, job>>, main'.at = "sleep" <=> main.at = "sleep"
      PROVE  PoolInv'
  <2>1. Dispatched(k)'
    BY <1>0, <1>7 DEF Dispatched, Thread, Idle
  <2> QED BY <1>7, <1>12, <2>1 DEF PoolInv
<1>8. ASSUME InitDone \/ UNCHANGED state PROVE PoolInv'
  BY <1>7, <1>8 DEF InitDone, state, threads, Accepting
<1>9. ASSUME NEW s \in Switch,
             ReadDigest(s) \/ ReadEnd(s) \/ Connect(s) \/ Leave(s) \/ \E mac \in Mac : Arrives(s, mac)
      PROVE  PoolInv'
  BY <1>7, <1>9 DEF ReadDigest, ReadEnd, Connect, Leave, Arrives, threads
<1> QED BY <1>1, <1>2, <1>3, <1>4, <1>5, <1>6, <1>8, <1>9
        DEF Step, Process, MainStep, ThreadStep, Outside

-----------------------------------------------------------------------------
(* The messages.                                                           *)

Queued(n) == \E i \in DOMAIN output_queue : output_queue[i] = n
Writing(n) == \E t \in Thread : held[t] = n
Written(n) == \E s \in Switch : \E i \in DOMAIN toSwitch[s] : toSwitch[s][i] = n

\* No place twice, and every number in one.
Once ==
  /\ \A i, j \in DOMAIN output_queue : i < j => output_queue[i] < output_queue[j]
  /\ \A t, u \in Thread : held[t] = held[u] /\ held[t] # None => t = u
  /\ \A s, r \in Switch : \A i \in DOMAIN toSwitch[s], j \in DOMAIN toSwitch[r] :
       toSwitch[s][i] = toSwitch[r][j] => s = r /\ i = j
Apart ==
  \A n \in DOMAIN sent :
    /\ Queued(n) \/ Writing(n) \/ Written(n) \/ n \in dropped \/ n \in lost
    /\ Queued(n) => ~Writing(n) /\ ~Written(n) /\ n \notin dropped /\ n \notin lost
    /\ Writing(n) => ~Written(n) /\ n \notin dropped /\ n \notin lost
    /\ Written(n) => n \notin dropped /\ n \notin lost
    /\ n \in dropped => n \notin lost

PlaceInv == Once /\ Apart

\* There is no message at the beginning.
LEMMA PlaceInit == Init => PlaceInv
<1> SUFFICES ASSUME Init PROVE PlaceInv
  OBVIOUS
<1>1. Startup \in Seq(Message)
  BY Scripts
<1>2. /\ output_queue = [i \in DOMAIN Startup |-> i] /\ sent = Startup
      /\ DOMAIN Startup = 1 .. Len(Startup) /\ Len(Startup) \in Nat
      /\ \A t \in Thread : held[t] = None
      /\ \A s \in Switch : toSwitch[s] = <<>>
      /\ dropped = {} /\ lost = {}
  BY <1>1 DEF Init
<1>3. DOMAIN output_queue = 1 .. Len(Startup) /\ \A i \in 1 .. Len(Startup) : output_queue[i] = i
  BY <1>2
<1>4. Once
  BY <1>2, <1>3 DEF Once
<1>5. ASSUME NEW n \in DOMAIN sent
      PROVE  Queued(n) /\ ~Writing(n) /\ ~Written(n)
  <2>1. n \in 1 .. Len(Startup) /\ n # None
    BY <1>2, ControllerAssumption
  <2>2. Queued(n)
    BY <1>3, <2>1 DEF Queued
  <2>3. ~Writing(n) /\ ~Written(n)
    BY <1>2, <2>1 DEF Writing, Written
  <2> QED BY <2>2, <2>3
<1>6. Apart
  BY <1>2, <1>5 DEF Apart
<1> QED BY <1>4, <1>6 DEF PlaceInv

\* A message is sent: the next number goes behind the others or is dropped.
LEMMA SendStep ==
  ASSUME TypeOK, PlaceInv, NEW t \in Thread \union {Main}, send_p4_msg(t)
  PROVE  PlaceInv'
<1>1. PICK n \in Nat : n = Len(sent) + 1
  BY DEF TypeOK, Typed
<1>2. PICK N : N = DOMAIN sent
  OBVIOUS
<1>3. /\ N = 1 .. n - 1 /\ DOMAIN sent' = N \union {n} /\ n \notin N
  <2>1. todo[t] \in Seq(Message) /\ todo[t] # <<>>
    BY DEF send_p4_msg, TypeOK, Typed
  <2>2. PICK m \in Message : m = Head(todo[t])
    BY <2>1
  <2>3. sent' = Append(sent, m) /\ sent \in Seq(Message)
    BY <2>2 DEF send_p4_msg, TypeOK, Typed
  <2> QED BY <1>1, <1>2, <2>3
<1>4. /\ output_queue \in Seq(N) /\ held \in [Thread -> N \union {None}]
      /\ toSwitch \in [Switch -> Seq(N)] /\ dropped \subseteq N /\ lost \subseteq N
  BY <1>2 DEF TypeOK, Messages
<1>5. UNCHANGED <<held, toSwitch, lost>>
  BY DEF send_p4_msg, links
<1>6. \/ output_queue' = Append(output_queue, n) /\ dropped' = dropped
      \/ output_queue' = output_queue /\ dropped' = dropped \union {n}
  BY <1>1 DEF send_p4_msg, Out!Put
<1>7. ~Queued(n) /\ ~Writing(n) /\ ~Written(n) /\ n \notin dropped /\ n \notin lost
  <2>1. n # None
    BY <1>1, ControllerAssumption
  <2> QED BY <1>3, <1>4, <2>1 DEF Queued, Writing, Written
<1>8. (\A m : Writing(m)' <=> Writing(m)) /\ (\A m : Written(m)' <=> Written(m))
  BY <1>5 DEF Writing, Written, Thread
<1>9. CASE output_queue' = Append(output_queue, n) /\ dropped' = dropped
  <2>1. /\ Len(output_queue) \in Nat /\ DOMAIN output_queue = 1 .. Len(output_queue)
        /\ DOMAIN output_queue' = 1 .. Len(output_queue) + 1
        /\ \A i \in DOMAIN output_queue : output_queue'[i] = output_queue[i] /\ output_queue[i] \in N
        /\ output_queue'[Len(output_queue) + 1] = n
    BY <1>4, <1>9
  <2>2. \A m : Queued(m)' <=> Queued(m) \/ m = n
    BY <2>1 DEF Queued
  <2>3. \A i, j \in DOMAIN output_queue' : i < j => output_queue'[i] < output_queue'[j]
    <3> SUFFICES ASSUME NEW i \in DOMAIN output_queue', NEW j \in DOMAIN output_queue', i < j
                 PROVE  output_queue'[i] < output_queue'[j]
      OBVIOUS
    <3>1. i \in DOMAIN output_queue /\ output_queue'[i] = output_queue[i] /\ output_queue[i] \in N
      BY <2>1
    <3>2. CASE j \in DOMAIN output_queue
      BY <2>1, <3>1, <3>2 DEF PlaceInv, Once
    <3>3. CASE j \notin DOMAIN output_queue
      <4>1. output_queue'[j] = n
        BY <2>1, <3>3
      <4> QED BY <1>1, <1>3, <3>1, <4>1
    <3> QED BY <3>2, <3>3
  <2>4. Once'
    BY <1>5, <2>3 DEF PlaceInv, Once, Thread
  <2>5. Apart'
    <3>1. \A m \in N : /\ Queued(m) \/ Writing(m) \/ Written(m) \/ m \in dropped \/ m \in lost
                       /\ Queued(m) => ~Writing(m) /\ ~Written(m) /\ m \notin dropped /\ m \notin lost
                       /\ Writing(m) => ~Written(m) /\ m \notin dropped /\ m \notin lost
                       /\ Written(m) => m \notin dropped /\ m \notin lost
                       /\ m \in dropped => m \notin lost
      BY <1>2 DEF PlaceInv, Apart
    <3>2. lost' = lost /\ dropped' = dropped
      BY <1>5, <1>9
    <3> QED BY <1>3, <1>7, <1>8, <2>2, <3>1, <3>2 DEF Apart
  <2> QED BY <2>4, <2>5 DEF PlaceInv
<1>10. CASE output_queue' = output_queue /\ dropped' = dropped \union {n}
  <2>1. Once'
    BY <1>5, <1>10 DEF PlaceInv, Once, Thread
  <2>2. \A m : Queued(m)' <=> Queued(m)
    BY <1>10 DEF Queued
  <2>3. Apart'
    <3>1. \A m \in N : /\ Queued(m) \/ Writing(m) \/ Written(m) \/ m \in dropped \/ m \in lost
                       /\ Queued(m) => ~Writing(m) /\ ~Written(m) /\ m \notin dropped /\ m \notin lost
                       /\ Writing(m) => ~Written(m) /\ m \notin dropped /\ m \notin lost
                       /\ Written(m) => m \notin dropped /\ m \notin lost
                       /\ m \in dropped => m \notin lost
      BY <1>2 DEF PlaceInv, Apart
    <3>2. lost' = lost /\ dropped' = dropped \union {n}
      BY <1>5, <1>10
    <3> QED BY <1>3, <1>7, <1>8, <2>2, <3>1, <3>2 DEF Apart
  <2> QED BY <2>1, <2>3 DEF PlaceInv
<1> QED BY <1>6, <1>9, <1>10

\* The oldest message is removed from the queue.
LEMMA RemoveStep ==
  ASSUME TypeOK, PlaceInv, NEW t \in Thread, OutputRemove(t)
  PROVE  PlaceInv'
<1>1. PICK N : N = DOMAIN sent
  OBVIOUS
<1>2. /\ output_queue \in Seq(N) /\ held \in [Thread -> N \union {None}]
  BY <1>1 DEF TypeOK, Messages, Typed
<1>14. \A m \in N : m \in Nat
  BY <1>1 DEF TypeOK, Typed
<1>3. PICK n \in N : n = output_queue[1] /\ output_queue # <<>> /\ n = Head(output_queue)
  <2>1. output_queue # <<>>
    BY DEF OutputRemove, Out!RemoveOldest, Out!Take
  <2>2. output_queue \in Seq(N)
    BY <1>2
  <2>3. output_queue[1] \in N /\ Head(output_queue) = output_queue[1]
    BY <2>1, <2>2
  <2> QED BY <2>1, <2>3
<1>4. /\ output_queue' = Tail(output_queue) /\ held' = [held EXCEPT ![t] = n] /\ held[t] = None
      /\ UNCHANGED <<sent, toSwitch, dropped, lost>>
  BY <1>3 DEF OutputRemove, Out!RemoveOldest, Out!Take, links, history
<1>5. /\ Len(output_queue) \in Nat \ {0} /\ DOMAIN output_queue = 1 .. Len(output_queue)
      /\ DOMAIN output_queue' = 1 .. Len(output_queue) - 1
      /\ \A i \in 1 .. Len(output_queue) - 1 : output_queue'[i] = output_queue[i + 1]
  BY <1>2, <1>3, <1>4
<1>6. n # None
  BY <1>14, ControllerAssumption
<1>7. /\ \A i, j \in DOMAIN output_queue : i < j => output_queue[i] < output_queue[j]
      /\ \A i \in DOMAIN output_queue : output_queue[i] \in Nat
  <2>1. \A i \in DOMAIN output_queue : output_queue[i] \in N
    BY <1>2
  <2>2. \A i \in DOMAIN output_queue : output_queue[i] \in Nat
    BY <1>14, <2>1
  <2> QED BY <2>2 DEF PlaceInv, Once
<1>8. Queued(n) /\ ~Writing(n) /\ ~Written(n) /\ n \notin dropped /\ n \notin lost
  <2>1. Queued(n)
    BY <1>3, <1>5 DEF Queued
  <2> QED BY <1>1, <2>1 DEF PlaceInv, Apart
<1>9. \A m \in N : Queued(m)' <=> Queued(m) /\ m # n
  <2> SUFFICES ASSUME NEW m \in N PROVE Queued(m)' <=> Queued(m) /\ m # n
    OBVIOUS
  <2>1. ASSUME Queued(m)' PROVE Queued(m) /\ m # n
    <3>1. PICK i \in 1 .. Len(output_queue) - 1 : output_queue'[i] = m
      BY <1>5, <2>1 DEF Queued
    <3>2. i + 1 \in DOMAIN output_queue /\ 1 \in DOMAIN output_queue /\ output_queue[i + 1] = m /\ 1 < i + 1
      BY <1>5, <3>1
    <3>3. output_queue[1] < output_queue[i + 1]
      BY <1>7, <3>2
    <3>4. m # n
      BY <1>3, <1>7, <3>2, <3>3
    <3> QED BY <3>2, <3>4 DEF Queued
  <2>2. ASSUME Queued(m), m # n PROVE Queued(m)'
    <3>1. PICK i \in DOMAIN output_queue : output_queue[i] = m
      BY <2>2 DEF Queued
    <3>2. i # 1
      BY <1>3, <2>2, <3>1
    <3>3. i - 1 \in 1 .. Len(output_queue) - 1 /\ (i - 1) + 1 = i
      BY <1>5, <3>1, <3>2
    <3>4. i - 1 \in DOMAIN output_queue' /\ output_queue'[i - 1] = m
      BY <1>5, <3>1, <3>3
    <3> QED BY <3>4 DEF Queued
  <2> QED BY <2>1, <2>2
<1>10. \A m \in N : Writing(m)' <=> Writing(m) \/ m = n
  <2>1. \A m \in N : m # None
    BY <1>14, ControllerAssumption
  <2>2. \A u \in Thread : held'[u] = IF u = t THEN n ELSE held[u]
    BY <1>2, <1>4
  <2> QED BY <1>4, <2>1, <2>2 DEF Writing, Thread
<1>11. \A m : Written(m)' <=> Written(m)
  BY <1>4 DEF Written
<1>12. Once'
  <2>1. \A i, j \in DOMAIN output_queue' : i < j => output_queue'[i] < output_queue'[j]
    <3> SUFFICES ASSUME NEW i \in DOMAIN output_queue', NEW j \in DOMAIN output_queue', i < j
                 PROVE  output_queue'[i] < output_queue'[j]
      OBVIOUS
    <3>1. i + 1 \in DOMAIN output_queue /\ j + 1 \in DOMAIN output_queue /\ i + 1 < j + 1
      BY <1>5
    <3> QED BY <1>5, <1>7, <3>1
  <2>2. \A u, v \in Thread : held'[u] = held'[v] /\ held'[u] # None => u = v
    <3>1. \A u \in Thread : held[u] # n
      BY <1>8 DEF Writing
    <3>2. \A u \in Thread : held'[u] = IF u = t THEN n ELSE held[u]
      BY <1>2, <1>4
    <3> QED BY <3>1, <3>2 DEF PlaceInv, Once
  <2>3. \A s, r \in Switch : \A i \in DOMAIN toSwitch[s], j \in DOMAIN toSwitch[r] :
          toSwitch[s][i] = toSwitch[r][j] => s = r /\ i = j
    BY DEF PlaceInv, Once
  <2> QED BY <1>4, <2>1, <2>2, <2>3 DEF Once, Thread
<1>13. Apart'
  <2>1. \A m \in N : /\ Queued(m) \/ Writing(m) \/ Written(m) \/ m \in dropped \/ m \in lost
                     /\ Queued(m) => ~Writing(m) /\ ~Written(m) /\ m \notin dropped /\ m \notin lost
                     /\ Writing(m) => ~Written(m) /\ m \notin dropped /\ m \notin lost
                     /\ Written(m) => m \notin dropped /\ m \notin lost
                     /\ m \in dropped => m \notin lost
    BY <1>1 DEF PlaceInv, Apart
  <2>2. lost' = lost /\ dropped' = dropped /\ DOMAIN sent' = N
    BY <1>1, <1>4
  <2> QED BY <1>8, <1>9, <1>10, <1>11, <2>1, <2>2 DEF Apart
<1> QED BY <1>12, <1>13 DEF PlaceInv

\* What a thread holds is written to a switch, or lost.
LEMMA WriteStep ==
  ASSUME TypeOK, PlaceInv, NEW t \in Thread, OutputWrite(t)
  PROVE  PlaceInv'
<1>1. PICK N : N = DOMAIN sent
  OBVIOUS
<1>2. /\ held \in [Thread -> N \union {None}] /\ toSwitch \in [Switch -> Seq(N)] /\ N \subseteq Nat
  BY <1>1 DEF TypeOK, Messages, Typed
<1>3. PICK n \in N : n = held[t] /\ n # None
  BY <1>2 DEF OutputWrite
<1>4. /\ held' = [held EXCEPT ![t] = None] /\ UNCHANGED <<sent, output_queue, dropped>>
      /\ \/ \E s \in Switch : toSwitch' = [toSwitch EXCEPT ![s] = Append(@, n)] /\ lost' = lost
         \/ toSwitch' = toSwitch /\ lost' = lost \union {n}
  BY <1>3 DEF OutputWrite, Owner, Freed, queues
<1>5. ~Queued(n) /\ Writing(n) /\ ~Written(n) /\ n \notin dropped /\ n \notin lost
  <2>1. Writing(n)
    BY <1>3 DEF Writing
  <2> QED BY <1>1, <2>1 DEF PlaceInv, Apart
<1>6. \A u \in Thread : held'[u] = IF u = t THEN None ELSE held[u]
  BY <1>2, <1>4
<1>7. \A m \in N : Writing(m)' <=> Writing(m) /\ m # n
  <2>1. \A m \in N : m # None
    BY <1>2, ControllerAssumption
  <2>2. \A u \in Thread : held[u] = n => u = t
    BY <1>3 DEF PlaceInv, Once
  <2> QED BY <1>3, <1>6, <2>1, <2>2 DEF Writing, Thread
<1>8. \A m : Queued(m)' <=> Queued(m)
  BY <1>4 DEF Queued
<1>9. /\ \A i, j \in DOMAIN output_queue' : i < j => output_queue'[i] < output_queue'[j]
      /\ \A u, v \in Thread : held'[u] = held'[v] /\ held'[u] # None => u = v
  BY <1>4, <1>6 DEF PlaceInv, Once
<1>10. \A m \in N : /\ Queued(m) \/ Writing(m) \/ Written(m) \/ m \in dropped \/ m \in lost
                    /\ Queued(m) => ~Writing(m) /\ ~Written(m) /\ m \notin dropped /\ m \notin lost
                    /\ Writing(m) => ~Written(m) /\ m \notin dropped /\ m \notin lost
                    /\ Written(m) => m \notin dropped /\ m \notin lost
                    /\ m \in dropped => m \notin lost
  BY <1>1 DEF PlaceInv, Apart
<1>11. ASSUME NEW s \in Switch, toSwitch' = [toSwitch EXCEPT ![s] = Append(@, n)], lost' = lost
       PROVE  PlaceInv'
  <2>1. PICK a \in Seq(N) : a = toSwitch[s]
    BY <1>2
  <2>2. PICK b : b = Append(a, n)
    OBVIOUS
  <2>3. \A r \in Switch : toSwitch'[r] = IF r = s THEN b ELSE toSwitch[r]
    BY <1>2, <1>11, <2>1, <2>2
  <2>4. /\ Len(a) \in Nat /\ DOMAIN a = 1 .. Len(a) /\ DOMAIN b = 1 .. Len(a) + 1
        /\ b[Len(a) + 1] = n /\ \A i \in DOMAIN a : b[i] = a[i]
    BY <2>2
  <2>5. \A m : Written(m)' <=> Written(m) \/ m = n
    <3>1. ASSUME NEW m, Written(m)' PROVE Written(m) \/ m = n
      <4>1. PICK r \in Switch : \E i \in DOMAIN toSwitch'[r] : toSwitch'[r][i] = m
        BY <3>1 DEF Written
      <4> QED BY <2>1, <2>3, <2>4, <4>1 DEF Written
    <3>2. ASSUME NEW m, Written(m) PROVE Written(m)'
      <4>0. PICK r \in Switch : \E k \in DOMAIN toSwitch[r] : toSwitch[r][k] = m
        BY <3>2 DEF Written
      <4>1. PICK i \in DOMAIN toSwitch[r] : toSwitch[r][i] = m
        BY <4>0
      <4>2. i \in DOMAIN toSwitch'[r] /\ toSwitch'[r][i] = m
        BY <2>1, <2>3, <2>4, <4>1
      <4> QED BY <4>2 DEF Written
    <3>3. Written(n)'
      <4>1. Len(a) + 1 \in DOMAIN toSwitch'[s] /\ toSwitch'[s][Len(a) + 1] = n
        BY <2>3, <2>4
      <4> QED BY <4>1 DEF Written
    <3> QED BY <3>1, <3>2, <3>3
  <2>6. \A q, r \in Switch : \A i \in DOMAIN toSwitch'[q], j \in DOMAIN toSwitch'[r] :
          toSwitch'[q][i] = toSwitch'[r][j] => q = r /\ i = j
    <3> SUFFICES ASSUME NEW q \in Switch, NEW r \in Switch,
                        NEW i \in DOMAIN toSwitch'[q], NEW j \in DOMAIN toSwitch'[r],
                        toSwitch'[q][i] = toSwitch'[r][j]
                 PROVE  q = r /\ i = j
      OBVIOUS
    <3>1. \A p \in Switch : \A k \in DOMAIN toSwitch'[p] :
            \/ p = s /\ k = Len(a) + 1 /\ toSwitch'[p][k] = n
            \/ k \in DOMAIN toSwitch[p] /\ toSwitch'[p][k] = toSwitch[p][k] /\ toSwitch[p][k] # n
      <4> SUFFICES ASSUME NEW p \in Switch, NEW k \in DOMAIN toSwitch'[p]
                   PROVE  \/ p = s /\ k = Len(a) + 1 /\ toSwitch'[p][k] = n
                          \/ k \in DOMAIN toSwitch[p] /\ toSwitch'[p][k] = toSwitch[p][k] /\ toSwitch[p][k] # n
        OBVIOUS
      <4>1. \A l \in DOMAIN toSwitch[p] : toSwitch[p][l] # n
        BY <1>5 DEF Written
      <4>2. CASE p # s
        BY <2>3, <4>1, <4>2
      <4>3. CASE p = s /\ k = Len(a) + 1
        BY <2>3, <2>4, <4>3
      <4>4. CASE p = s /\ k # Len(a) + 1
        <5>1. k \in DOMAIN a /\ toSwitch'[p][k] = a[k] /\ toSwitch[p] = a
          BY <2>1, <2>3, <2>4, <4>4
        <5> QED BY <4>1, <5>1
      <4> QED BY <4>2, <4>3, <4>4
    <3> QED BY <3>1 DEF PlaceInv, Once
  <2>7. Once'
    BY <1>9, <2>6 DEF Once, Thread
  <2>8. Apart'
    <3>1. DOMAIN sent' = N /\ dropped' = dropped /\ lost' = lost
      BY <1>1, <1>4, <1>11
    <3> QED BY <1>5, <1>7, <1>8, <1>10, <2>5, <3>1 DEF Apart
  <2> QED BY <2>7, <2>8 DEF PlaceInv
<1>12. ASSUME toSwitch' = toSwitch, lost' = lost \union {n}
       PROVE  PlaceInv'
  <2>1. \A m : Written(m)' <=> Written(m)
    BY <1>12 DEF Written
  <2>2. Once'
    BY <1>9, <1>12 DEF PlaceInv, Once, Thread
  <2>3. Apart'
    <3>1. DOMAIN sent' = N /\ dropped' = dropped
      BY <1>1, <1>4
    <3> QED BY <1>5, <1>7, <1>8, <1>10, <1>12, <2>1, <3>1 DEF Apart
  <2> QED BY <2>2, <2>3 DEF PlaceInv
<1> QED BY <1>4, <1>11, <1>12

\* A step leaves every message in one place: whoever takes one out of a place puts it
\* into the next.
LEMMA PlaceStep ==
  ASSUME TypeOK, PlaceInv, [Step]_state
  PROVE  PlaceInv'
<1>1. ASSUME UNCHANGED <<sent, output_queue, held, toSwitch, dropped, lost>>
      PROVE  PlaceInv'
  BY <1>1 DEF PlaceInv, Once, Apart, Queued, Writing, Written, Thread
<1>2. ASSUME [MainStep \/ Outside \/ \E t \in Thread : TakeJob(t) \/ InputRemove(t)]_state
      PROVE  UNCHANGED <<sent, output_queue, held, toSwitch, dropped, lost>>
  BY <1>2 DEF MainStep, Outside, TakeJob, InputRemove, Accept, DispatchInput, InitDone,
        ReadDigest, ReadEnd, Connect, Leave, Arrives, state, queues, threads, links, history
<1> QED BY <1>1, <1>2, SendStep, RemoveStep, WriteStep DEF Step, Process, ThreadStep

\* Types, the pool and the places of messages hold in every state.
LEMMA Invariance == Spec => [](TypeOK /\ PoolInv /\ PlaceInv)
<1>1. Init => TypeOK /\ PoolInv /\ PlaceInv
  BY TypeInit, PoolInit, PlaceInit
<1>2. TypeOK /\ PoolInv /\ PlaceInv /\ [Step]_state => (TypeOK /\ PoolInv /\ PlaceInv)'
  <2> SUFFICES ASSUME TypeOK, PoolInv, PlaceInv, [Step]_state
               PROVE  TypeOK' /\ PoolInv' /\ PlaceInv'
    OBVIOUS
  <2>1. TypeOK'
    BY TypeStep
  <2>2. PoolInv'
    BY <2>1, PoolStep
  <2>3. PlaceInv'
    BY PlaceStep
  <2> QED BY <2>1, <2>2, <2>3
<1> QED BY <1>1, <1>2, NextIsStep, PTL DEF Spec

\* A set whose elements are all equal has one element or none.
LEMMA OneOrNone ==
  ASSUME NEW X, \A x, y \in X : x = y
  PROVE  Cardinality(X) = IF X = {} THEN 0 ELSE 1
<1>1. CASE X = {}
  BY <1>1, FS_EmptySet
<1>2. ASSUME NEW x \in X PROVE Cardinality(X) = 1
  <2>1. X = {x}
    OBVIOUS
  <2> QED BY <2>1, FS_Singleton
<1> QED BY <1>1, <1>2

\* A switch was written at most as many messages as there are.
LEMMA ShortEnough ==
  ASSUME TypeOK, PlaceInv, NEW s \in Switch
  PROVE  Len(toSwitch[s]) \in Nat /\ Len(toSwitch[s]) <= Len(sent)
<1>1. PICK n \in Nat : n = Len(sent) /\ DOMAIN sent = 1 .. n
  BY DEF TypeOK, Typed
<1>2. PICK N : N = 1 .. n
  OBVIOUS
<1>3. PICK w \in Seq(N) : w = toSwitch[s]
  BY <1>1, <1>2 DEF TypeOK, Messages
<1>4. PICK k \in Nat : k = Len(w) /\ DOMAIN w = 1 .. k
  OBVIOUS
<1>5. \A i, j \in 1 .. k : w[i] = w[j] => i = j
  BY <1>3, <1>4 DEF PlaceInv, Once
<1>6. PICK f : f = [i \in 1 .. k |-> w[i]]
  OBVIOUS
<1>7. \A i \in 1 .. k : w[i] \in N
  BY <1>3, <1>4
<1>8. f \in Injection(1 .. k, N)
  BY <1>5, <1>6, <1>7 DEF Injection, IsInjective
<1>9. IsFiniteSet(N) /\ Cardinality(N) = n /\ Cardinality(1 .. k) = k
  BY <1>2, FS_Interval
<1>10. k <= n
  BY <1>8, <1>9, FS_Injection
<1> QED BY <1>1, <1>3, <1>4, <1>10

\* The places of a message, counted, are one.
LEMMA OnePlace ==
  ASSUME TypeOK, PoolInv, PlaceInv, NEW n \in DOMAIN sent
  PROVE  Places(n) = 1
<1>1. PICK A : A = {i \in DOMAIN output_queue : output_queue[i] = n}
  OBVIOUS
<1>2. PICK B : B = {t \in Thread : job[t].kind = "output_processor" /\ held[t] = n}
  OBVIOUS
<1>3. PICK C : C = {p \in Switch \X (1 .. Len(sent)) :
                      p[2] <= Len(toSwitch[p[1]]) /\ toSwitch[p[1]][p[2]] = n}
  OBVIOUS
<1>4. n \in Nat /\ n # None
  BY ControllerAssumption DEF TypeOK, Typed
<1>5. Cardinality(A) = IF Queued(n) THEN 1 ELSE 0
  <2>1. DOMAIN output_queue \subseteq Nat
    BY DEF TypeOK, Messages
  <2>2. \A i, j \in A : i = j
    <3> SUFFICES ASSUME NEW i \in A, NEW j \in A, i # j PROVE FALSE
      OBVIOUS
    <3>1. i < j \/ j < i
      BY <1>1, <2>1
    <3>2. n < n
      BY <1>1, <3>1 DEF PlaceInv, Once
    <3> QED BY <1>4, <3>2
  <2>3. A = {} <=> ~Queued(n)
    BY <1>1 DEF Queued
  <2> QED BY <2>2, <2>3, OneOrNone
<1>6. Cardinality(B) = IF Writing(n) THEN 1 ELSE 0
  <2>1. \A t, u \in B : t = u
    BY <1>2, <1>4 DEF PlaceInv, Once
  <2>2. B = {} <=> ~Writing(n)
    BY <1>2, <1>4 DEF Writing, PoolInv
  <2> QED BY <2>1, <2>2, OneOrNone
<1>7. Cardinality(C) = IF Written(n) THEN 1 ELSE 0
  <2>1. \A s \in Switch : DOMAIN toSwitch[s] = 1 .. Len(toSwitch[s])
    BY DEF TypeOK, Messages
  <2>2. ASSUME NEW p \in C
        PROVE  p[1] \in Switch /\ p[2] \in DOMAIN toSwitch[p[1]] /\ toSwitch[p[1]][p[2]] = n
               /\ p = <<p[1], p[2]>>
    <3>1. p[1] \in Switch /\ p[2] \in 1 .. Len(sent) /\ p = <<p[1], p[2]>>
          /\ p[2] <= Len(toSwitch[p[1]]) /\ toSwitch[p[1]][p[2]] = n
      BY <1>3
    <3>2. Len(toSwitch[p[1]]) \in Nat
      BY <3>1, ShortEnough
    <3>3. p[2] \in 1 .. Len(toSwitch[p[1]])
      BY <3>1, <3>2 DEF TypeOK, Typed
    <3> QED BY <2>1, <3>1, <3>3
  <2>3. \A p, q \in C : p = q
    <3> SUFFICES ASSUME NEW p \in C, NEW q \in C PROVE p = q
      OBVIOUS
    <3>1. p[1] = q[1] /\ p[2] = q[2]
      BY <2>2 DEF PlaceInv, Once
    <3> QED BY <2>2, <3>1
  <2>4. ASSUME Written(n) PROVE C # {}
    <3>1. PICK s \in Switch : \E i \in DOMAIN toSwitch[s] : toSwitch[s][i] = n
      BY <2>4 DEF Written
    <3>2. PICK i \in DOMAIN toSwitch[s] : toSwitch[s][i] = n
      BY <3>1
    <3>3. i \in 1 .. Len(toSwitch[s]) /\ Len(toSwitch[s]) \in Nat /\ Len(toSwitch[s]) <= Len(sent)
          /\ Len(sent) \in Nat
      BY <2>1, ShortEnough DEF TypeOK, Typed
    <3>4. i <= Len(toSwitch[s]) /\ i \in 1 .. Len(sent)
      BY <3>3
    <3>5. <<s, i>> \in C
      BY <1>3, <3>2, <3>4
    <3> QED BY <3>5
  <2>5. C # {} => Written(n)
    BY <2>2 DEF Written
  <2> QED BY <2>3, <2>4, <2>5, OneOrNone
<1>8. Places(n) = Cardinality(A) + Cardinality(B) + Cardinality(C)
                  + (IF n \in dropped THEN 1 ELSE 0) + (IF n \in lost THEN 1 ELSE 0)
  BY <1>1, <1>2, <1>3 DEF Places
<1>9. /\ Queued(n) \/ Writing(n) \/ Written(n) \/ n \in dropped \/ n \in lost
      /\ Queued(n) => ~Writing(n) /\ ~Written(n) /\ n \notin dropped /\ n \notin lost
      /\ Writing(n) => ~Written(n) /\ n \notin dropped /\ n \notin lost
      /\ Written(n) => n \notin dropped /\ n \notin lost
      /\ n \in dropped => n \notin lost
  BY DEF PlaceInv, Apart
<1> QED BY <1>5, <1>6, <1>7, <1>8, <1>9

\* Whatever switches come and go, every message a program sends is in one place:
\* in the output queue, with one thread, written to one switch, or accounted for
\* as dropped or lost (send_p4_msg, output_processor).
THEOREM MessagesKept == Spec => []EveryMessageInOnePlace
<1>1. TypeOK /\ PoolInv /\ PlaceInv => EveryMessageInOnePlace
  BY OnePlace DEF EveryMessageInOnePlace
<1> QED BY <1>1, Invariance, PTL

-----------------------------------------------------------------------------
(* The digests.                                                            *)

From(n) == reported[n].switch

\* The digests main has read, in the order in which it read them.
Read == handled \o input_queue

\* What main has read and what it will read of one switch is in order.
DigestInv ==
  /\ \A i, j \in DOMAIN Read : i < j /\ From(Read[i]) = From(Read[j]) => Read[i] < Read[j]
  /\ \A s \in Switch : \A i \in DOMAIN toController[s] :
       /\ From(toController[s][i]) = s
       /\ \A j \in DOMAIN toController[s] : i < j => toController[s][i] < toController[s][j]
       /\ \A j \in DOMAIN Read : From(Read[j]) = s => Read[j] < toController[s][i]

\* No digest has been read at the beginning.
LEMMA DigestInit == Init => DigestInv
BY DEF Init, DigestInv, Read

\* The main loop reads the oldest digest of a switch and queues it last.
LEMMA ReadStep ==
  ASSUME TypeOK, DigestInv, NEW s \in Switch, ReadDigest(s)
  PROVE  DigestInv'
<1>1. PICK D : D = DOMAIN reported
  OBVIOUS
<1>2. PICK w \in Seq(D) : w = toController[s] /\ w # <<>>
  BY <1>1 DEF ReadDigest, TypeOK, Digests
<1>3. PICK n \in D : n = Head(w) /\ n = w[1]
  BY <1>2
<1>5. input_queue \in Seq(D) /\ handled \in Seq(D) /\ toController \in [Switch -> Seq(D)]
  BY <1>1 DEF TypeOK, Digests
<1>4. PICK r \in Seq(D) : r = Read
  <2>1. handled \o input_queue \in Seq(D)
    BY <1>5
  <2> QED BY <2>1 DEF Read
<1>6. Read' = r \/ Read' = Append(r, n)
  <2>1. handled' = handled
    BY DEF ReadDigest
  <2>2. input_queue' = input_queue \/ input_queue' = Append(input_queue, n)
    BY <1>2, <1>3 DEF ReadDigest, In!Put
  <2>3. handled \o Append(input_queue, n) = Append(handled \o input_queue, n)
    BY <1>5
  <2> QED BY <1>4, <2>1, <2>2, <2>3 DEF Read
<1>7. UNCHANGED reported /\ \A x : From(x)' = From(x)
  BY DEF ReadDigest, From
<1>17. PICK v : v = Tail(w)
  OBVIOUS
<1>8. \A q \in Switch : toController'[q] = IF q = s THEN v ELSE toController[q]
  BY <1>2, <1>5, <1>17 DEF ReadDigest
<1>9. /\ Len(w) \in Nat \ {0} /\ DOMAIN w = 1 .. Len(w) /\ DOMAIN v = 1 .. Len(w) - 1
      /\ \A i \in 1 .. Len(w) - 1 : v[i] = w[i + 1]
  BY <1>2, <1>17
<1>10. /\ Len(r) \in Nat /\ DOMAIN r = 1 .. Len(r) /\ DOMAIN Append(r, n) = 1 .. Len(r) + 1
       /\ Append(r, n)[Len(r) + 1] = n /\ \A i \in DOMAIN r : Append(r, n)[i] = r[i]
  BY <1>4
<1>11. /\ \A i, j \in DOMAIN r : i < j /\ From(r[i]) = From(r[j]) => r[i] < r[j]
       /\ \A q \in Switch : \A i \in DOMAIN toController[q] :
            /\ From(toController[q][i]) = q
            /\ \A j \in DOMAIN toController[q] : i < j => toController[q][i] < toController[q][j]
            /\ \A j \in DOMAIN r : From(r[j]) = q => r[j] < toController[q][i]
  BY <1>4 DEF DigestInv
<1>12. /\ From(n) = s /\ \A i \in DOMAIN r : From(r[i]) = s => r[i] < n
       /\ \A i \in 1 .. Len(w) - 1 : n < v[i]
  <2>1. 1 \in DOMAIN w /\ \A i \in 1 .. Len(w) - 1 : i + 1 \in DOMAIN w /\ 1 < i + 1
    BY <1>9
  <2> QED BY <1>2, <1>3, <1>9, <1>11, <2>1
<1>13. PICK p : p = Read'
  OBVIOUS
<1>14. /\ \A i \in DOMAIN p : \/ i \in DOMAIN r /\ p[i] = r[i]
                              \/ i = Len(r) + 1 /\ p[i] = n
       /\ DOMAIN p \subseteq Nat
  <2>1. CASE p = r
    BY <1>10, <2>1
  <2>2. CASE p = Append(r, n)
    BY <1>10, <2>2
  <2> QED BY <1>6, <1>13, <2>1, <2>2
<1>15. ASSUME NEW i \in DOMAIN p, NEW j \in DOMAIN p, i < j, From(p[i]) = From(p[j])
       PROVE  p[i] < p[j]
  <2>1. i \in DOMAIN r /\ p[i] = r[i]
    BY <1>10, <1>14, <1>15
  <2>2. CASE j \in DOMAIN r /\ p[j] = r[j]
    BY <1>11, <1>15, <2>1, <2>2
  <2>3. CASE p[j] = n
    BY <1>12, <1>15, <2>1, <2>3
  <2> QED BY <1>14, <2>2, <2>3
<1>16. ASSUME NEW q \in Switch, NEW i \in DOMAIN toController'[q]
       PROVE  /\ From(toController'[q][i]) = q
              /\ \A j \in DOMAIN toController'[q] : i < j => toController'[q][i] < toController'[q][j]
              /\ \A j \in DOMAIN p : From(p[j]) = q => p[j] < toController'[q][i]
  <2>1. CASE q = s
    <3>1. i \in 1 .. Len(w) - 1 /\ toController'[q][i] = w[i + 1] /\ i + 1 \in DOMAIN w
          /\ i \in Nat
      BY <1>8, <1>9, <2>1
    <3>2. From(w[i + 1]) = q /\ \A j \in DOMAIN r : From(r[j]) = q => r[j] < w[i + 1]
      BY <1>2, <1>11, <2>1, <3>1
    <3>3. n < w[i + 1]
      BY <1>9, <1>12, <3>1
    <3>4. ASSUME NEW j \in DOMAIN toController'[q], i < j
          PROVE  toController'[q][i] < toController'[q][j]
      <4>1. j \in Nat /\ toController'[q][j] = w[j + 1] /\ j + 1 \in DOMAIN w /\ i + 1 < j + 1
        BY <1>8, <1>9, <2>1, <3>1, <3>4
      <4> QED BY <1>2, <1>11, <2>1, <3>1, <4>1
    <3> QED BY <1>14, <3>1, <3>2, <3>3, <3>4
  <2>2. CASE q # s
    <3>1. toController'[q] = toController[q]
      BY <1>8, <2>2
    <3> QED BY <1>11, <1>12, <1>14, <2>2, <3>1
  <2> QED BY <2>1, <2>2
<1> QED BY <1>7, <1>13, <1>15, <1>16 DEF DigestInv

\* An input_processor takes the first of the queue to handle it.
LEMMA TakeStep ==
  ASSUME TypeOK, DigestInv, NEW t \in Thread, InputRemove(t)
  PROVE  DigestInv'
<1>1. PICK D : D = DOMAIN reported
  OBVIOUS
<1>2. PICK q \in Seq(D) : q = input_queue /\ q # <<>>
  BY <1>1 DEF InputRemove, In!Take, TypeOK, Digests
<1>3. PICK h \in Seq(D) : h = handled
  BY <1>1 DEF TypeOK, Digests
<1>4. Append(h, Head(q)) \o Tail(q) = h \o q
  BY <1>2, <1>3
<1>5. handled' = Append(h, Head(q)) /\ input_queue' = Tail(q)
  BY <1>2, <1>3 DEF InputRemove, In!Take
<1>6. Read' = Read
  BY <1>2, <1>3, <1>4, <1>5 DEF Read
<1>7. UNCHANGED <<reported, toController>>
  BY DEF InputRemove, links
<1> QED BY <1>6, <1>7 DEF DigestInv, From

\* A digest that a switch reports is newer than all it has reported.
LEMMA ReportStep ==
  ASSUME TypeOK, DigestInv, NEW s \in Switch, NEW mac \in Mac, Arrives(s, mac)
  PROVE  DigestInv'
<1>1. PICK n \in Nat : n = Len(reported) + 1
  BY DEF TypeOK, Typed
<1>2. PICK D : D = DOMAIN reported
  OBVIOUS
<1>3. D = 1 .. n - 1
  BY <1>1, <1>2 DEF TypeOK, Typed
<1>4. Read \in Seq(D) /\ toController \in [Switch -> Seq(D)]
  BY <1>2 DEF TypeOK, Digests, Read
<1>5. reported'[n].switch = s /\ \A x \in D : reported'[x].switch = From(x)
  <2>1. PICK x \in Sighting : x = [switch |-> s, mac |-> mac, port |-> 1]
    BY DEF Sighting
  <2>2. reported' = Append(reported, x) /\ reported \in Seq(Sighting)
    BY <2>1 DEF Arrives, TypeOK, Typed
  <2>3. reported'[n] = x /\ \A y \in D : reported'[y] = reported[y]
    BY <1>1, <1>2, <2>2
  <2> QED BY <2>1, <2>3 DEF From
<1>6. Read' = Read
  BY DEF Arrives, Read, queues
<1>7. PICK w \in Seq(D) : w = toController[s]
  BY <1>4
<1>8. PICK v : v = Append(w, n)
  OBVIOUS
<1>9. /\ Len(w) \in Nat /\ DOMAIN w = 1 .. Len(w) /\ DOMAIN v = 1 .. Len(w) + 1
      /\ v[Len(w) + 1] = n /\ \A i \in DOMAIN w : v[i] = w[i]
  BY <1>8
<1>10. \A q \in Switch : toController'[q] = IF q = s THEN v ELSE toController[q]
  BY <1>1, <1>4, <1>7, <1>8 DEF Arrives
<1>11. /\ \A i \in DOMAIN Read : Read[i] \in D
       /\ \A q \in Switch : \A i \in DOMAIN toController[q] : toController[q][i] \in D
  BY <1>4
<1>12. \A x \in D : x < n
  BY <1>3
<1>13. PICK r : r = Read
  OBVIOUS
<1>14. ASSUME NEW q \in Switch, NEW i \in DOMAIN toController'[q]
       PROVE  /\ reported'[toController'[q][i]].switch = q
              /\ \A j \in DOMAIN toController'[q] : i < j => toController'[q][i] < toController'[q][j]
              /\ \A j \in DOMAIN r : reported'[r[j]].switch = q => r[j] < toController'[q][i]
  <2>1. CASE i \in DOMAIN toController[q] /\ toController'[q][i] = toController[q][i]
    <3>1. ASSUME NEW j \in DOMAIN toController'[q], i < j
          PROVE  toController'[q][i] < toController'[q][j]
      <4>1. CASE j \in DOMAIN toController[q] /\ toController'[q][j] = toController[q][j]
        BY <2>1, <3>1, <4>1 DEF DigestInv
      <4>2. CASE toController'[q][j] = n
        BY <1>11, <1>12, <2>1, <4>2
      <4> QED BY <1>7, <1>9, <1>10, <4>1, <4>2
    <3>2. reported'[toController'[q][i]].switch = q
      BY <1>5, <1>11, <2>1 DEF DigestInv
    <3>3. \A j \in DOMAIN r : reported'[r[j]].switch = q => r[j] < toController'[q][i]
      BY <1>5, <1>11, <1>13, <2>1 DEF DigestInv
    <3> QED BY <3>1, <3>2, <3>3
  <2>2. CASE q = s /\ i = Len(w) + 1 /\ toController'[q][i] = n
    <3>1. \A j \in DOMAIN toController'[q] : ~(i < j)
      BY <1>9, <1>10, <2>2
    <3>2. \A j \in DOMAIN r : r[j] < n
      BY <1>11, <1>12, <1>13
    <3> QED BY <1>5, <2>2, <3>1, <3>2
  <2>3. \/ i \in DOMAIN toController[q] /\ toController'[q][i] = toController[q][i]
        \/ q = s /\ i = Len(w) + 1 /\ toController'[q][i] = n
    BY <1>7, <1>9, <1>10
  <2> QED BY <2>1, <2>2, <2>3
<1>15. \A i, j \in DOMAIN r : i < j /\ reported'[r[i]].switch = reported'[r[j]].switch => r[i] < r[j]
  BY <1>5, <1>11, <1>13 DEF DigestInv
<1> QED BY <1>6, <1>13, <1>14, <1>15 DEF DigestInv, From

\* Every step keeps the order of digests.
LEMMA DigestStep == TypeOK /\ DigestInv /\ [Step]_state => DigestInv'
<1> SUFFICES ASSUME TypeOK, DigestInv, [Step]_state PROVE DigestInv'
  OBVIOUS
<1>1. ASSUME UNCHANGED <<reported, input_queue, handled, toController>>
      PROVE  DigestInv'
  BY <1>1 DEF DigestInv, From, Read
<1>2. ASSUME NEW s \in Switch, Accept(s) \/ ReadEnd(s) \/ Connect(s) \/ Leave(s)
      PROVE  UNCHANGED <<reported, input_queue, handled, toController>>
  BY <1>2 DEF Accept, ReadEnd, Connect, Leave, queues, links, history
<1>3. ASSUME DispatchInput \/ InitDone \/ UNCHANGED state
      PROVE  UNCHANGED <<reported, input_queue, handled, toController>>
  BY <1>3 DEF DispatchInput, InitDone, state, queues, links, history
<1>4. ASSUME NEW t \in Thread \union {Main}, send_p4_msg(t)
      PROVE  UNCHANGED <<reported, input_queue, handled, toController>>
  BY <1>4 DEF send_p4_msg, links
<1>5. ASSUME NEW t \in Thread, TakeJob(t) \/ OutputRemove(t) \/ OutputWrite(t)
      PROVE  UNCHANGED <<reported, input_queue, handled, toController>>
  BY <1>5 DEF TakeJob, OutputRemove, OutputWrite, queues, links, history
<1> QED BY <1>1, <1>2, <1>3, <1>4, <1>5, ReadStep, TakeStep, ReportStep
        DEF Step, Process, MainStep, ThreadStep, Outside

\* Of three threads only the second can have an input_processor.
LEMMA OneHandler ==
  ASSUME Threads <= 3, TypeOK, PoolInv
  PROVE  Cardinality({t \in Thread : todo[t] # <<>>}) <= 1
<1>1. PICK k \in 0 .. Threads : Dispatched(k)
  BY DEF PoolInv
<1>2. PICK X : X = {t \in Thread : todo[t] # <<>>}
  OBVIOUS
<1>3. ASSUME NEW t \in X PROVE t = 2
  <2>1. t \in 1 .. 3 /\ job[t].kind = "input_processor"
    BY <1>2, ControllerAssumption DEF Thread, PoolInv
  <2>2. KindOf(t) = "input_processor"
    BY <1>1, <1>2, <2>1 DEF Dispatched, Idle
  <2>3. t % 2 # 1
    BY <2>2 DEF KindOf
  <2> QED BY <2>1, <2>3
<1>4. Cardinality(X) = IF X = {} THEN 0 ELSE 1
  BY <1>3, OneOrNone
<1> QED BY <1>2, <1>4

\* Of two digests of one switch the first handled was the first reported.
LEMMA HandledInOrder ==
  ASSUME TypeOK, DigestInv, NEW i \in DOMAIN handled, NEW j \in DOMAIN handled,
         i < j, From(handled[i]) = From(handled[j])
  PROVE  handled[i] < handled[j]
<1>1. PICK D : D = DOMAIN reported
  OBVIOUS
<1>2. handled \in Seq(D) /\ input_queue \in Seq(D)
  BY <1>1 DEF TypeOK, Digests
<1>3. \A l \in DOMAIN handled : l \in DOMAIN Read /\ Read[l] = handled[l]
  BY <1>2 DEF Read
<1> QED BY <1>3 DEF DigestInv

\* Digests are handled one after the other, and those of one switch in the order
\* in which it sent them, in a process with the three threads controller.c creates
\* (create_controller, input_processor).
THEOREM OneByOne ==
  ASSUME Threads <= 3
  PROVE  Spec => []HandledOneByOne
<1>1. Init => TypeOK /\ PoolInv /\ DigestInv
  BY TypeInit, PoolInit, DigestInit
<1>2. TypeOK /\ PoolInv /\ DigestInv /\ [Step]_state => (TypeOK /\ PoolInv /\ DigestInv)'
  BY TypeStep, PoolStep, DigestStep
<1>3. TypeOK /\ PoolInv /\ DigestInv => HandledOneByOne
  BY OneHandler, HandledInOrder DEF HandledOneByOne, From
<1> QED BY <1>1, <1>2, <1>3, NextIsStep, PTL DEF Spec

-----------------------------------------------------------------------------
(* One switch: messages are written to it in the order in which they were  *)
(* sent.                                                                   *)

OrderInv ==
  /\ \A s \in Switch : toSwitch[s] # <<>> => link[s] # "down"
  /\ Alone => \A n, m \in DOMAIN sent :
       /\ Written(n) /\ (Writing(m) \/ Queued(m)) => n < m
       /\ Writing(n) /\ Queued(m) => n < m

\* There is no message to be in order at the beginning.
LEMMA OrderInit == Init => OrderInv
<1> SUFFICES ASSUME Init PROVE OrderInv
  OBVIOUS
<1>1. \A n \in DOMAIN sent : ~Written(n) /\ ~Writing(n)
  <2>1. \A n \in DOMAIN sent : n # None
    BY Scripts, ControllerAssumption DEF Init
  <2> QED BY <2>1 DEF Init, Written, Writing
<1> QED BY <1>1 DEF Init, OrderInv

\* Of the threads that write only the first has a job.
LEMMA OneWriter ==
  ASSUME TypeOK, PoolInv, Alone, NEW t \in Thread, held[t] # None \/ job[t].kind = "output_processor"
  PROVE  t = 1
<1>1. PICK k \in 0 .. Threads : Dispatched(k) /\ Few(k)
  BY DEF PoolInv
<1>2. job[t].kind = "output_processor"
  BY DEF PoolInv
<1>3. t \in Nat /\ t <= k /\ KindOf(t) = "output_processor" /\ t >= 1
  BY <1>1, <1>2 DEF Dispatched, Idle, Thread
<1>4. t % 2 = 1
  BY <1>3 DEF KindOf
<1>5. k <= 2
  BY <1>1, ControllerAssumption DEF Few, TypeOK, Typed
<1> QED BY <1>3, <1>4, <1>5

\* With one switch every step keeps the order of messages: one thread writes them, and
\* the next it takes is newer than all it has written.
LEMMA OrderStep ==
  ASSUME TypeOK, PoolInv, PlaceInv, OrderInv, [Step]_state
  PROVE  OrderInv'
<1>1. /\ \A s \in Switch : link[s] # "down" => link'[s] # "down"
      /\ Alone' => Alone
  BY LinksGrow
<1>2. PICK N : N = DOMAIN sent
  OBVIOUS
<1>3. \A n \in N : n \in Nat /\ n # None
  BY <1>2, ControllerAssumption DEF TypeOK, Typed
<1>4. Messages(N)
  BY <1>2 DEF TypeOK
<1>5. ASSUME Alone
      PROVE  \A n, m \in N : /\ Written(n) /\ (Writing(m) \/ Queued(m)) => n < m
                             /\ Writing(n) /\ Queued(m) => n < m
  BY <1>2, <1>5 DEF OrderInv
<1>6. ASSUME NEW t \in Thread \union {Main}, send_p4_msg(t) PROVE OrderInv'
  <2>1. PICK n \in Nat : n = Len(sent) + 1
    BY DEF TypeOK, Typed
  <2>2. DOMAIN sent' = N \union {n} /\ \A m \in N : m < n
    <3>1. todo[t] \in Seq(Message) /\ todo[t] # <<>>
      BY <1>6 DEF send_p4_msg, TypeOK, Typed
    <3>2. PICK x \in Message : x = Head(todo[t])
      BY <3>1
    <3>3. sent' = Append(sent, x) /\ sent \in Seq(Message)
      BY <1>6, <3>2 DEF send_p4_msg, TypeOK, Typed
    <3> QED BY <1>2, <2>1, <3>3
  <2>3. UNCHANGED <<held, toSwitch, link>>
    BY <1>6 DEF send_p4_msg, links
  <2>4. output_queue' = output_queue \/ output_queue' = Append(output_queue, n)
    BY <1>6, <2>1 DEF send_p4_msg, Out!Put
  <2>5. n \notin N /\ n # None
    BY <2>1, <2>2, ControllerAssumption
  <2>6. ~Writing(n) /\ ~Written(n)
    BY <1>4, <2>5 DEF Messages, Writing, Written
  <2>7. \A m : (Writing(m)' <=> Writing(m)) /\ (Written(m)' <=> Written(m))
    BY <2>3 DEF Writing, Written, Thread
  <2>8. \A m \in N : Queued(m)' => Queued(m)
    <3> SUFFICES ASSUME NEW m \in N, Queued(m)' PROVE Queued(m)
      OBVIOUS
    <3>1. PICK i \in DOMAIN output_queue' : output_queue'[i] = m
      BY DEF Queued
    <3>2. output_queue \in Seq(N)
      BY <1>4 DEF Messages
    <3>3. i \in DOMAIN output_queue /\ output_queue[i] = m
      BY <2>4, <2>5, <3>1, <3>2
    <3> QED BY <3>3 DEF Queued
  <2>9. Alone' => \A l, m \in DOMAIN sent' :
          /\ Written(l)' /\ (Writing(m)' \/ Queued(m)') => l < m
          /\ Writing(l)' /\ Queued(m)' => l < m
    BY <1>1, <1>5, <2>2, <2>6, <2>7, <2>8
  <2> QED BY <2>3, <2>9 DEF OrderInv
<1>7. ASSUME NEW t \in Thread, OutputRemove(t) PROVE OrderInv'
  <2>1. output_queue # <<>> /\ output_queue \in Seq(N) /\ held \in [Thread -> N \union {None}]
    BY <1>4, <1>7 DEF OutputRemove, Out!RemoveOldest, Out!Take, Messages
  <2>2. PICK n \in N : n = Head(output_queue) /\ n = output_queue[1]
    BY <2>1
  <2>3. /\ output_queue' = Tail(output_queue) /\ held' = [held EXCEPT ![t] = n] /\ held[t] = None
        /\ UNCHANGED <<sent, toSwitch, link>> /\ job[t].kind = "output_processor"
    BY <1>7, <2>2 DEF OutputRemove, Out!RemoveOldest, Out!Take, links, history
  <2>4. Queued(n)
    BY <2>1, <2>2 DEF Queued
  <2>5. \A m \in N : Queued(m)' => Queued(m) /\ n < m
    <3> SUFFICES ASSUME NEW m \in N, Queued(m)' PROVE Queued(m) /\ n < m
      OBVIOUS
    <3>1. PICK i \in DOMAIN Tail(output_queue) : Tail(output_queue)[i] = m
      BY <2>3 DEF Queued
    <3>2. i + 1 \in DOMAIN output_queue /\ output_queue[i + 1] = m /\ 1 < i + 1 /\ 1 \in DOMAIN output_queue
      BY <2>1, <3>1
    <3> QED BY <2>2, <3>2 DEF Queued, PlaceInv, Once
  <2>6. \A m : Written(m)' <=> Written(m)
    BY <2>3 DEF Written
  <2>7. ASSUME Alone PROVE \A m \in N : Writing(m)' => m = n
    <3>1. t = 1 /\ \A u \in Thread : held[u] # None => u = 1
      BY <2>3, <2>7, OneWriter
    <3>2. \A u \in Thread : held'[u] = IF u = t THEN n ELSE held[u]
      BY <2>1, <2>3
    <3>3. \A u \in Thread : held'[u] # None => held'[u] = n
      BY <3>1, <3>2
    <3> QED BY <1>3, <3>3 DEF Writing, Thread
  <2>8. Alone' => \A l, m \in N :
          /\ Written(l)' /\ (Writing(m)' \/ Queued(m)') => l < m
          /\ Writing(l)' /\ Queued(m)' => l < m
    BY <1>1, <1>5, <2>4, <2>5, <2>6, <2>7
  <2> QED BY <1>2, <2>3, <2>8 DEF OrderInv
<1>8. ASSUME NEW t \in Thread, OutputWrite(t) PROVE OrderInv'
  <2>1. held \in [Thread -> N \union {None}] /\ toSwitch \in [Switch -> Seq(N)]
    BY <1>4 DEF Messages
  <2>2. PICK n \in N : n = held[t] /\ n # None
    BY <1>8, <2>1 DEF OutputWrite
  <2>3. /\ held' = [held EXCEPT ![t] = None] /\ UNCHANGED <<sent, output_queue, link>>
        /\ job[t].kind = "output_processor"
        /\ \/ \E s \in Switch : link[s] = "open" /\ toSwitch' = [toSwitch EXCEPT ![s] = Append(@, n)]
           \/ toSwitch' = toSwitch
    BY <1>8, <2>2 DEF OutputWrite, Owner, Freed, queues
  <2>4. Writing(n)
    BY <2>2 DEF Writing
  <2>5. \A m : Queued(m)' <=> Queued(m)
    BY <2>3 DEF Queued
  <2>6. ASSUME Alone PROVE \A m \in N : ~Writing(m)'
    <3>1. t = 1 /\ \A u \in Thread : held[u] # None => u = 1
      BY <2>3, <2>6, OneWriter
    <3>2. \A u \in Thread : held'[u] = IF u = t THEN None ELSE held[u]
      BY <2>1, <2>3
    <3> QED BY <1>3, <3>1, <3>2 DEF Writing, Thread
  <2>7. \A m \in N : Written(m)' => Written(m) \/ m = n
    <3> SUFFICES ASSUME NEW m \in N, Written(m)' PROVE Written(m) \/ m = n
      OBVIOUS
    <3>1. PICK r \in Switch : \E i \in DOMAIN toSwitch'[r] : toSwitch'[r][i] = m
      BY DEF Written
    <3>2. CASE toSwitch'[r] = toSwitch[r]
      BY <3>1, <3>2 DEF Written
    <3>3. CASE toSwitch'[r] = Append(toSwitch[r], n)
      <4>1. PICK w \in Seq(N) : w = toSwitch[r]
        BY <2>1
      <4>2. PICK i \in DOMAIN Append(w, n) : Append(w, n)[i] = m
        BY <3>1, <3>3, <4>1
      <4>3. m = n \/ (i \in DOMAIN w /\ w[i] = m)
        BY <4>2
      <4> QED BY <4>1, <4>3 DEF Written
    <3> QED BY <2>1, <2>3, <3>2, <3>3
  <2>8. \A s \in Switch : toSwitch'[s] # <<>> => link'[s] # "down"
    BY <2>1, <2>3 DEF OrderInv
  <2>9. Alone' => \A l, m \in N :
          /\ Written(l)' /\ (Writing(m)' \/ Queued(m)') => l < m
          /\ Writing(l)' /\ Queued(m)' => l < m
    BY <1>1, <1>5, <2>4, <2>5, <2>6, <2>7
  <2> QED BY <1>2, <2>3, <2>8, <2>9 DEF OrderInv
<1>9. ASSUME UNCHANGED <<sent, output_queue, held, toSwitch, dropped, lost>>
      PROVE  OrderInv'
  BY <1>1, <1>9 DEF OrderInv, Written, Writing, Queued, Thread
<1>10. ASSUME [MainStep \/ Outside \/ \E t \in Thread : TakeJob(t) \/ InputRemove(t)]_state
      PROVE  UNCHANGED <<sent, output_queue, held, toSwitch, dropped, lost>>
  BY <1>10 DEF MainStep, Outside, TakeJob, InputRemove, Accept, DispatchInput, InitDone,
        ReadDigest, ReadEnd, Connect, Leave, Arrives, state, queues, threads, links, history
<1> QED BY <1>6, <1>7, <1>8, <1>9, <1>10 DEF Step, Process, ThreadStep

-----------------------------------------------------------------------------
(* dmac is filled before smac.                                             *)

\* Message m adds an entry for the address mac to the table.
Adds(m, table, mac) ==
  m.type = "ADD_TABLE_ENTRY" /\ m.table = table /\ m.matches[1].value = mac

DmacFirst(msgs) ==
  \A mac : \A i \in DOMAIN msgs :
    Adds(msgs[i], "smac", mac) => \E j \in 1 .. i - 1 : Adds(msgs[j], "dmac", mac)

Announced(mac) == \E n \in DOMAIN sent : Adds(sent[n], "dmac", mac)

FirstInv ==
  /\ DmacFirst(sent)
  /\ \A t \in Thread \union {Main} : \A mac : \A i \in DOMAIN todo[t] :
       Adds(todo[t][i], "smac", mac) =>
         Announced(mac) \/ \E j \in 1 .. i - 1 : Adds(todo[t][j], "dmac", mac)

\* Where the elements of two sequences are in their concatenation.
LEMMA Joined ==
  ASSUME NEW M, NEW a \in Seq(M), NEW b \in Seq(M)
  PROVE  /\ a \o b \in Seq(M) /\ Len(a \o b) = Len(a) + Len(b)
         /\ \A i \in 1 .. Len(a) : (a \o b)[i] = a[i]
         /\ \A i \in 1 .. Len(b) : (a \o b)[Len(a) + i] = b[i]
OBVIOUS

\* What mac_controller.c sends of its own accord.
LEMMA InitIsDmacFirst ==
  ASSUME NEW Line, NEW entries \in Seq(Line)
  PROVE  DmacFirst(init(entries))
<1>1. PICK n \in Nat : n = Len(entries)
  OBVIOUS
<1>2. PICK head : head = <<set_default_action_smac, set_default_action_dmac>>
  OBVIOUS
<1>3. PICK rest : rest = [k \in 1 .. 2 * n |->
        LET e == entries[(k + 1) \div 2]
        IN IF k % 2 = 1 THEN fill_dmac_table(e.port, e.mac)
                        ELSE fill_smac_table(e.port, e.mac)]
  OBVIOUS
<1>4. PICK msgs : msgs = init(entries)
  OBVIOUS
<1>5. msgs = head \o rest
  BY <1>1, <1>2, <1>3, <1>4 DEF init
<1>6. /\ DOMAIN msgs = 1 .. 2 + 2 * n
      /\ msgs[1] = set_default_action_smac /\ msgs[2] = set_default_action_dmac
      /\ \A k \in 1 .. 2 * n : msgs[k + 2] = rest[k]
  <2>1. Len(head) = 2 /\ head[1] = set_default_action_smac /\ head[2] = set_default_action_dmac
    BY <1>2
  <2>2. PICK M : M = {head[1], head[2]} \union {rest[k] : k \in 1 .. 2 * n}
    OBVIOUS
  <2>3. head \in Seq(M)
    BY <1>2, <2>2
  <2>4. rest = [k \in 1 .. 2 * n |-> rest[k]]
    BY <1>3
  <2>5. rest \in [1 .. 2 * n -> M]
    BY <2>2, <2>4
  <2>6. rest \in Seq(M) /\ Len(rest) = 2 * n
    BY <2>5
  <2>7. /\ msgs \in Seq(M) /\ Len(msgs) = Len(head) + Len(rest)
        /\ \A k \in 1 .. Len(head) : msgs[k] = head[k]
        /\ \A k \in 1 .. Len(rest) : msgs[Len(head) + k] = rest[k]
    <3>1. PICK a \in Seq(M) : a = head
      BY <2>3
    <3>2. PICK b \in Seq(M) : b = rest
      BY <2>6
    <3>3. /\ a \o b \in Seq(M) /\ Len(a \o b) = Len(a) + Len(b)
          /\ \A i \in 1 .. Len(a) : (a \o b)[i] = a[i]
          /\ \A i \in 1 .. Len(b) : (a \o b)[Len(a) + i] = b[i]
      BY Joined
    <3>4. msgs = a \o b
      BY <1>5, <3>1, <3>2
    <3> QED BY <3>1, <3>2, <3>3, <3>4
  <2>8. DOMAIN msgs = 1 .. 2 + 2 * n
    BY <2>1, <2>6, <2>7
  <2>9. \A k \in 1 .. 2 * n : 2 + k = k + 2
    OBVIOUS
  <2> QED BY <2>1, <2>6, <2>7, <2>8, <2>9
<1>7. SUFFICES ASSUME NEW mac, NEW i \in 1 .. 2 + 2 * n, Adds(msgs[i], "smac", mac)
               PROVE  \E j \in 1 .. i - 1 : Adds(msgs[j], "dmac", mac)
  BY <1>4, <1>6 DEF DmacFirst
<1>8. i # 1 /\ i # 2
  BY <1>6, <1>7 DEF Adds, set_default_action_smac, set_default_action_dmac, SetDefaultAction
<1>9. PICK k \in 1 .. 2 * n : k = i - 2
  BY <1>8
<1>10. msgs[i] = rest[k]
  BY <1>6, <1>9
<1>11. k % 2 # 1
  <2>1. ASSUME k % 2 = 1 PROVE FALSE
    <3>1. PICK e : e = entries[(k + 1) \div 2]
      OBVIOUS
    <3>2. rest[k] = fill_dmac_table(e.port, e.mac)
      BY <1>3, <2>1, <3>1
    <3> QED BY <1>7, <1>10, <3>2 DEF Adds, fill_dmac_table, AddTableEntry
  <2> QED BY <2>1
<1>12. /\ k - 1 \in 1 .. 2 * n /\ (k - 1) % 2 = 1 /\ ((k - 1) + 1) \div 2 = (k + 1) \div 2
       /\ i - 1 \in 1 .. i - 1 /\ (k - 1) + 2 = i - 1
  BY <1>9, <1>11
<1>13. PICK e : e = entries[(k + 1) \div 2]
  OBVIOUS
<1>14. rest[k] = fill_smac_table(e.port, e.mac)
  BY <1>3, <1>11, <1>13
<1>15. rest[k - 1] = fill_dmac_table(e.port, e.mac)
  BY <1>3, <1>12, <1>13
<1>16. msgs[i - 1] = rest[k - 1]
  BY <1>6, <1>12
<1>17. e.mac = mac
  BY <1>7, <1>10, <1>14 DEF Adds, fill_smac_table, AddTableEntry, Exact, Match
<1>18. Adds(msgs[i - 1], "dmac", mac)
  BY <1>15, <1>16, <1>17 DEF Adds, fill_dmac_table, AddTableEntry, Exact, Match
<1> QED BY <1>12, <1>18

\* What mac_controller.c sends without a file adds to dmac first.
LEMMA BuiltinIsDmacFirst == DmacFirst(Builtin)
BY DEF DmacFirst, Builtin, Adds, fill_dmac_table, fill_smac_table, AddTableEntry, Exact, Match

\* FirstInv holds at the beginning of scripts that add to dmac first.
LEMMA FirstInit == ASSUME DmacFirst(Startup) PROVE Init => FirstInv
BY DEF Init, FirstInv

\* Every step keeps it, however the scripts and the answers to digests take turns.
LEMMA FirstStep ==
  ASSUME DmacFirst(Script), TypeOK, FirstInv, [Step]_state
  PROVE  FirstInv'
<1>1. ASSUME NEW t \in Thread \union {Main}, send_p4_msg(t) PROVE FirstInv'
  <2>1. PICK w \in Seq(Message) : w = todo[t] /\ w # <<>>
    BY <1>1 DEF send_p4_msg, TypeOK, Typed
  <2>2. PICK m \in Message : m = Head(w) /\ m = w[1]
    BY <2>1
  <2>3. PICK v : v = Tail(w)
    OBVIOUS
  <2>4. PICK n \in Nat : n = Len(sent) + 1
    BY DEF TypeOK, Typed
  <2>5. sent' = Append(sent, m) /\ sent \in Seq(Message)
    BY <1>1, <2>1, <2>2 DEF send_p4_msg, TypeOK, Typed
  <2>6. /\ DOMAIN sent = 1 .. n - 1 /\ DOMAIN sent' = 1 .. n /\ sent'[n] = m
        /\ \A i \in 1 .. n - 1 : sent'[i] = sent[i]
    BY <2>4, <2>5
  <2>7. \A u \in Thread \union {Main} : todo'[u] = IF u = t THEN v ELSE todo[u]
    BY <1>1, <2>1, <2>3 DEF send_p4_msg, TypeOK, Typed
  <2>8. /\ Len(w) \in Nat \ {0} /\ DOMAIN w = 1 .. Len(w) /\ DOMAIN v = 1 .. Len(w) - 1
        /\ \A i \in 1 .. Len(w) - 1 : v[i] = w[i + 1]
    BY <2>1, <2>3
  <2>9. \A mac : Announced(mac) => Announced(mac)'
    BY <2>6 DEF Announced
  <2>10. \A mac : Adds(m, "dmac", mac) => Announced(mac)'
    BY <2>4, <2>6 DEF Announced
  <2>11. \A mac : \A i \in DOMAIN w :
           Adds(w[i], "smac", mac) =>
             Announced(mac) \/ \E j \in 1 .. i - 1 : Adds(w[j], "dmac", mac)
    BY <2>1 DEF FirstInv
  <2>12. \A mac : Adds(m, "smac", mac) => Announced(mac)
    <3>1. 1 \in DOMAIN w /\ \A j \in 1 .. 1 - 1 : FALSE
      BY <2>8
    <3> QED BY <2>2, <2>11, <3>1
  <2>13. DmacFirst(sent)'
    <3>1. ASSUME NEW mac, NEW i \in DOMAIN sent', Adds(sent'[i], "smac", mac)
          PROVE  \E j \in 1 .. i - 1 : Adds(sent'[j], "dmac", mac)
      <4>1. CASE i = n
        <5>1. Announced(mac)
          BY <2>6, <2>12, <3>1, <4>1
        <5> QED BY <2>6, <4>1, <5>1 DEF Announced
      <4>2. CASE i # n
        <5>1. i \in 1 .. n - 1 /\ sent'[i] = sent[i] /\ \A j \in 1 .. i - 1 : j \in 1 .. n - 1
          BY <2>4, <2>6, <4>2
        <5>2. \E j \in 1 .. i - 1 : Adds(sent[j], "dmac", mac)
          BY <2>6, <3>1, <5>1 DEF FirstInv, DmacFirst
        <5> QED BY <2>6, <5>1, <5>2
      <4> QED BY <4>1, <4>2
    <3> QED BY <3>1 DEF DmacFirst
  <2>14. ASSUME NEW u \in Thread \union {Main}, NEW mac, NEW i \in DOMAIN todo'[u],
                Adds(todo'[u][i], "smac", mac)
         PROVE  Announced(mac)' \/ \E j \in 1 .. i - 1 : Adds(todo'[u][j], "dmac", mac)
    <3>1. CASE u # t
      <4>1. todo'[u] = todo[u]
        BY <2>7, <3>1
      <4> QED BY <2>9, <2>14, <4>1 DEF FirstInv
    <3>2. CASE u = t
      <4>1. todo'[u] = v /\ i \in 1 .. Len(w) - 1 /\ v[i] = w[i + 1] /\ i + 1 \in DOMAIN w
            /\ (i + 1) - 1 = i
        BY <2>7, <2>8, <2>14, <3>2
      <4>2. Announced(mac) \/ \E j \in 1 .. i : Adds(w[j], "dmac", mac)
        BY <2>11, <2>14, <4>1
      <4>3. ASSUME NEW j \in 1 .. i, Adds(w[j], "dmac", mac)
            PROVE  Announced(mac)' \/ \E l \in 1 .. i - 1 : Adds(v[l], "dmac", mac)
        <5>1. CASE j = 1
          BY <2>2, <2>10, <4>3, <5>1
        <5>2. CASE j # 1
          <6>1. j - 1 \in 1 .. i - 1 /\ v[j - 1] = w[j]
            BY <2>8, <4>1, <5>2
          <6> QED BY <4>3, <6>1
        <5> QED BY <5>1, <5>2
      <4> QED BY <2>9, <4>1, <4>2, <4>3
    <3> QED BY <3>1, <3>2
  <2> QED BY <2>13, <2>14 DEF FirstInv
<1>2. ASSUME NEW t \in Thread \union {Main}, NEW w, DmacFirst(w), UNCHANGED sent,
             \A u \in Thread \union {Main} : todo'[u] = IF u = t THEN w ELSE todo[u]
      PROVE  FirstInv'
  <2>1. \A mac : Announced(mac)' <=> Announced(mac)
    BY <1>2 DEF Announced
  <2>2. DmacFirst(sent)'
    BY <1>2 DEF FirstInv, DmacFirst
  <2>3. ASSUME NEW u \in Thread \union {Main}, NEW mac, NEW i \in DOMAIN todo'[u],
               Adds(todo'[u][i], "smac", mac)
        PROVE  Announced(mac)' \/ \E j \in 1 .. i - 1 : Adds(todo'[u][j], "dmac", mac)
    <3>1. CASE u # t
      <4>1. todo'[u] = todo[u]
        BY <1>2, <3>1
      <4> QED BY <2>1, <2>3, <4>1 DEF FirstInv
    <3>2. CASE u = t
      <4>1. todo'[u] = w
        BY <1>2, <3>2
      <4> QED BY <1>2, <2>3, <4>1 DEF DmacFirst
    <3> QED BY <3>1, <3>2
  <2> QED BY <2>2, <2>3 DEF FirstInv
<1>3. ASSUME DispatchInput PROVE FirstInv'
  <2>1. UNCHANGED sent /\ todo' = [todo EXCEPT ![Main] = Script]
    BY <1>3 DEF DispatchInput, history
  <2>2. \A u \in Thread \union {Main} : todo'[u] = IF u = Main THEN Script ELSE todo[u]
    BY <2>1 DEF TypeOK, Typed
  <2> QED BY <1>2, <2>1, <2>2
<1>4. ASSUME NEW t \in Thread, InputRemove(t) PROVE FirstInv'
  <2>1. PICK d : d = reported[Head(input_queue)]
    OBVIOUS
  <2>2. PICK a : a = <<fill_dmac_table(Byte(d.port), d.mac), fill_smac_table(Byte(d.port), d.mac)>>
    OBVIOUS
  <2>3. UNCHANGED sent /\ todo' = [todo EXCEPT ![t] = a]
    BY <1>4, <2>1, <2>2, Answer DEF InputRemove
  <2>4. DmacFirst(a)
    BY <2>2 DEF DmacFirst, Adds, fill_dmac_table, fill_smac_table, AddTableEntry, Exact, Match
  <2>5. \A u \in Thread \union {Main} : todo'[u] = IF u = t THEN a ELSE todo[u]
    BY <2>3 DEF TypeOK, Typed
  <2> QED BY <1>2, <2>3, <2>4, <2>5
<1>5. ASSUME UNCHANGED <<sent, todo>> PROVE FirstInv'
  BY <1>5 DEF FirstInv, Announced, Thread, Main
<1>6. ASSUME NEW s \in Switch,
             Accept(s) \/ ReadDigest(s) \/ ReadEnd(s) \/ Connect(s) \/ Leave(s)
               \/ \E mac \in Mac : Arrives(s, mac)
      PROVE  UNCHANGED <<sent, todo>>
  BY <1>6 DEF Accept, ReadDigest, ReadEnd, Connect, Leave, Arrives, threads, history
<1>7. ASSUME NEW t \in Thread, TakeJob(t) \/ OutputRemove(t) \/ OutputWrite(t)
      PROVE  UNCHANGED <<sent, todo>>
  BY <1>7 DEF TakeJob, OutputRemove, OutputWrite, history
<1>8. ASSUME InitDone \/ UNCHANGED state PROVE UNCHANGED <<sent, todo>>
  BY <1>8 DEF InitDone, state, threads, history
<1> QED BY <1>1, <1>3, <1>4, <1>5, <1>6, <1>7, <1>8
        DEF Step, Process, MainStep, ThreadStep, Outside

\* Of at most one connected switch no two differ.
LEMMA AloneIffOne ==
  ASSUME Cardinality(Connected) <= 1
  PROVE  Alone
<1> SUFFICES ASSUME NEW s \in Connected, NEW r \in Connected, s # r PROVE FALSE
  BY DEF Alone
<1>1. IsFiniteSet(Connected) /\ {s, r} \in SUBSET Connected
  BY ControllerAssumption, FS_Subset DEF Connected
<1>2. Cardinality({s} \union {r}) = 2
  <2>1. IsFiniteSet({s}) /\ Cardinality({s}) = 1 /\ r \notin {s}
    BY FS_Singleton
  <2>2. Cardinality({s} \union {r}) = Cardinality({s}) + 1
    BY <2>1, FS_AddElement
  <2> QED BY <2>1, <2>2
<1>3. Cardinality({s, r}) <= Cardinality(Connected) /\ Cardinality(Connected) \in Nat
  BY <1>1, FS_Subset, FS_CardinalityType
<1>4. {s, r} = {s} \union {r}
  OBVIOUS
<1> QED BY <1>2, <1>3, <1>4

\* An address in smac is in dmac, unless its message for dmac was dropped or lost: that
\* message was sent before, and with one switch what is older arrived earlier.
LEMMA KnownThenForwardable ==
  ASSUME TypeOK, PlaceInv, OrderInv, FirstInv, Alone, NEW s \in Switch, NEW mac \in smac(s)
  PROVE  \/ mac \in dmac(s)
         \/ \E n \in dropped \union lost : sent[n].table = "dmac"
<1>1. toSwitch[s] \in Seq(DOMAIN sent) /\ DOMAIN sent \subseteq Nat /\ DOMAIN sent = 1 .. Len(sent)
      /\ Len(sent) \in Nat
  <2>1. DOMAIN sent = 1 .. Len(sent) /\ Len(sent) \in Nat
    BY DEF TypeOK, Typed
  <2>2. toSwitch[s] \in Seq(DOMAIN sent)
    BY DEF TypeOK, Messages
  <2> QED BY <2>1, <2>2
<1>2. PICK i \in DOMAIN toSwitch[s] : Adds(sent[toSwitch[s][i]], "smac", mac)
  BY DEF smac, Entries, Applied, Adds
<1>3. PICK n \in DOMAIN sent : n = toSwitch[s][i]
  BY <1>1, <1>2
<1>4. PICK j \in 1 .. n - 1 : Adds(sent[j], "dmac", mac)
  BY <1>2, <1>3 DEF FirstInv, DmacFirst
<1>5. j \in DOMAIN sent /\ ~(n < j) /\ sent[j].table = "dmac"
  BY <1>1, <1>3, <1>4 DEF Adds
<1>6. Written(n)
  BY <1>2, <1>3 DEF Written
<1>7. ~Queued(j) /\ ~Writing(j)
  BY <1>3, <1>5, <1>6 DEF OrderInv
<1>8. Written(j) \/ j \in dropped \/ j \in lost
  BY <1>5, <1>7 DEF PlaceInv, Apart
<1>9. CASE Written(j)
  <2>1. PICK r \in Switch : \E l \in DOMAIN toSwitch[r] : toSwitch[r][l] = j
    BY <1>9 DEF Written
  <2>2. toSwitch[r] # <<>> /\ toSwitch[s] # <<>>
    BY <1>2, <2>1
  <2>3. r = s
    BY <2>2 DEF OrderInv, Alone, Connected
  <2>4. sent[j] \in Applied(s)
    BY <2>1, <2>3 DEF Applied
  <2>5. mac \in dmac(s)
    BY <1>4, <2>4 DEF dmac, Entries, Adds
  <2> QED BY <2>5
<1> QED BY <1>5, <1>8, <1>9

\* With one switch connected since the start, an address it would no longer report
\* is one it can forward to, or an entry of dmac met a full queue or a closed
\* connection (mac_learn_digest, init).
THEOREM Forwardable ==
  ASSUME DmacFirst(Script), DmacFirst(Startup)
  PROVE  Spec => []KnownIsForwardable
<1> DEFINE IInv == TypeOK /\ PoolInv /\ PlaceInv /\ OrderInv /\ FirstInv
<1>1. Init => IInv
  BY TypeInit, PoolInit, PlaceInit, OrderInit, FirstInit
<1>2. IInv /\ [Step]_state => IInv'
  <2> SUFFICES ASSUME IInv, [Step]_state PROVE IInv'
    OBVIOUS
  <2>1. TypeOK'
    BY TypeStep
  <2>2. PoolInv'
    BY <2>1, PoolStep
  <2>3. PlaceInv'
    BY PlaceStep
  <2>4. OrderInv'
    BY OrderStep
  <2>5. FirstInv'
    BY FirstStep
  <2> QED BY <2>1, <2>2, <2>3, <2>4, <2>5
<1>3. IInv => KnownIsForwardable
  BY AloneIffOne, KnownThenForwardable DEF KnownIsForwardable
<1> QED BY <1>1, <1>2, <1>3, NextIsStep, PTL DEF Spec

-----------------------------------------------------------------------------
(* The controller with its switch at the other end of the connection:      *)
(* module Learning.  Every step of it is a step of Backend or leaves the   *)
(* switch alone, and is a step above or leaves the controller alone, so    *)
(* the invariants of both ends hold, Backend's as Backend_proofs has       *)
(* proved them.  Between the two are                                       *)
(*                                                                         *)
(*   AboutInv   every digest is about an address                           *)
(*   OpenInv    every output_processor has the descriptor of the switch    *)
(*   WireInv    what the controller has written is what the switch was     *)
(*              sent, in the order in which it was handed to send_p4_msg   *)

\* The theorems about the switch.
SP == INSTANCE Backend_proofs WITH
       input_queue <- s_input_queue, output_queue <- s_output_queue, held <- s_held,
       main <- s_main, sent <- s_sent, process <- s_process, Kinds <- {"valid"}

\* The switch of Learning meets the assumption of Backend_proofs.
LEMMA BackendAssumption == SP!BackendAssumption
BY LearningAssumption, ControllerAssumption
   DEF SP!BackendAssumption, SP!Processor, S!Processor, SP!Kind, IsFiniteSet, SP!IsFiniteSet,
       Cardinality, SP!Cardinality

-----------------------------------------------------------------------------
(* A step of Learning, at the switch's end.                                *)

\* The reader of Learning's switch is Backend's ...
LEMMA ReaderIsReader == S!Reader => SP!Reader
<1> USE DEF S!Goto, SP!Goto, S!Hold, SP!Hold, S!pools, SP!pools, S!conn, SP!conn, S!logs, SP!logs
<1>1. S!Select => SP!Select
  BY DEF S!Select, SP!Select, S!Readable, SP!Readable
<1>2. S!ReaderTouch => SP!ReaderTouch
  BY DEF S!ReaderTouch, SP!ReaderTouch, S!Pool!Touch, SP!Pool!Touch,
         S!Pool!TouchNothing, SP!Pool!TouchNothing
<1>3. S!ReadMessage => SP!ReadMessage
  BY DEF S!ReadMessage, SP!ReadMessage, S!Reads, SP!Reads, S!Message, SP!Message,
         S!InQ!Put, SP!InQ!Put
<1>4. S!ReadEnd => SP!ReadEnd
  BY DEF S!ReadEnd, SP!ReadEnd, S!Reads, SP!Reads, S!StreamEnd, SP!StreamEnd
<1>5. S!ReadError => SP!ReadError
  BY DEF S!ReadError, SP!ReadError, S!Reads, SP!Reads
<1>6. S!CloseSocket => SP!CloseSocket
  BY DEF S!CloseSocket, SP!CloseSocket
<1> QED BY <1>1, <1>2, <1>3, <1>4, <1>5, <1>6 DEF S!Reader, SP!Reader

\* ... and so is its input_processor, ...
LEMMA InputIsInput == S!Input => SP!Input
<1> USE DEF S!Goto, SP!Goto, S!Hold, SP!Hold, S!pools, SP!pools, S!conn, SP!conn, S!logs, SP!logs
<1>1. S!InputRemove => SP!InputRemove
  BY DEF S!InputRemove, SP!InputRemove, S!InQ!Take, SP!InQ!Take, S!AfterRemoval, SP!AfterRemoval
<1>2. S!Handle => SP!Handle
  BY DEF S!Handle, SP!Handle, S!Callback, SP!Callback
<1>3. S!GiveBack("input_processor") => SP!GiveBack("input_processor")
  BY DEF S!GiveBack, SP!GiveBack, S!Return, SP!Return, S!Pool!Detouch, SP!Pool!Detouch,
         S!Resume, SP!Resume
<1>4. S!Wakeup("input_processor", s_input_queue) => SP!Wakeup("input_processor", s_input_queue)
  BY DEF S!Wakeup, SP!Wakeup
<1> QED BY <1>1, <1>2, <1>3, <1>4 DEF S!Input, SP!Input

\* ... its output_processor, ...
LEMMA OutputIsOutput ==
  S!Write \/ S!OutputRemove \/ S!GiveBack("output_processor") => SP!Output
<1> USE DEF S!Goto, SP!Goto, S!Hold, SP!Hold, S!pools, SP!pools, S!conn, SP!conn, S!logs, SP!logs
<1>1. S!OutputRemove => SP!OutputRemove
  BY DEF S!OutputRemove, SP!OutputRemove, S!OutQ!Take, SP!OutQ!Take, S!AfterRemoval,
         SP!AfterRemoval
<1>2. S!Write => SP!Write
  BY DEF S!Write, SP!Write
<1>3. S!GiveBack("output_processor") => SP!GiveBack("output_processor")
  BY DEF S!GiveBack, SP!GiveBack, S!Return, SP!Return, S!Pool!Detouch, SP!Pool!Detouch,
         S!Resume, SP!Resume
<1> QED BY <1>1, <1>2, <1>3 DEF SP!Output

\* ... a worker that makes a digest, ...
LEMMA WorkerIsWorker ==
  ASSUME NEW w \in Worker, S!CreateDigest(w) \/ S!Sending(w)
  PROVE  SP!CreateDigest(w) \/ SP!Sending(w)
<1> USE DEF S!Goto, SP!Goto, S!Hold, SP!Hold, S!pools, SP!pools, S!conn, SP!conn, S!logs, SP!logs
<1>1. S!CreateDigest(w) => SP!CreateDigest(w)
  BY DEF S!CreateDigest, SP!CreateDigest, S!Pool!Touch, SP!Pool!Touch, S!Pool!TouchNothing,
         SP!Pool!TouchNothing
<1>2. S!FillDigest(w) => SP!FillDigest(w)
  BY DEF S!FillDigest, SP!FillDigest, S!Digest, SP!Digest, S!DigestNumber, SP!DigestNumber
<1>3. S!SendDigest(w) => SP!SendDigest(w)
  BY DEF S!SendDigest, SP!SendDigest, S!Complete, SP!Complete, S!OutQ!Put, SP!OutQ!Put
<1> QED BY <1>1, <1>2, <1>3 DEF S!Sending, SP!Sending

\* ... the launch of the backend, ...
LEMMA LaunchIsLaunch ==
  S!Connect \/ S!ConnectFails \/ S!DispatchInput \/ S!DispatchOutput => SP!LaunchStep
<1> USE DEF S!Goto, SP!Goto, S!pools, SP!pools, S!conn, SP!conn, S!logs, SP!logs
<1>1. S!Connect => SP!Connect
  BY DEF S!Connect, SP!Connect
<1>2. S!ConnectFails => SP!ConnectFails
  BY DEF S!ConnectFails, SP!ConnectFails
<1>3. S!DispatchInput => SP!DispatchInput
  BY DEF S!DispatchInput, SP!DispatchInput
<1>4. S!DispatchOutput => SP!DispatchOutput
  BY DEF S!DispatchOutput, SP!DispatchOutput
<1> QED BY <1>1, <1>2, <1>3, <1>4 DEF SP!LaunchStep

\* ... and the controller at the other end of its connection.
LEMMA EnvironmentIsEnvironment ==
  S!ControllerSends("valid") \/ (\E how \in {"closed", "reset"} : S!ControllerLeaves(how))
    => SP!Controller
BY DEF S!ControllerSends, SP!ControllerSends, S!ControllerLeaves, SP!ControllerLeaves,
       SP!Controller, S!pools, SP!pools, S!logs, SP!logs

\* Every step of the two processes is one of the switch, or leaves it as it is.
LEMMA SwitchStep ==
  ASSUME [BothNext]_both
  PROVE  [SP!Step]_(SP!vars)
<1>1. ASSUME UNCHANGED switch PROVE UNCHANGED SP!vars
  BY <1>1 DEF switch, SP!vars, SP!pools, SP!conn, SP!logs
<1>3. ASSUME NEW w \in Worker, Digesting(w) \/ \E mac \in Mac : mac_learn(w, mac)
      PROVE  SP!Step
  BY <1>3, WorkerIsWorker DEF Digesting, mac_learn, SwitchOnly, SP!Step
<1>4. CASE BothConnect \/ Launch
  BY <1>4, LaunchIsLaunch DEF BothConnect, Launch, SwitchOnly, SP!Step
<1>5. CASE Reader \/ Input
  BY <1>5, ReaderIsReader, InputIsInput DEF Reader, Input, SwitchOnly, SP!Step
<1>6. CASE Output
  BY <1>6, OutputIsOutput DEF Output, Write, SwitchOnly, SP!Step
<1>7. ASSUME NEW t, ControllerThread(t) PROVE SP!Step \/ UNCHANGED switch
  BY <1>7, EnvironmentIsEnvironment DEF ControllerThread, ControllerWrites, ControllerOnly, SP!Step
<1>8. ASSUME NEW t, ControllerSends(t) PROVE UNCHANGED switch
  BY <1>8 DEF ControllerSends, ControllerOnly
<1>9. ASSUME NEW how \in {"closed", "reset"}, ControllerEnds(how) PROVE SP!Step
  BY <1>9, EnvironmentIsEnvironment DEF ControllerEnds, SP!Step
<1>10. ASSUME ControllerMain PROVE UNCHANGED switch
  BY <1>10 DEF ControllerMain, ControllerOnly
<1>11. ASSUME UNCHANGED both PROVE UNCHANGED switch
  BY <1>11 DEF both
<1> QED BY <1>1, <1>3, <1>4, <1>5, <1>6, <1>7, <1>8, <1>9, <1>10, <1>11 DEF BothNext

-----------------------------------------------------------------------------
(* The invariant.                                                          *)

SwitchInv == SP!IInv /\ SP!MessagesInOrder /\ SP!DigestsInOrder /\ SP!Filled
ControllerInv == TypeOK /\ PoolInv /\ PlaceInv /\ OrderInv /\ FirstInv

\* For every digest a worker has created it has reported an address.
AboutInv ==
  about \in [Worker -> Seq(Mac)] /\ \A w \in Worker : Len(about[w]) = created[w]

\* An output_processor is given the descriptor of the connection, which no switch
\* leaves.
Served(j) == j.kind = "output_processor" => link[It] = "open" /\ j.fd = fd[It]
OpenInv ==
  /\ \A i \in DOMAIN jobs : Served(jobs[i])
  /\ \A t \in Thread : Served(job[t])
  /\ link[It] \in {"down", "pending", "open"}
  /\ lost = {}

\* What the controller has written is what the switch was sent, in the order in
\* which it was handed to send_p4_msg.
WireInv ==
  /\ Len(s_sent) = Len(toSwitch[It])
  /\ \A i, j \in DOMAIN toSwitch[It] : i < j => toSwitch[It][i] < toSwitch[It][j]

BothInv == SwitchInv /\ ControllerInv /\ AboutInv /\ OpenInv /\ WireInv

\* What the controller is told of is an address.
LEMMA AboutAnAddress ==
  ASSUME SwitchInv, AboutInv, S!Write
  PROVE  LET d == content[s_held["output_processor"]]
         IN about[d.from][d.number] \in Mac
<1>1. PICK d : d = content[s_held["output_processor"]]
  OBVIOUS
<1>2. pc["output_processor"] = "write"
  BY DEF S!Write
<1>3. \E w \in Worker : \E n \in 1 .. created[w] : d = SP!Digest(w, n)
  BY <1>1, <1>2, SP!WritesDigests, BackendAssumption DEF SwitchInv
<1>4. PICK w \in Worker : \E n \in 1 .. created[w] : d = SP!Digest(w, n)
  BY <1>3
<1>5. PICK n \in 1 .. created[w] : d = SP!Digest(w, n)
  BY <1>4
<1>6. d.from = w /\ d.number = n
  BY <1>5 DEF SP!Digest
<1>7. about[w] \in Seq(Mac) /\ n \in DOMAIN about[w]
  BY DEF AboutInv
<1>8. about[w][n] \in Mac
  BY <1>7
<1> QED BY <1>1, <1>6, <1>8

\* A step of Learning, at the controller's end.
LEMMA ControllerStep ==
  ASSUME SwitchInv, AboutInv, [BothNext]_both
  PROVE  [Step]_state
<1>1. ASSUME UNCHANGED vars PROVE UNCHANGED state
  BY <1>1 DEF vars, state
<1>2. It \in Switch
  BY LearningAssumption
<1>3. CASE BothConnect
  <2>1. Connect(It)
    BY <1>3 DEF BothConnect
  <2> QED BY <1>2, <2>1 DEF Step, Outside
<1>4. ASSUME Launch \/ Reader \/ Input PROVE UNCHANGED vars
  BY <1>4 DEF Launch, Reader, Input, SwitchOnly
<1>5. ASSUME NEW w, Digesting(w) \/ \E mac : mac_learn(w, mac) PROVE UNCHANGED vars
  BY <1>5 DEF Digesting, mac_learn, SwitchOnly
<1>6. CASE Write
  <2>1. CASE written' = written
    BY <1>1, <1>6, <2>1 DEF Write
  <2>2. CASE written' # written
    <3>1. PICK mac : mac = about[content[s_held["output_processor"]].from]
                                [content[s_held["output_processor"]].number]
      OBVIOUS
    <3>2. mac \in Mac
      BY <1>6, <3>1, AboutAnAddress DEF Write
    <3>3. Arrives(It, mac)
      BY <1>6, <2>2, <3>1 DEF Write, DigestArrives
    <3> QED BY <1>2, <3>2, <3>3 DEF Step, Outside
  <2> QED BY <2>1, <2>2
<1>7. ASSUME Output, ~Write PROVE UNCHANGED vars
  BY <1>7 DEF Output, SwitchOnly
<1>8. CASE ControllerMain
  BY <1>8 DEF ControllerMain, ControllerOnly, Step, Process
<1>9. ASSUME NEW t \in Thread, ControllerThread(t) PROVE Step
  BY <1>9 DEF ControllerThread, ControllerWrites, ControllerOnly, ThreadStep, Step, Process
<1>10. ASSUME NEW t \in Thread \union {Main}, ControllerSends(t) PROVE Step
  BY <1>10 DEF ControllerSends, ControllerOnly, Step, Process
<1>11. ASSUME NEW how, ControllerEnds(how) PROVE UNCHANGED state
  BY <1>11 DEF ControllerEnds, state
<1>12. ASSUME UNCHANGED both PROVE UNCHANGED vars
  BY <1>12 DEF both
<1> QED BY <1>1, <1>3, <1>4, <1>5, <1>6, <1>7, <1>8, <1>9, <1>10, <1>11, <1>12 DEF BothNext

-----------------------------------------------------------------------------
(* The invariant is kept.                                                  *)

\* Hence it keeps what Backend_proofs proves of the switch.
LEMMA SwitchKept ==
  ASSUME SwitchInv, [BothNext]_both
  PROVE  SwitchInv'
<1>1. [SP!Step]_(SP!vars)
  BY SwitchStep
<1>2. SP!IInv'
  BY <1>1, SP!InvStep, BackendAssumption DEF SwitchInv
<1>3. SP!MessagesInOrder'
  BY <1>1, <1>2, SP!MessagesStep, BackendAssumption DEF SwitchInv
<1>4. SP!DigestsInOrder' /\ SP!Filled'
  BY <1>1, <1>2, SP!DigestsStep, BackendAssumption DEF SwitchInv
<1> QED BY <1>2, <1>3, <1>4 DEF SwitchInv

\* It keeps what was proved of the controller as well.
LEMMA ControllerKept ==
  ASSUME SwitchInv, AboutInv, ControllerInv, DmacFirst(Script), [BothNext]_both
  PROVE  ControllerInv'
<1> USE ControllerAssumption DEF ControllerInv
<1>1. [Step]_state
  BY ControllerStep
<1>2. TypeOK'
  BY <1>1, TypeStep
<1>3. PoolInv'
  BY <1>1, <1>2, PoolStep
<1>4. PlaceInv'
  BY <1>1, PlaceStep
<1>5. OrderInv'
  BY <1>1, OrderStep
<1>6. FirstInv'
  BY <1>1, FirstStep
<1> QED BY <1>2, <1>3, <1>4, <1>5, <1>6

\* A digest the switch makes is about the address its frame came from.
LEMMA AboutKept ==
  ASSUME SwitchInv, AboutInv, [BothNext]_both
  PROVE  AboutInv'
<1>1. created \in [Worker -> Nat]
  <2>1. created \in [Worker -> 0 .. MaxDigests]
    BY DEF SwitchInv, SP!IInv, SP!TypeOK
  <2> QED BY <2>1, LearningAssumption
<1>2. ASSUME UNCHANGED <<about, created>> PROVE AboutInv'
  BY <1>2 DEF AboutInv
<1>3. ASSUME NEW w \in Worker, NEW mac \in Mac, mac_learn(w, mac) PROVE AboutInv'
  <2>1. CASE created' = created
    BY <1>2, <1>3, <2>1 DEF mac_learn
  <2>2. CASE created' # created
    <3>1. created' = [created EXCEPT ![w] = @ + 1]
      BY <1>3, <2>2 DEF mac_learn, S!CreateDigest
    <3>2. about' = [about EXCEPT ![w] = Append(@, mac)]
      BY <1>3, <2>2 DEF mac_learn
    <3>3. Append(about[w], mac) \in Seq(Mac) /\ Len(Append(about[w], mac)) = created[w] + 1
      BY DEF AboutInv
    <3> QED BY <1>1, <3>1, <3>2, <3>3 DEF AboutInv
  <2> QED BY <2>1, <2>2
<1>4. CASE BothConnect
  BY <1>2, <1>4 DEF BothConnect, S!Connect, S!logs
<1>5. CASE Launch
  BY <1>2, <1>5 DEF Launch, SwitchOnly, S!ConnectFails, S!DispatchInput, S!DispatchOutput, S!logs
<1>6. ASSUME NEW w \in Worker, Digesting(w) PROVE AboutInv'
  BY <1>2, <1>6 DEF Digesting, SwitchOnly, S!Sending, S!FillDigest, S!SendDigest, S!logs
<1>7. CASE Reader
  BY <1>2, <1>7 DEF Reader, SwitchOnly, S!Reader, S!Select, S!ReaderTouch, S!ReadMessage,
       S!ReadEnd, S!ReadError, S!CloseSocket, S!logs
<1>8. CASE Input
  BY <1>2, <1>8 DEF Input, SwitchOnly, S!Input, S!InputRemove, S!Handle, S!GiveBack, S!Wakeup,
       S!logs
<1>9. CASE Output
  BY <1>2, <1>9 DEF Output, Write, SwitchOnly, S!OutputRemove, S!Write, S!GiveBack, S!logs
<1>10. ASSUME UNCHANGED <<switch, about>> PROVE AboutInv'
  BY <1>2, <1>10 DEF switch
<1>11. CASE ControllerMain
  BY <1>10, <1>11 DEF ControllerMain, ControllerOnly
<1>12. ASSUME NEW t, ControllerThread(t) PROVE AboutInv'
  BY <1>2, <1>10, <1>12 DEF ControllerThread, ControllerWrites, ControllerOnly, S!ControllerSends, S!logs
<1>13. ASSUME NEW t, ControllerSends(t) PROVE AboutInv'
  BY <1>10, <1>13 DEF ControllerSends, ControllerOnly
<1>14. ASSUME NEW how, ControllerEnds(how) PROVE AboutInv'
  BY <1>2, <1>14 DEF ControllerEnds, S!ControllerLeaves, S!logs
<1>15. CASE UNCHANGED both
  BY <1>10, <1>15 DEF both
<1> QED BY <1>3, <1>4, <1>5, <1>6, <1>7, <1>8, <1>9, <1>11, <1>12, <1>13, <1>14, <1>15 DEF BothNext

\* A job for an output_processor is dispatched with the descriptor of the switch.
LEMMA OpenKept ==
  ASSUME TypeOK, OpenInv, [Step]_state
  PROVE  OpenInv'
<1>1. Switch = {It}
  BY LearningAssumption
<1>2. /\ link \in [Switch -> {"down", "pending", "open", "gone", "closed"}]
      /\ fd \in [Switch -> Nat] /\ job \in [Thread -> Job \union {Idle}]
      /\ jobs \in Seq(Job)
  BY DEF TypeOK, Typed
<1>3. ASSUME UNCHANGED <<jobs, job, link, fd, lost>> PROVE OpenInv'
  BY <1>3 DEF OpenInv, Served
<1>4. CASE Accept(It)
  <2>1. link[It] = "pending" /\ link' = [link EXCEPT ![It] = "open"]
        /\ fd' = [fd EXCEPT ![It] = LowestFree] /\ UNCHANGED <<job, lost>>
        /\ jobs' = Append(jobs, [kind |-> "output_processor", fd |-> LowestFree])
    BY <1>4 DEF Accept, history, Behind
  <2>2. link'[It] = "open" /\ fd'[It] = LowestFree
    BY <1>1, <1>2, <2>1
  <2>3. \A i \in DOMAIN jobs : jobs[i].kind # "output_processor"
    BY <2>1 DEF OpenInv, Served
  <2>4. \A t \in Thread : job[t].kind # "output_processor"
    BY <2>1 DEF OpenInv, Served
  <2>5. \A i \in DOMAIN jobs' : (i \in DOMAIN jobs /\ jobs'[i] = jobs[i])
          \/ jobs'[i] = [kind |-> "output_processor", fd |-> LowestFree]
    BY <1>2, <2>1
  <2>6. \A i \in DOMAIN jobs' : Served(jobs[i])'
    BY <2>2, <2>3, <2>5 DEF Served
  <2> QED BY <2>1, <2>2, <2>4, <2>6 DEF OpenInv, Served
<1>5. CASE DispatchInput
  <2>1. PICK f : jobs' = Append(jobs, [kind |-> "input_processor", fd |-> f])
    BY <1>5 DEF DispatchInput, Behind
  <2>2. UNCHANGED <<job, link, fd, lost>>
    BY <1>5 DEF DispatchInput, links, history
  <2>3. \A i \in DOMAIN jobs' : (i \in DOMAIN jobs /\ jobs'[i] = jobs[i])
          \/ jobs'[i] = [kind |-> "input_processor", fd |-> f]
    BY <1>2, <2>1
  <2>4. \A i \in DOMAIN jobs' : Served(jobs[i])'
    BY <2>2, <2>3 DEF Served, OpenInv
  <2> QED BY <2>2, <2>4 DEF OpenInv, Served
<1>6. CASE ReadDigest(It) \/ InitDone
  BY <1>3, <1>6 DEF ReadDigest, InitDone, threads, links, history
<1>7. ~ReadEnd(It) /\ ~Leave(It)
  BY LearningAssumption DEF ReadEnd, Leave, OpenInv
<1>8. ASSUME NEW t \in Thread, TakeJob(t) PROVE OpenInv'
  <2>1. jobs # <<>> /\ job' = [job EXCEPT ![t] = Head(jobs)] /\ jobs' = Tail(jobs)
        /\ UNCHANGED <<link, fd, lost>>
    BY <1>8 DEF TakeJob, links, history
  <2>2. Head(jobs) = jobs[1] /\ 1 \in DOMAIN jobs
        /\ \A i \in DOMAIN jobs' : jobs'[i] = jobs[i + 1] /\ i + 1 \in DOMAIN jobs
    BY <1>2, <2>1
  <2>3. \A u \in Thread : job'[u] = job[u] \/ job'[u] = jobs[1]
    BY <1>2, <2>1, <2>2
  <2> QED BY <2>1, <2>2, <2>3 DEF OpenInv, Served
<1>9. ASSUME NEW t \in Thread, InputRemove(t) \/ OutputRemove(t) PROVE OpenInv'
  BY <1>3, <1>9 DEF InputRemove, OutputRemove, links, history
<1>10. ASSUME NEW t \in Thread, OutputWrite(t) PROVE OpenInv'
  <2>1. link[It] = "open" /\ job[t].fd = fd[It]
    BY <1>10 DEF OutputWrite, OpenInv, Served
  <2>2. Owner(job[t].fd) = {It}
    BY <1>1, <2>1 DEF Owner
  <2>3. UNCHANGED <<jobs, job, link, fd, lost>>
    BY <1>10, <2>1, <2>2 DEF OutputWrite
  <2> QED BY <1>3, <2>3
<1>11. ASSUME NEW t, send_p4_msg(t) PROVE OpenInv'
  BY <1>3, <1>11 DEF send_p4_msg, links
<1>12. CASE Connect(It)
  <2>1. link[It] = "down" /\ link' = [link EXCEPT ![It] = "pending"]
        /\ UNCHANGED <<jobs, job, fd, lost>>
    BY <1>12 DEF Connect, threads, history
  <2>2. link'[It] = "pending"
    BY <1>1, <1>2, <2>1
  <2> QED BY <2>1, <2>2 DEF OpenInv, Served
<1>13. ASSUME NEW mac, Arrives(It, mac) PROVE OpenInv'
  BY <1>3, <1>13 DEF Arrives, threads
<1>14. ASSUME UNCHANGED state PROVE OpenInv'
  BY <1>3, <1>14 DEF state, threads, links, history
<1> QED BY <1>1, <1>4, <1>5, <1>6, <1>7, <1>8, <1>9, <1>10, <1>11, <1>12, <1>13, <1>14
        DEF Step, Process, MainStep, ThreadStep, Outside

\* What is written to the connection is sent to the switch, and in that order.
LEMMA WireKept ==
  ASSUME SwitchInv, ControllerInv, OpenInv, WireInv, [BothNext]_both
  PROVE  WireInv'
<1>1. ASSUME UNCHANGED <<s_sent, toSwitch>> PROVE WireInv'
  BY <1>1 DEF WireInv
<1>2. ASSUME NEW t \in Thread, ControllerWrites(t) PROVE WireInv'
  <2>1. PICK n : n = held[t]
    OBVIOUS
  <2>2. PICK N : N = DOMAIN sent
    OBVIOUS
  <2>3. Switch = {It} /\ t \in Thread
    BY LearningAssumption DEF Thread, Thread
  <2>4. /\ toSwitch \in [Switch -> Seq(N)] /\ N \subseteq Nat
        /\ held \in [Thread -> N \union {None}]
    BY <2>2 DEF ControllerInv, TypeOK, Messages, Typed
  <2>5. job[t].kind = "output_processor" /\ n # None
    BY <1>2, <2>1 DEF ControllerWrites, OutputWrite
  <2>6. link[It] = "open" /\ job[t].fd = fd[It]
    BY <2>3, <2>5 DEF OpenInv, Served
  <2>7. Owner(job[t].fd) = {It}
    BY <2>3, <2>6 DEF Owner
  <2>8. toSwitch' = [toSwitch EXCEPT ![It] = Append(@, n)]
    BY <1>2, <2>1, <2>6, <2>7 DEF ControllerWrites, OutputWrite
  <2>9. PICK w \in Seq(N) : w = toSwitch[It]
    BY <2>3, <2>4
  <2>10. n \in N
    BY <2>1, <2>3, <2>4, <2>5
  <2>11. toSwitch'[It] = Append(w, n)
    BY <2>3, <2>4, <2>8, <2>9
  <2>12. Append(w, n) # w /\ Len(Append(w, n)) = Len(w) + 1
         /\ \A i \in DOMAIN Append(w, n) : IF i \in DOMAIN w THEN Append(w, n)[i] = w[i]
                                                      ELSE i = Len(w) + 1 /\ Append(w, n)[i] = n
    BY <2>9, <2>10
  <2>13. toSwitch' # toSwitch
    BY <2>9, <2>11, <2>12
  <2>14. s_sent' = Append(s_sent, "valid") /\ s_sent \in Seq({"valid"})
    BY <1>2, <2>13 DEF ControllerWrites, S!ControllerSends, SwitchInv, SP!IInv, SP!TypeOK
  <2>15. Len(s_sent') = Len(toSwitch'[It])
    BY <2>9, <2>11, <2>12, <2>14 DEF WireInv
  <2>16. Alone
    BY <2>3 DEF Alone, Connected
  <2>17. ASSUME NEW i \in DOMAIN w PROVE w[i] < n
    <3>1. w[i] \in N
      BY <2>9
    <3>2. Written(w[i])
      BY <2>3, <2>9 DEF Written
    <3>3. Writing(n)
      BY <2>1, <2>3 DEF Writing
    <3> QED BY <2>2, <2>10, <2>16, <3>1, <3>2, <3>3 DEF ControllerInv, OrderInv
  <2>18. ASSUME NEW i \in DOMAIN toSwitch'[It], NEW j \in DOMAIN toSwitch'[It], i < j
         PROVE  toSwitch'[It][i] < toSwitch'[It][j]
    <3>1. i \in DOMAIN w
      <4>1. DOMAIN w = 1 .. Len(w) /\ DOMAIN toSwitch'[It] = 1 .. Len(w) + 1 /\ Len(w) \in Nat
        BY <2>9, <2>10, <2>11
      <4> QED BY <2>18, <4>1
    <3>2. CASE j \in DOMAIN w
      BY <2>9, <2>11, <2>12, <2>18, <3>1, <3>2 DEF WireInv
    <3>3. CASE j \notin DOMAIN w
      BY <2>11, <2>12, <2>17, <3>1, <3>3
    <3> QED BY <3>2, <3>3
  <2> QED BY <2>15, <2>18 DEF WireInv
<1>3. CASE BothConnect
  BY <1>1, <1>3 DEF BothConnect, S!Connect, Connect, links
<1>4. CASE Launch
  BY <1>1, <1>4 DEF Launch, SwitchOnly, vars, links, S!ConnectFails, S!DispatchInput,
       S!DispatchOutput, S!conn
<1>5. ASSUME NEW w, Digesting(w) \/ \E mac : mac_learn(w, mac) PROVE WireInv'
  BY <1>1, <1>5 DEF Digesting, mac_learn, SwitchOnly, vars, links, S!CreateDigest, S!Sending,
       S!FillDigest, S!SendDigest, S!conn
<1>6. CASE Reader
  BY <1>1, <1>6 DEF Reader, SwitchOnly, vars, links, S!Reader, S!Select, S!ReaderTouch,
       S!ReadMessage, S!ReadEnd, S!ReadError, S!CloseSocket, S!conn
<1>7. CASE Input
  BY <1>1, <1>7 DEF Input, SwitchOnly, vars, links, S!Input, S!InputRemove, S!Handle, S!GiveBack,
       S!Wakeup, S!conn
<1>8. CASE Output
  BY <1>1, <1>8 DEF Output, Write, SwitchOnly, vars, links, DigestArrives, Arrives, S!OutputRemove,
       S!Write, S!GiveBack, S!conn
<1>9. CASE ControllerMain
  BY <1>1, <1>9 DEF ControllerMain, ControllerOnly, switch, MainStep, Accept, ReadDigest, ReadEnd,
       DispatchInput, InitDone, links
<1>10. ASSUME NEW t \in Thread, ControllerThread(t) PROVE WireInv'
  BY <1>1, <1>2, <1>10 DEF ControllerThread, ControllerOnly, switch, TakeJob, InputRemove, OutputRemove,
       links
<1>11. ASSUME NEW t, ControllerSends(t) PROVE WireInv'
  BY <1>1, <1>11 DEF ControllerSends, ControllerOnly, switch, send_p4_msg, links
<1>12. ASSUME NEW how, ControllerEnds(how) PROVE WireInv'
  BY <1>1, <1>12 DEF ControllerEnds, S!ControllerLeaves, links
<1>13. CASE UNCHANGED both
  BY <1>1, <1>13 DEF both, switch, vars, links
<1> QED BY <1>3, <1>4, <1>5, <1>6, <1>7, <1>8, <1>9, <1>10, <1>11, <1>12, <1>13 DEF BothNext

\* All of this holds at the beginning.
LEMMA BothInvInit ==
  ASSUME DmacFirst(Script), DmacFirst(Startup), BothInit
  PROVE  BothInv
<1>1. SP!Init
  BY DEF BothInit, S!Init, SP!Init, S!Thread, SP!Thread, S!Processor, SP!Processor, S!Blank, SP!Blank
<1>2. Init
  BY DEF BothInit
<1>3. SwitchInv
  BY <1>1, BackendAssumption, SP!InitInv, SP!MessagesInit, SP!DigestsInit DEF SwitchInv
<1>5. ControllerInv
  BY <1>2, ControllerAssumption, TypeInit, PoolInit, PlaceInit, OrderInit,
     FirstInit DEF ControllerInv
<1>6. AboutInv
  BY <1>1 DEF BothInit, SP!Init, AboutInv
<1>7. Switch = {It}
  BY LearningAssumption
<1>8. OpenInv
  BY <1>2, <1>7 DEF Init, Idle, OpenInv, Served
<1>9. WireInv
  BY <1>1, <1>2, <1>7 DEF SP!Init, Init, WireInv
<1> QED BY <1>3, <1>5, <1>6, <1>8, <1>9 DEF BothInv

-----------------------------------------------------------------------------
(* What the invariant means for the tables.                                *)

\* An address in the switch's smac is in its dmac, unless the message for dmac met a full
\* queue.
LEMMA KnownAtTheSwitch ==
  ASSUME BothInv, NEW mac \in s_smac
  PROVE  \/ mac \in s_dmac
         \/ \E n \in dropped : sent[n].table = "dmac" /\ sent[n].matches[1].value = mac
<1> USE DEF BothInv
<1>1. PICK N : N = DOMAIN sent
  OBVIOUS
<1>2. PICK w : w = toSwitch[It]
  OBVIOUS
<1>3. Switch = {It}
  BY LearningAssumption
<1>4. w \in Seq(N) /\ N \subseteq Nat /\ N = 1 .. Len(sent) /\ Len(sent) \in Nat
  BY <1>1, <1>2, <1>3 DEF ControllerInv, TypeOK, Typed, Messages
<1>5. /\ s_sent \in Seq({"valid"}) /\ taken \in 0 .. Len(s_sent) /\ applied \in Seq(1 .. MaxMsgs)
  BY DEF SwitchInv, SP!IInv, SP!TypeOK
<1>6. SP!NoUnknown /\ \A n \in DOMAIN s_sent : SP!IsValid(n)
  BY <1>5 DEF SP!NoUnknown, SP!Elements, SP!IsValid
<1>7. PICK i \in DOMAIN applied : Adds(sent[w[applied[i]]], "smac", mac)
  BY <1>2 DEF s_smac, s_Entries, s_Applied, Adds
<1>8. PICK p : p = applied[i]
  OBVIOUS
<1>9. p \in DOMAIN w
  <2>1. SP!MessagePath
    BY <1>6, SP!MessagePathIs, BackendAssumption DEF SwitchInv
  <2>2. p \in SP!Elements(applied)
    BY <1>8 DEF SP!Elements
  <2>3. p \in 1 .. taken
    BY <2>1, <2>2 DEF SP!MessagePath, SP!Accepted
  <2> QED BY <1>2, <1>4, <1>5, <2>3 DEF WireInv
<1>10. PICK n \in N : n = w[p]
  BY <1>4, <1>9
<1>11. PICK j \in 1 .. n - 1 : Adds(sent[j], "dmac", mac)
  BY <1>1, <1>7, <1>8, <1>10 DEF ControllerInv, FirstInv, DmacFirst
<1>12. j \in N /\ j < n /\ j \in Nat /\ n \in Nat
  BY <1>4
<1>13. Written(n)
  BY <1>2, <1>3, <1>9, <1>10 DEF Written
<1>14. Alone
  BY <1>3 DEF Alone, Connected
<1>15. ~Queued(j) /\ ~Writing(j)
  BY <1>1, <1>12, <1>13, <1>14 DEF ControllerInv, OrderInv
<1>16. Written(j) \/ j \in dropped
  BY <1>1, <1>12, <1>15 DEF ControllerInv, PlaceInv, Apart, OpenInv
<1>17. CASE Written(j)
  <2>1. PICK l \in DOMAIN w : w[l] = j
    BY <1>2, <1>3, <1>17 DEF Written
  <2>2. l < p
    <3>1. SUFFICES ASSUME p <= l PROVE FALSE
      BY <1>4, <1>9
    <3>2. p = l \/ p < l
      BY <1>4, <1>9, <3>1
    <3> QED BY <1>2, <1>9, <1>10, <1>12, <2>1, <3>2 DEF WireInv
  <2>3. l \in 1 .. p - 1 /\ l \in DOMAIN s_sent
    BY <1>2, <1>4, <1>5, <1>9, <2>1, <2>2 DEF WireInv
  <2>4. PICK k \in DOMAIN applied : applied[k] = l
    BY <1>6, <1>8, <2>3, SP!NothingSkipped, BackendAssumption DEF SwitchInv
  <2>5. sent[j] \in s_Applied
    BY <1>2, <2>1, <2>4 DEF s_Applied
  <2> QED BY <1>11, <2>5 DEF s_dmac, s_Entries, Adds
<1> QED BY <1>11, <1>16, <1>17 DEF Adds

\* In every state of a switch and its controller, whatever the interleaving of
\* their processors, whatever was lost to full queues and pools, and whenever the
\* controller's process ends, an address in the switch's smac table is in its
\* dmac table too, unless the message for dmac met a full output queue: the
\* order in which mac_learn_digest sends the two.  The init script and what is
\* sent before it add addresses in the same order.
THEOREM Forwards ==
  ASSUME DmacFirst(Script), DmacFirst(Startup)
  PROVE  BothSpec => []TablesForwardWhatTheyKnow
<1>1. BothInit => BothInv
  BY BothInvInit
<1>2. BothInv /\ [BothNext]_both => BothInv'
  <2> SUFFICES ASSUME BothInv, [BothNext]_both PROVE BothInv'
    OBVIOUS
  <2>1. OpenInv'
    <3>1. [Step]_state
      BY ControllerStep DEF BothInv
    <3> QED BY <3>1, OpenKept DEF BothInv, ControllerInv
  <2> QED BY <2>1, SwitchKept, ControllerKept, AboutKept, WireKept DEF BothInv
<1>3. BothInv => TablesForwardWhatTheyKnow
  BY KnownAtTheSwitch DEF TablesForwardWhatTheyKnow
<1> QED BY <1>1, <1>2, <1>3, PTL DEF BothSpec
=============================================================================
