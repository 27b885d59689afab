# MACSAD: a verification project

MACSAD compiles a P4 program into an OpenDataPlane (ODP) switch.  The compiler
(Python templates under `src/src/hardware_indep`) writes C for one P4 program;
the rest is a run-time system in C: a control channel between the switch and a
controller, lookup tables that the control channel changes while packets are
looked up in them, and workers that move packets between interfaces.

The modules here model that run-time system in TLA+.  TLC checks every module on
small instances, and TLAPS proves what matters most for all instances: of the queue,
the thread pool, the memory pool, both ends of the control channel, the tables, the
start-up and the workers.  Paths below are relative
to `src/src/hardware_dep` unless they begin with `src/`; `ctrl_plane/` stands for
`shared/ctrl_plane/`, `data_plane/` for `odp/data_plane/`.

Contents: [1 the system](#1-the-system), [2 the modules](#2-the-modules),
[3 the runs](#3-the-runs), [4 fairness](#4-fairness), [5 the proofs](#5-the-proofs),
[6 findings](#6-findings), [7 what is not modelled](#7-what-is-not-modelled),
[8 the plan](#8-the-plan), [9 how to run it](#9-how-to-run-it).

## 1 The system

```
 controller process (controller.c + one of six programs)
   main thread: accept, init script, read digests --> input_queue --> input_processor
                                                                        | digest handler
   socket <-- output_processor <-- output_queue <-- send_p4_msg <--------+
     |  messages.c / handlers.c on both sides, sock_helpers.c for the framing
 switch process (ctrl_plane_backend.c)
   backend_processor --> input_queue --> input_processor --> recv_from_controller
                                                              | tables (odp_tables.c)
   output_processor <-- output_queue <-- generate_digest <-- workers (main_odp.c),
                                          each packet through the generated pipeline
```

| component | source | its state | its operations | interacts with |
|---|---|---|---|---|
| queue | `ctrl_plane/fifo.c` | ring, head, size, tail, mutex, condition variable | add, remove, wait | both ends of the channel, by calls |
| thread pool | `ctrl_plane/threadpool.c` | list of jobs, size, mutex, condition variable | create, dispatch, do_work, destroy | runs the processors of both ends |
| memory pool | `ctrl_plane/ctrl_plane_backend.c:145-330` | two linked lists of cells | touch, detouch | shared by every thread of the backend and by the workers |
| backend | `ctrl_plane/ctrl_plane_backend.c` | two queues, a pool, a socket, a shutdown flag | launch, three processors, digests, stop | queue, pool, thread pool, handlers |
| message codec | `ctrl_plane/messages.c`, `handlers.c`, `sock_helpers.c` | one buffer | create, add, convert, unpack, read, write | both processes |
| controller | `ctrl_plane/controller.c` | two queues, connections, jobs | execute, two processors, send | queue, thread pool, programs |
| controller programs | `ctrl_plane/mac_*.c` | entries read from a file | init script, digest handler | controller, codec |
| tables | `data_plane/odp_tables.c`, `odp_lib.c`, generated code | replicas, default values, shared buffers | add, set default, look up, apply | control plane thread and workers, by shared memory |
| workers | `odp/main_odp.c` | a burst, a transmit buffer for each port | receive, forward, broadcast, send | tables, packet pool |
| pipeline | `odp/includes/odp_primitives.h`, `src/src/hardware_indep/{parser,dataplane,actions}.c.py` | the packet's bytes, header pointers, a cache of parsed fields | parse, look up, act, write back, send | workers, tables, digests |
| start-up | `data_plane/odp_lib.c:508-1187` | arguments, CPUs, interfaces, threads | `parse_args`, `maco_initialize` | creates everything on the switch |
| affinity | `data_plane/odp_lib.c:360-887` | interfaces and queues of every worker | two assignments at start | start-up, workers |
| compiler | `src/src/transpiler.py`, `src/src/hardware_indep/*.py` | none at run time | | writes the code that applies tables |

What makes the system hard to get right is not in any one function:

* **Shared memory without locks.**  Workers and the control plane share the tables,
  one result buffer for each exact table and one global for reversing keys.
* **Ownership by convention.**  A pointer to a cell passes through four threads,
  two queues and a pool, and must be in one place at a time.
* **Condition variables.**  `fifo_wait` tests once instead of in a loop, and
  `do_work` waits on a condition variable without the mutex.
* **Errors nobody looks at.**  A full queue, an exhausted pool, a failed send and a
  failed `create_` are all ignored by their callers.
* **Messages without offsets.**  A reader walks a buffer by the sizes of what it
  believes it finds; every number is converted in place by a separate call.
* **Two homes for one field.**  An action may find a field in the packet or in a cache
  of it, in host or in network order, at any offset and of any width.
* **Endings.**  A stream that ends, a peer that leaves, a thread pool whose
  destruction ends the process.

`PROJECT.json` lists 40 places where one of these bites, with the properties that
would notice, or the reason why none does.

What makes each component correct, in one line: the queue is a bounded first-in
first-out queue that leaves nobody asleep beside an element; the pool never hands a
cell to two holders; the backend loses no cell and no message but in ways that can be
named, and keeps their order; the codec gives the reader what the writer meant; the
controller gets each message to one switch and answers every digest; an update
reaches every replica; a worker acts on the value it looked up; a packet leaves
the switch in the round it came in, or is freed; a field has the value P4 gives it; every
interface has its queues and every worker its CPU.

## 2 The modules

| module | models | instantiated / extended by |
|---|---|---|
| `BoundedQueue` | what a queue promises (abstract) | refined by `Fifo`; used by `Backend`, `Controller` |
| `Fifo` | `fifo.c:18-97` and its consumers' loop | `MCRuntime`, `Runtime_proofs` |
| `CellPool` | what the pool promises (abstract) | refined by `MemPool`; used by `Backend` |
| `MemPool` | `ctrl_plane_backend.c:145-228, 290-330` | `MCRuntime`, `Runtime_proofs` |
| `ThreadPool` | `threadpool.c:52-210` | `MCThreadPool`, `ThreadPool_proofs` |
| `Backend` | `ctrl_plane_backend.c:72-143, 230-288, 332-407`, `odp_primitives.c:87-94` | `MCBackend`, `Backend_proofs`, `Learning` |
| `P4Message` | the shapes of messages (`messages.h`) | `Messages`, the `Mac*` modules |
| `Messages` | `messages.c`, `handlers.c`, `sock_helpers.c`, `recv_from_controller` | `MCMessages`, `Messages_proofs` |
| `MacController`, `MacL2L3Controller`, `MacL3Controller`, `MacL3NhgController`, `MacNatUp`, `MacNatDw` | what each program sends | `MCMessages`; `Controller` extends `MacController` |
| `Controller` | `controller.c:50-249` | `MCController`, `Controller_proofs`, `Learning` |
| `Learning` | `Backend` and `Controller` as two processes over one connection | `MCLearning`, `Controller_proofs` |
| `Tables` | `odp_tables.c`, `odp_lib.c:160-243`, `table_*_key` and `apply_table_*` of `src/src/hardware_indep/dataplane.c.py:42-125`, `*_add` of `src/src/hardware_indep/controlplane.c.py:40-76` | `MCTables`, `Tables_proofs` |
| `Fields` | `odp_primitives.h:20-126`, `shared/includes/dataplane.h:73-110`, `src/src/utils/hlir.py:137-214` | `Pipeline` |
| `Pipeline` | what `parser.c.py`, `dataplane.c.py` and `actions.c.py` generate, `main_odp.c:213-251` | `MCPipeline`, `Pipeline_proofs` |
| `Affinity` | `odp_lib.c:360-465, 774-871` | `Startup` |
| `Startup` | `odp_lib.c:124-149, 508-621, 873-887, 907-1187` | `Worker` |
| `Worker` | `main_odp.c:123-335` | `MCWorker`, `Worker_proofs` |

Operators keep the names of the C functions where TLA+ allows (`fifo_add_msg`,
`recv_from_controller`, `num_rx_queue`).  An operator that is introduced as a mutant is
a faulty variant of the one defined after it (the `+1` that is forgotten, the
signal that is not sent); nothing in a specification uses it.  `PROJECT.json`
says which property each of them must break.

**Fifo.**  Every function of `fifo.c` does its work between one lock and one unlock,
so each is one action; only `pthread_cond_wait` splits `fifo_wait` in two.  The
variables are those of `fifo_t`, `asleep` (the threads in `pthread_cond_wait`) and
for each consumer its place in the loop all four users share.  The refinement mapping
sends the ring to the sequence of its occupied slots, `Contents`.

**MemPool.**  The lists are `next` and `prev`, functions from cells to cells as in
the C structs; `prev` is left as it is where the code leaves it.  The mapping to
`CellPool` is the set of cells reached from the head of the unused list.

**ThreadPool.**  `do_work` waits without the mutex, which with glibc releases
a mutex that another thread may hold; so this module has one action for each
statement that reads or writes shared state, and not one for each critical section.
Its owner pauses between the jobs of one launch (`ctrl_plane_backend.c:243, 245`,
`controller.c:209`), and a pause is taken to be long enough for every thread to run a job or
sleep; it does not pause before the first job of a launch, nor between two launches.  A job
may return at any time, and its `work_t` is freed then.  The history variable `raced` says that a
dispatch met a thread that has found no work, or is about to look, and does not sleep yet;
`unsignalled` that the first job of a launch went behind another one and woke nobody, though a
thread slept.  A pointer that is null or freed, once followed, ends the behaviour as undefined.

**Backend.**  One action for each call: a processor's removal, its handling, the
return of its cell; for the worker the three calls of `generate_digest`.  Queues and
pool are the abstract ones.  The bytes of a message are abstracted to five
kinds, by what the code does with them.  The controller at the other end sends
messages of any kind, closes the connection or resets it at any moment.

**Messages.**  The buffer is a partial function from offsets to structs, with the
sizes of `messages.h`; the reader computes its own offsets.  Numbers are 16 or 32
bits and really swapped.  A program's `fill_*` functions become `AddTableEntry` and
`SetDefaultAction` records, from which the module makes the calls in the order in which the
C functions make them.  `installed` is what the generated code would give the table.

**Controller.**  The main thread, the pool's threads and the queues they share
between all connections.  A descriptor is a number and is reused as `accept`
does, so a message can be written to another connection than the one it was
dispatched for.  The program is `mac_controller.c`; the switch is external and
reports an address as long as it is not in its table `smac`.

**Tables.**  One action for each access to memory that threads share: the reversal
of a key in `reverse_buffer` and the reading of it, the copy of a hit to `ext->kv`
(two steps, action and parameter), and each of the three reads of the result that
the generated code makes.  ODP's own tables are external, and a put in them is one
step.  An address is a sequence of bits; the key of a prefix table is turned round octet
by octet on both sides, as the loops do, so that a prefix shorter than the address covers the
last octets of it first.  That is what the code does; no property says that it is the
longest prefix P4 means.  The workers change tables too: each, as it starts, sets the default of
every table that has no key and one action, in both replicas with the pause between them
(`init_keyless_tables`, `main_odp.c:276`), while others may be running and the controller
may set the same default.  None of the P4 programs in the repository
has such a table, but the code is generated for any.  `spoilt` is a history variable: it remembers whose buffer another thread
has written into.

**Learning.**  Extends `Controller` and has an instance of `Backend`, with variables of its
own (`s_`...).  Where either of them has an environment, here is the other: what
the controller's `output_processor` writes is what `backend_processor` reads, and the other
way round; a worker reports an address unless the switch's own `smac` has it.  Connecting
and the two writes are steps of both processes, all others of one.  The controller's process
may end at any moment, with a reset if there was something it had not read.

**Fields, Pipeline.**  `Fields` has the macros that read and write a field, bit for
bit: a word is the set of its bits that are 1.  `Pipeline` is the code that the templates
generate for a P4 program given as a constant (headers, parser, tables, actions, checksums),
run over one packet after another.  Beside the code's state it keeps `value`, what P4 says
of each field along the same path; the properties compare the two.  Tables give any result,
as `Tables` is about which one.

**Affinity, Startup, Worker.**  `Affinity` has operators only: from a configuration to the
interfaces and queues of each worker (`Polls` is who polls which queue).  `Startup` is the main
thread, one action for each part of `maco_initialize`, any of which may fail; `Worker` extends
it by the loop of one of the workers it has created.  `EgressPort` are the ports a controller's
actions name, any numbers: `send_packet` compares them with nothing.  There is a buffer for
each of `MAX_PKTIOS` ports, a round sends those of the ports with an interface, and a
port beyond the array ends the behaviour as undefined.

## 3 The runs

| run | distinct states | what it asks | bounds |
|---|---|---|---|
| `runtime` | 3,760 | ring, lock and condition variable implement the queue, no wakeup is lost, every element is removed; the pool's lists stay well formed and implement the pool | 3 slots, 2 elements, 2 consumers, any number of adds; 5 cells, returned in any order |
| `threadpool` | 101,913 | every job is taken, once and in order, and no bad pointer followed, until a dispatch meets a thread about to sleep | 3 threads, 5 jobs, launches of 2 |
| `threadpool_first` | violation | `threadpool.h:50-52`: a dispatch sends a thread off | 3 threads, 3 jobs, one launch |
| `backend` | 3,856,593 | ownership, room, losses and order in both flows | 3 cells, 3 slots, 1 worker, 2 messages of all kinds, 3 digests |
| `backend_eof` | violation | `ctrl_plane_backend.c:100` is for the end of the stream only | 2 cells, 1 message |
| `messages` | 2,133 | framing, walking, conversion, installation | every message of the six programs; 0 to 7 parameters, 1 to 5 matches of every kind; the real 2048 bytes |
| `controller` | 704,398 | where messages go, one digest at a time, learning | 2 switches, 1 may leave; 3 threads; 3 slots; 2 digests |
| `learning` | 147,089 | the switch and the controller together: what the switch knows, and that it learns | 1 worker, 2 cells, 2 addresses, 2 digests, 3 controller threads, queues of 2 |
| `tables` | 413,644 | replicas, shared buffers, freed values; workers that start beside the controller | 2 workers, 3 tables, 1 of them without a key, 6 updates, 2 packets; `FirstUpdateLast` |
| `tables_miss` | violation | a default action takes the P4 program's miss | as `tables` |
| `worker` | 757,980 | start-up, queues, CPUs, transmit buffers, the packet pool | 0-5 interfaces and 4 slots, 1-4 workers and 3 slots, 1 or 3 queues, 1 or 5 CPUs; bursts of 2, 4 packets, for ports 0-3 and 15 |
| `pipeline` | 165,882 | fields, keys, checksums, ports, crashes | `l2_l3.p4`, `nat.p4`, a program with keys of two fields, one with a header only some packets have, and a field at every offset and of every width up to 32 bits between two others; several packets in a row |

Why the bounds are enough for what is asked:

* `runtime`, the queue: three slots let head and tail wrap in every relative position, and two
  consumers are what it takes for one to take the element the other was woken for.
  With two equal elements in flight the refinement still tells a slot that is read
  twice, because the abstract queue has their number and order.
* `runtime`, the pool: five cells give a list with a head, an end and three in the middle, so
  that two neighbours in the middle can be unlinked in both orders.  The two share no variable
  and no lock; `RuntimeSpec` moves one only while the other is as it began, and so explores
  each in full.
* `threadpool`: three threads are what both users create; five jobs are more than
  there are threads, and make three launches of two, the second and the third of which follow
  without a pause.  The constraint `UntilRaced` cuts a behaviour off where `raced` becomes true:
  every property of this run is true from there on, the temporal one included.  What happens
  then is the subject of `threadpool_first`, which has no constraint.
* `backend`: as many cells as slots is the tightest proportion the assumption
  allows (the code has 1000 and 1024).  Three cells are one fewer than the four threads that
  can hold one, so that the pool runs dry.  Two messages are enough for one to
  overtake another.
* `controller`: the third connection only adds jobs nobody takes, as the second
  already does.  An init script of one message and two digests fill a queue of three.
* `tables`: two workers and the control plane are every pair of accesses to the
  shared buffers; the script adds to both kinds of table and sets one default twice.
  Addresses of two octets, of a bit each, show which octet a prefix covers.
  The workers' state does not depend on the address beyond which prefix it is in, and
  both packets share one prefix and differ in the longer one.
  Before the second update all orders are explored in which the workers and the first one set the default
  of the table without a key: a worker may be starting, in either replica, or running, with a
  packet that uses that default.  The constraint `FirstUpdateLast` lets the controller go on only after
  those in which both workers are through, its default came last and no value was lost.  The
  cut is for the size of the run alone; the theorems of `Tables_proofs` have none.
* `learning`: one worker and one connection are what the claims are about; two addresses
  make four messages, which overflow a queue of two at every place; two cells against
  three threads that want one make the pool run dry.  `backend` and `controller` have the
  larger instances of each side.
* `worker`: fewer, as many and more workers than interfaces all occur, divisible and not;
  three queues are as many as the workers, one is fewer.  Every limit (4 for `MAX_PKTIOS`,
  3 for `MAC_MAX_LCORE`) is met and passed.  A buffer of two fills in one round and overflows
  in the next.  With up to three interfaces that work and four buffers, the ports 0 to 3 are with and
  without an interface; 15, which `mac_l3_nhg_controller.c:121` sends, has no buffer.
* `pipeline`: the macros depend on offset and width alone, and all of those are there, with
  neighbours that a mask one bit off would change.  The two example programs have every
  construct that is modelled; a second packet finds what the first one left, which is what the
  header that only some packets have is for: the copy of its field is read without it.

Deadlock is checked wherever the system cannot stop; the other configurations say
`CHECK_DEADLOCK FALSE` because a process ends, a bound is used up, or (the
thread pool) everybody may wait for a job.

The properties, by module:

* `Fifo`: `RingInv` (head, size and tail agree), `WakeupsKeepUp` (whenever somebody
  sleeps there is a consumer awake for each queued element),
  `ImplementsBoundedQueue`, `EventuallyRemoved`.
* `MemPool`: `ListsPartitionCells`, `BackLinks` (a handed-out cell can be unlinked
  through its `prev`), `ImplementsCellPool`.
* `ThreadPool`: `TakenInOrder`, `ListChangesExclusive` (the broken lock never lets
  two threads into the list at a time), `PointersGood` (no null or freed pointer is followed,
  nothing is freed twice), `EveryJobTaken`.  They are about what the pool does as long as
  no dispatch meets a thread that is about to sleep: a first dispatch that comes before
  the threads have locked for the first time, or after they sleep, jobs that return between two
  dispatches, and launches in a row are all in it.  In the window itself the pool fails, which
  `DispatchSendsThread` shows (section 6); `EveryJobTaken` also names the job that is
  put behind another and signals nobody.
* `Backend`: `OneOwner`, `QueuesHaveRoom`, `LossesAccountedFor`, `MessagesInOrder`,
  `DigestsInOrder`.
* `Messages`: `Framing`, `RoundTrip` (with the reader in step), `RulesInstalled`.
* `Controller`: `EveryMessageInOnePlace`, `HandledOneByOne`, `KnownIsForwardable`,
  `ReportedIsLearned`.
* `Learning`: `TablesForwardWhatTheyKnow` (even after the controller has ended between two
  messages), `AddressLearned` (through all queues and threads of both processes),
  `EveryMessageApplied`, `EveryCellReturns`.
* `Tables`: `TablesFollowUpdates`, `UndisturbedActsRight`, `FreedOnlyByReset`.
* `Pipeline`: `FieldsHoldTheirValues`, `KeysMatch`, `ChecksumsHold`, `SentWhereTold`,
  `CrashOnlyOnMissingHeader`.
* `Startup`: `QueuesAreServed`, `WorkersHaveOwnCpu`.  `Worker`: `NothingWaits`, `PoolBalance`.

Several are stated as *"only in these ways"*: the code does lose cells, drop messages and
share buffers, and the property names every way in which it does, so that a
change that opens another way is found.  So a property that is listed with a hazard need not
forbid it:

* A message that is written to another switch than the one it was meant for counts as written
  once in `EveryMessageInOnePlace`; the properties of what a switch learns are therefore stated for
  the only switch.
* `HandledOneByOne` says that handlers do not overlap; that a third switch is never served, since
  the pool has three threads, is what the model does and no property forbids.
* `Controller` and `Learning` take `dispatch` to put a job in the list from which a thread takes it:
  the lost and the missed signal are in `ThreadPool` only.
* Eight interfaces (`odp_lib.c:1121`) and more workers than `mconf` has slots for are exceptions of
  `QueuesAreServed` and `WorkersHaveOwnCpu`: these are claimed below the limit, and beyond it the
  model ends as undefined.
* `FreedOnlyByReset` does not claim that freed memory is never read; it claims that there is freed
  memory only where a default was set by two.

## 4 Fairness

Fairness is assumed of threads, never of the environment.

* `Fifo`, `ThreadPool`: weak fairness of each thread's next step: the operating
  system runs whatever can run.  Nobody has to add an element; spurious wakeups
  may happen and never have to.
* `Learning`: weak fairness of each thread of both processes: the backend's launch, its
  three processors, a worker that has begun a digest, the controller's main loop, its
  threads and its unfinished scripts, and the reading of the connection.  No frame has to
  arrive, and the controller's process may go on for ever.
* `Controller`: the same for its own threads: weak fairness of the main loop, of each thread and of each
  unfinished script; and of reading each connection, since the loop over the
  descriptors serves every ready one before it calls `select` again.  Switches need
  not connect, report or leave.
* The other modules have safety properties only.

## 5 The proofs

`Runtime_proofs`, of `Fifo` (any ring size above 0, any set of elements, any finite set of
consumers; assumption `FifoAssumption`):

* `RingCorrect`: `Spec => []RingInv`, from `TypeCorrect` (`TypeOK`) and `IndicesCorrect`
  (`IndicesAgree`).  The second is inductive together with the first; the work is modular
  arithmetic.  The lemmas `ModSmall`, `ModWrap`,
  `ModInjective`, `ModShift` and `ModSucc` state once that an index wraps at most
  once; `StoreSlot` and `RemoveSlots` use them for the two changes of the ring.
* `NoLostWakeup`: `Spec => []WakeupsKeepUp`.  Not inductive by itself: a sleeper has
  to be inside `fifo_wait` (`SleepersWait`), or a consumer that leaves the wait
  could be counted as asleep.  An add makes one element more and one sleeper fewer,
  a removal one element fewer, and a consumer falls asleep only where there is none.
* `RefinesBoundedQueue`: `Spec => Queue!Spec`.  A store is a put, a removal a
  take, and everything else a release or a stutter; `Contents'` is computed by
  `StoreSlot` and `RemoveSlots`.

`Runtime_proofs`, of `MemPool` (any finite set of cells; assumption `MemPoolAssumption`):

* `ListsPart`, `PrevIsGood`, `RefinesCellPool`: `ListsPartitionCells`, `BackLinks` and the
  implementation of `CellPool`.  What the properties find by walking the links, the
  inductive invariant `Linked` states by two enumerations of the cells, without
  repetitions, along which the links run.  An operation puts a cell in front of one
  enumeration (`Before`) and removes one from the other (`Without`).  That `Walk`
  follows an enumeration is an induction over its steps.

`Backend_proofs` (any finite pool no larger than the queues, any set of workers, any
kinds, any bounds; assumption `BackendAssumption`):

* The inductive invariant `IInv` is `TypeOK`, `OneOwner`, `Control` and
  `ReadCells`.  `Control` says at which places of its loop each thread holds a cell
  (without it, a cell could be queued by a thread that has none, or a
  thread could take a second one); `ReadCells` says that what waits for
  `input_processor` are messages that were read, which gives the type of the number
  it hands to the callback.
* `OwnerStep`, `ControlStep`, `ReadStep` and `TypeStep` each show one conjunct, one
  step for each action; the lemmas `TouchOwner`, `ForgetOwner`, `ReturnOwner`,
  `PutOwner` and `TakeOwner` cover the five things that can happen to a cell.
* `TypeCorrect`, `CellsHaveOneOwner`: consequences of `Invariance`.
* `NeverFull`: `Spec => []QueuesHaveRoom`.  The cells in a queue are distinct, and
  the one in hand is not among them, so a queue is shorter than the pool is large
  (`ShorterThanPool`, from `FiniteSetTheorems`).
* `LossesHaveCauses`: `Spec => []LossesAccountedFor`.  The cells nobody can reach are
  counted as those that are in no place; every action that makes one, or a
  processor that leaves its loop with one, also adds to what the property allows.
* `MessagesKeepOrder`, `DigestsKeepOrder`: `MessagesInOrder` and `DigestsInOrder`.  Both
  follow a path: a sequence of what has arrived, then what one thread has in hand, then
  a queue.  `MessageMoves` and `DigestMoves` show that every step leaves the path alone, adds
  to its end, moves the border between arrived and under way, or loses the first that is
  under way; this needs `IInv`, for no thread may write into a cell that is on its way.
  `MessagePathStep` and `DigestPathStep` show that such moves keep the path sorted, and
  `Filled` that a queued cell holds a finished digest.  The two properties say *for all pairs
  of places, the earlier has the smaller number*, and not that two sequences are equal,
  so that they can be proved without lemmas on filtered sequences.

`ThreadPool_proofs` (any number of threads, jobs, and jobs in a launch; `ThreadPoolAssumption`):

* `JobsInOrder`, `ListIsExclusive`, `PointersStayGood`: `TakenInOrder`, `ListChangesExclusive`,
  `PointersGood`.  What is proved is `Spec => [](raced \/ IInv)`: `IInv` is inductive as long as
  no dispatch meets a thread that is about to sleep, and nothing is claimed of what follows one
  that does.  The mutex proves nothing by itself, as
  `do_work` waits without it and glibc releases it for whoever has it.  `LockInv` says when
  it can be relied on: while there is something to exclude, no thread is on its way into the
  wait, and at most one, or the owner, is inside, with the lock.  `ListInv` says which jobs
  the list holds in the middle of each operation, `CurInv` which one a thread has taken,
  `FreedInv` that a freed one is nobody's.  Without the disjunct `raced` all three are false: `cond_wait`
  then releases the mutex of whoever has it.

`Tables_proofs` (any tables, workers, width and script of updates; `TablesAssumption`):

* `ReplicasFollow`, `CleanWorkersActRight`, `FreedByResetOnly`: `TablesFollowUpdates`,
  `UndisturbedActsRight`, `FreedOnlyByReset`.  `ControlInv` is about who changes tables: the
  control plane and, for the tables without a key, each worker as it starts (`Starting`); what
  running workers do to it is one thing, they may overwrite `reverse_buffer`.  `WorkerInv` adds that a worker that uses a shared buffer and is not marked as
  spoilt was the last to write into it, and that nobody else is about to.

`Worker_proofs` (any number of interfaces, CPUs, queues, workers; any burst;
`StartupAssumption`, `WorkerAssumption`):

* `QueuesServedAtStart`, `OwnCpus`: `StartInv` follows the start-up: arguments, interfaces,
  mask, opened queues, and the CPU a worker gets is ahead of the first one by its rank.
  `QueueOf` shows that the queue dealt to the n-th worker is n modulo the number of queues, which
  is where sharing and gaps are decided.
* `NoPacketWaits`, `PoolBalances`: `LoopInv` follows the loop: buffers are empty
  between rounds unless a packet was sent back to where it came from, and those of ports without
  an interface unless one was named, so that a burst fits into each.  The pool is a sum over the buffers; `TotalCounts` shows that it is the
  size of a set of packets, and a step moves packets between such sets.

`Controller_proofs` (any finite set of switches, any number of threads, digests and
messages; `ControllerAssumption`):

* `MessagesKept`: `EveryMessageInOnePlace`.  `TypeOK` gives every number its range
  (an accepted connection finds a free descriptor: `FreeDescriptor`, by counting).  `PoolInv`
  says that jobs alternate between the two kinds, in the list and among the threads, so that
  no `input_processor` holds a message.  `PlaceInv` says that the five places exclude each
  other and have no message twice.
* `OneByOne`: `HandledOneByOne`, with the hypothesis `Threads <= 3`; the code creates three
  (`controller.c`), the jobs alternate and no job ends, so that only the second thread can be
  an `input_processor`.  With four threads it is false, as TLC shows.  `DigestInv` is the order,
  from the socket through the queue to the handler.
* `Forwardable`: `KnownIsForwardable`, for scripts that add to `dmac` before `smac`
  (`DmacFirst`).  `InitIsDmacFirst` and `BuiltinIsDmacFirst` prove that what `mac_controller.c`
  sends is such a script, for any file of entries.  `FirstInv` follows the order through
  senders that take turns; `OrderInv` shows that with one switch there is one writer, so
  that what is written is older than what it holds, and that older than what is queued.
* `Forwards`: `TablesForwardWhatTheyKnow` of `Learning`, with the same hypothesis.  No step of
  either end is looked at again for what was proved of it alone: `SwitchStep` shows that a step
  of `Learning` is one of `Backend` or leaves the switch as it is, `ControllerStep` the same of
  the controller, so that the invariants of `Backend_proofs` (as an instance) and those
  above hold together (`SwitchKept`, `ControllerKept`).  For this they are
  stated of `[Step]_...`, what a step changes, and not of when the process runs.  Between the two
  stand `AboutInv` (a digest is about an address), `OpenInv` (whoever writes has the switch's
  descriptor) and `WireInv` (what the switch was sent is what was handed to `send_p4_msg`, in
  that order).  `KnownAtTheSwitch` then follows an entry of `smac` back: an older message for
  `dmac` was sent (`FirstInv`), is no longer under way (`OrderInv`), hence was dropped or written
  (`PlaceInv`), earlier (`WireInv`), and the switch has skipped nothing before what
  it has applied (`NothingSkipped`, from `MessagesInOrder`).

`Pipeline_proofs` (any programs, packets and ports; `PipelineAssumption`):

The assumption is what the compiler and the parser see to.  `ProgramIsSound`: the parts of a
program refer to one another, the fields of a header do not overlap and end inside it, no
statement is one for which the templates call `addError`, no parameter that is copied as bytes
is wider than its field (or narrower, in metadata), which the templates accept and cut
(`CallIsSound`), and a case of a parse state that may end without a table is its last one:
the generated code goes on to the cases behind such a case (`format_p4_node` of no node is
empty), which is not modelled (`ParserIsSound`).  `LongEnough`: a packet has the headers
that the parser takes from it.  The code does not compare the two; without it, a parse state
reads beyond the packet.  `PipelineAssumption` is evaluated on all programs of the run.

* A macro of `odp_primitives.h` is described by the bits of the packet.  `ReadAs` is a field
  read in the order of the packet or of the host, `Wrote` says that memory has changed in
  the field's bits only, to those of a value.  `NetRead`, `HostRead`, `NetWrite`, `HostWrite`,
  `BytesRead` and `BytesWrite` prove this of every macro, for any offset and width, from
  lemmas on masks, shifts and the reversal of bytes; `ReadOther` that a write leaves
  the fields elsewhere as they were, and `AlikeValues` when a copy in the host's order keeps the value.
* `CrashOnly`: `CrashOnlyOnMissingHeader`.  `PlaceInv` keeps the worker at a place
  the program has; `MarkedInv` says that a copy that is MODIFIED is of a header that is there, or
  was left by an earlier packet, or that the program has used a missing header.
* `Values`: `FieldsHoldTheirValues`.  `MemoryInv` says that headers lie in the packet and
  apart from each other, and that what the parser has still to extract fits behind them (the
  witness of `LongEnough` bounds where each parse state begins); hence `FieldsApart`: no two
  fields share a bit.  `ValuesInv` says for every place in the code what the copy and the bytes of each
  field hold: the value, if the copy is valid or the bytes are up to date.  It has a lemma
  for each action (`ConstValues`, `ParamValues`, `CopyBytesValues`, `CopyInt32Values`,
  `AddValues`, `ReceiveValues`, `ExtractValues`, `UpdateValues`).
* `Checksums`: `ChecksumsHold`.  Both loops of `update_packet` are folds over a
  set of fields; `FoldInduction` proves what holds of every subset.  A checksum is of the
  header's bytes but for its own two, so that a write to another field would spoil it: the copies
  are written first, and a header has one calculated field (`CalculateStays`).
* `Sent`: `SentWhereTold`, and `Keys`: `KeysMatch`, both from `ValuesInv`.  For the keys, `FlatCut`
  shows that of two sequences of parts that agree but for the length of the last, one
  is the beginning of the other, as long as the sum of the widths says.

The proof found a case the run had missed: `copy_int32` may read the copy of a
header which the packet has not, and which still is that of an earlier packet.  The
property now names it, and a program of the run has it.

`Messages_proofs` (any programs, any messages that `IsMessage` admits, any P4 programs, any
buffer; `MessagesAssumption`):

The assumption is what the types of `messages.h` let a program say (a match's length is a
`uint16_t`), that a digest has as many fields as a controller that knows it reads, and that
no buffer has room for more than ten parameters; the code's has 2048 bytes, room for seven.

* The inductive invariant `IInv` refers to a function of the message alone: `At(m, i)`, the
  offset of its i-th struct, the sum of the sizes before it.  `Layout`, `InOrder` and `Different`
  prove that structs follow one another without overlap, `Within` that none passes `End(m)`.
  `BuildInv` says that after k calls the buffer holds the structs 1 to k of the
  message at these offsets (`Filled`), and nothing else, and that the length is the next
  offset.  `ReadInv` says that what is read is the first k
  matches or parameters of the message, and that the structs the reader has not come to
  are as they were sent (`Ahead`): it converts in place, so that this is not true of the others.
* Every action has a lemma (`MatchKeeps` to `RecvKeeps`); `OneMore` is behind those of the writer,
  `ReadOn` behind those of the reader.  `Swap16Twice` and `Swap32Twice` prove that the swaps
  of bytes undo themselves on all numbers of 16 and 32 bits, `ConvertedTwice` from it that every
  struct is converted as often by one side as by the other.
* `Framed`: `Framing`.  A program is stopped exactly when the next offset would be beyond the
  buffer, and then the end of the message is (`Within`).  `RoundTripKept`: `RoundTrip`; that no
  message is refused for its number of structs is counting (`Few`).
* `RulesKept`: `RulesInstalled`, for programs that name the tables, actions and parameters of
  their P4 program (`Agrees`).  The run shows, with the same property, that the six programs do.

`RefinesBoundedQueue` and `RefinesCellPool` are what makes it sound for `Backend` and
`Controller` to use the abstract queue and pool.

Only model-checked:

* Liveness (`EventuallyRemoved`, `EveryJobTaken`, `ReportedIsLearned`, and `AddressLearned`,
  `EveryMessageApplied` and `EveryCellReturns` of `Learning`): a proof needs `ENABLED` and
  fairness, which are out of this prover's reach.
* That the hypotheses of `RulesKept` and `Forwardable` hold of each controller program beyond
  the entries that the runs give it; `DmacFirst` is proved of `mac_controller.c` (above).
* Everything about an individual instance: the programs of `MCPipeline`, the P4 programs'
  tables in `MCMessages`.  The theorems hold for any.

Induction over data is possible where the claim can be put as a set of numbers that contains
0 and each successor, as for `Walk`, `Total`, `QueueOf`, `Sums` and `FoldInduction`; the
library's induction theorems, which take an operator as a parameter, cannot be used.

## 6 Findings

Each has a run that shows it.

1. `backend_eof`: a message that is a header only makes `read_p4_msg` return 0, which
   `ctrl_plane_backend.c:100` takes for the end of the stream; the control connection
   is closed for good.
2. `tables_miss`: the generated code treats the default action as a miss by an index
   behind the value, of which `odp_tables.c:134` writes one byte of four.
3. `threadpool_first`: `threadpool.h:50-52` says that `dispatch` sends a thread off, and blocks if
   all are busy.  It never blocks.  `do_work` unlocks before it waits, so that a signal in between
   wakes nobody, and no pause stands before the first dispatch of `launch_backend`.  When all three
   threads are there, the next two dispatches find a list that is not empty and do not signal:
   the backend's processors are never started.

Met on the way, in the models as what the code does, and named in the hazards or as an
exception of a property:

* With eight interfaces, which `usage` allows (`odp_lib.c:480`), the handle written to
  `pktios[8]` (`odp_lib.c:1121`) lies on `if_count`, `num_workers` and `cpu_count`.  With an ODP
  whose invalid handle is 0 (linux-generic) no worker gets a queue, none sends, and all are
  pinned to one CPU.
* `-C` decides how many workers there are and where the main thread runs; the workers get
  CPUs of ODP's choice, named or not.  A mask of one CPU asks for 0 workers, which means all.
  Nothing compares their number with the 32 slots of `mconf`.
* A port that a controller names is not compared with the number of interfaces: a packet for one
  without an interface stays in a buffer that no round sends, until it overflows, and one for port
  8 or more is written behind the array.  `mac_l3_nhg_controller.c:121` names 15.
* A worker that starts late sets the default of a table without a key again, over the
  controller's, and frees the value others are using; two may free the same one.
* `pd->dropped` is not read: a dropped packet goes to the egress port of its metadata, 0
  if it was not set.  A packet with a wrong checksum leaves with a right one.  `egress_spec`
  is not looked at, and `control egress` is not applied.
* A key with a field of less than 32 bits before its last one never matches what the
  control plane has filed.
* An action on a field of a header that the packet has not leaves the copy marked as
  modified, and the process ends when it is written back, in this packet or a later one.  An
  action that only reads such a field gets the value an earlier packet had in it.
* The last assertion of `tests/test_messages.c:94` does not hold on a little-endian host; an
  empty memory pool is dereferenced (`ctrl_plane_backend.c:96`, `odp_primitives.c:89`); with
  two switches the init script of one may be sent to the other.

## 7 What is not modelled

* The compiler (`src/src/transpiler.py`, `src/src/utils`): a sequential program
  from a P4 AST to C, with no state that lives on.  What its helpers in `hlir.py` decide for
  the generated code is part of `Fields` and `Pipeline`.
* Of the pipeline: masks of `modify_field`, `set_metadata`, saturating addition, fields
  of variable width or that end beyond the fourth byte of their word, header stacks, and
  adding, removing and copying headers; counters and registers, resubmit
  and recirculation, most of which are empty functions.
* Of the start-up: `-d`, `-m` and `-o`, which change nothing that is used later, the printed
  tables, and `SIGTERM` and the like, which abort the process.
* `shared/data_plane/ternary_naive.c` and `vector.c`: not called; `ternary_add` and
  `ternary_lookup` are empty.
* `fifo_destroy`, `destroy_backend`, `destroy_controller`: reached only after
  `destroy_threadpool`, which ends the process.
* Test drivers, tools, scripts, traces, example programs; of the P4 examples the
  tables and actions that the controllers name are constants of `MCMessages`.

External, and modelled from how the code uses it: the sockets' behaviour, glibc's
condition variables, ODP's cuckoo and prefix tables, ODP's packet and queue calls.

## 8 The plan

The order was: the queue, the pools, the backend that composes them (the core), the
codec, the controller, the tables, the workers, and then the generated pipeline, the
start-up and the composition of both processes; then the proofs, in the same order.
Every safety property of the passing runs is now a theorem.  What is left is outside of the
prover's reach (section 5) or of what is modelled (section 7).

The runs ask about as many properties as the project means to have; what is added later
should take the place of something shallower.

## 9 How to run it

In this directory, with TLC and TLAPS (1.4.5) and the community modules on their path:

    tlc -workers 2 -config MCRuntime.cfg MCRuntime
    tlapm Runtime_proofs.tla

The runs, with their modules, configurations and properties, the mutants of each
property and the lines of source behind every definition are in `PROJECT.json`.
