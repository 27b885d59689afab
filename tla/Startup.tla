------------------------------ MODULE Startup ------------------------------
(***************************************************************************)
(* odp_lib.c: maco_initialize, the main thread of the switch.  It reads    *)
(* the arguments, chooses the CPUs, configures the interfaces and their    *)
(* queues, creates the tables and the control plane, and creates the       *)
(* workers, each pinned to a CPU.  Any call of ODP may fail, which ends    *)
(* the process.                                                            *)
(***************************************************************************)
EXTENDS Affinity

CONSTANTS
  Arguments,      \* [cpus, if_count, cpu_count, cpu_mask]: the CPUs of the machine,
                  \* the interfaces of -i, -c or 0, and -C or None
  Capabilities,   \* [max_input_queues, max_output_queues] of the interfaces
  MAX_PKTIOS,     \* 8: the slots of gconf->pktios
  MAC_MAX_LCORE,  \* 32: the slots of gconf->mconf
  None

ASSUME StartupAssumption ==
  /\ MAX_PKTIOS \in Nat \ {0} /\ MAC_MAX_LCORE \in Nat \ {0}
  /\ \A a \in Arguments : a.cpus \in Nat \ {0} /\ a.if_count \in Nat /\ a.cpu_count \in Nat
  /\ \A c \in Capabilities :
       c.max_input_queues \in Nat \ {0} /\ c.max_output_queues \in Nat \ {0}

VARIABLES
  args, capa,    \* the arguments, and what the interfaces are capable of
  stage,         \* where maco_initialize is
  appl,          \* gconf->appl: if_count, num_workers and cpu_count
  control,       \* the CPU of the main thread, if it is pinned
  cpumask,       \* the CPUs for the workers
  opened,        \* interfaces create_pktio has configured
  bound,         \* the workers and the ports that have their queues
  started,       \* interfaces odp_pktio_start was called for
  cpu, cpu_of,   \* the CPU of the next worker, and of those created
  process        \* "running", "exited", or "undefined" once memory is overwritten

startup == <<args, capa, stage, appl, control, cpumask, opened, bound, started, cpu, cpu_of>>

-----------------------------------------------------------------------------
(* What ODP says of the machine.                                           *)

WorkerCpus == IF args.cpus = 1 THEN {0} ELSE 1 .. args.cpus - 1

\* As many of them as there are and were asked for, or all for 0.
odp_cpumask_default_worker(num) ==
  LET count == IF num = 0 THEN Cardinality(WorkerCpus)
               ELSE Least(num, Cardinality(WorkerCpus))
  IN CHOOSE S \in SUBSET WorkerCpus : Cardinality(S) = count

odp_cpumask_default_control == {0}

First(mask) == CHOOSE c \in mask : \A d \in mask : c <= d

-----------------------------------------------------------------------------
\* gconf_init.
Init ==
  /\ args \in Arguments /\ capa \in Capabilities
  /\ stage = "parse_args"
  /\ appl = [if_count |-> 0, num_workers |-> 0, cpu_count |-> 0]
  /\ control = {} /\ cpumask = {}
  /\ opened = 0 /\ started = 0
  /\ bound = [workers |-> {}, ports |-> {}]
  /\ cpu = 0 /\ cpu_of = <<>>
  /\ process = "running"

\* For macs_set_worker_afinity, create_pktio and macs_set_queue_afinity.
config ==
  [if_count |-> args.if_count, num_workers |-> Cardinality(cpumask),
   max_input_queues |-> capa.max_input_queues, max_output_queues |-> capa.max_output_queues]

\* As many interfaces as there are slots, and no CPU that a worker may not have.
Acceptable ==
  /\ args.if_count \in 1 .. MAX_PKTIOS
  /\ args.cpu_mask # None => args.cpu_mask \subseteq WorkerCpus

parse_args ==
  /\ stage = "parse_args" /\ Acceptable
  /\ appl' = [appl EXCEPT !.if_count = args.if_count, !.cpu_count = args.cpu_count]
  /\ stage' = "cpus"
  /\ UNCHANGED <<args, capa, control, cpumask, opened, bound, started, cpu, cpu_of, process>>

usage ==
  /\ stage = "parse_args" /\ ~Acceptable
  /\ process' = "exited" /\ UNCHANGED startup

\* With -C the main thread gets the first CPU of the mask, and of the others only
\* their number is used: the workers get CPUs of ODP's choice.  An empty mask has no
\* first CPU, and the main thread cannot be pinned (Fails).
Pin(mask) ==
  /\ mask # {}
  /\ control' = {First(mask)}
  /\ cpumask' = odp_cpumask_default_worker(Cardinality(mask) - 1)

\* Without, a control CPU if there are more than two CPUs.
Wanted == IF appl.cpu_count # 0 THEN appl.cpu_count ELSE MAC_MAX_LCORE
PinNot ==
  /\ control' = IF args.cpus > 2 THEN odp_cpumask_default_control ELSE {}
  /\ cpumask' = odp_cpumask_default_worker(Wanted)

\* The arguments of the workers are numbered in mconf, without a test of how many
\* there are; then the pool and macs_set_worker_afinity (Rx).
ChooseCpus ==
  /\ stage = "cpus"
  /\ IF args.cpu_mask # None THEN Pin(args.cpu_mask) ELSE PinNot
  /\ appl' = [appl EXCEPT !.num_workers = Cardinality(cpumask')]
  /\ process' = IF Cardinality(cpumask') > MAC_MAX_LCORE THEN "undefined" ELSE "running"
  /\ stage' = "create_pktio"
  /\ UNCHANGED <<args, capa, opened, bound, started, cpu, cpu_of>>

create_pktio ==
  /\ stage = "create_pktio" /\ opened < args.if_count
  /\ opened' = opened + 1
  /\ UNCHANGED <<args, capa, stage, appl, control, cpumask, bound, started, cpu, cpu_of,
                 process>>

\* Behind the last interface an invalid handle, all zero, is written: with
\* MAX_PKTIOS of them behind the array, over the first members of appl.
MarkEnd ==
  /\ stage = "create_pktio" /\ opened = args.if_count
  /\ appl' = IF opened < MAX_PKTIOS THEN appl
             ELSE [if_count |-> 0, num_workers |-> 0, cpu_count |-> 0]
  /\ stage' = "queues"
  /\ UNCHANGED <<args, capa, control, cpumask, opened, bound, started, cpu, cpu_of, process>>

\* Which queues: RxQueue and TxQueue.  Then odpc_lookup_tbls_init,
\* odpc_lcore_conf_init and init_control_plane (modules Tables and Backend).
macs_set_queue_afinity ==
  /\ stage = "queues"
  /\ bound' = [workers |-> 0 .. appl.num_workers - 1,
               ports |-> IF appl.num_workers = 0 THEN {} ELSE 0 .. appl.if_count - 1]
  /\ cpu' = First(cpumask)
  /\ stage' = "start"
  /\ UNCHANGED <<args, capa, appl, control, cpumask, opened, started, cpu_of, process>>

odp_pktio_start ==
  /\ stage = "start" /\ started < args.if_count
  /\ started' = started + 1
  /\ UNCHANGED <<args, capa, stage, appl, control, cpumask, opened, bound, cpu, cpu_of,
                 process>>

\* The next CPU of the mask, or the first again; a mutant that leaves one out.
After(mask, c) == IF \A d \in mask : d <= c THEN First(mask) ELSE First({d \in mask : d > c})
OneOmitted(mask, c) == After(mask, c + 1)
maco_get_next_cpu(mask, c) == After(mask, c)

\* The number of workers is that of ChooseCpus, whatever appl says by now.
CreateWorker ==
  /\ stage = "start" /\ started = args.if_count
  /\ cpu_of' = Append(cpu_of, cpu)
  /\ cpu' = IF appl.cpu_count > 0 THEN maco_get_next_cpu(cpumask, cpu) ELSE cpu
  /\ stage' = IF Len(cpu_of') = Cardinality(cpumask) THEN "join" ELSE stage
  /\ UNCHANGED <<args, capa, appl, control, cpumask, opened, bound, started, process>>

\* A CPU cannot be had, the pool or an interface cannot be created or started.
Fails ==
  /\ \/ stage \in {"cpus", "create_pktio"}
     \/ stage = "start" /\ started < args.if_count
  /\ process' = "exited" /\ UNCHANGED startup

maco_initialize ==
  \/ parse_args \/ usage \/ ChooseCpus \/ create_pktio \/ MarkEnd
  \/ macs_set_queue_afinity \/ odp_pktio_start \/ CreateWorker \/ Fails

-----------------------------------------------------------------------------
\* When the last worker has been created, each of them has its queues and every
\* interface is open and started; however interfaces and workers are numbered and
\* whatever the interfaces are capable of, queues are shared only where they may
\* be, and none is forgotten.  Not so with as many interfaces as usage allows
\* (odp_lib.c:1121).
QueuesAreServed ==
  stage = "join" /\ args.if_count < MAX_PKTIOS =>
    /\ bound = [workers |-> Workers(config), ports |-> Interfaces(config)]
    /\ opened = args.if_count /\ started = args.if_count
    /\ DOMAIN cpu_of = 1 .. Cardinality(cpumask)
    /\ QueuesServed(config)

\* No two workers are pinned to one CPU when -c is given, whatever else is and
\* however many CPUs there are, but for the same number of interfaces; and none
\* gets that of the main thread, unless -C names it.
WorkersHaveOwnCpu ==
  /\ \A v, w \in DOMAIN cpu_of :
       v # w /\ cpu_of[v] = cpu_of[w] =>
         args.cpu_count = 0 \/ args.if_count = MAX_PKTIOS
  /\ \A w \in DOMAIN cpu_of : cpu_of[w] \in control => args.cpu_mask # None
=============================================================================
