----------------------------- MODULE ThreadPool -----------------------------
(***************************************************************************)
(* threadpool.c, used by the backend and by the controllers to run their   *)
(* processors.  do_work calls pthread_cond_wait without holding qlock (it  *)
(* unlocks it on the line before), which POSIX leaves undefined.  What     *)
(* glibc does is modelled: the caller is put among the sleepers, then      *)
(* qlock is released, whoever has it.  The critical sections are therefore *)
(* not atomic, and every statement of theirs is an action.                 *)
(*                                                                         *)
(* The owner of the pool sleeps a second between two dispatches of one     *)
(* launch, and that is taken to be long enough for every thread to run a   *)
(* job or to be asleep.  It does not sleep before the first one, nor       *)
(* between two launches, so a dispatch may find a thread that has seen no  *)
(* work and does not sleep yet.  What depends on that is told by raced.    *)
(*                                                                         *)
(* shutdown and dont_accept are 0 from creation on and their branches are  *)
(* left out; nobody waits on q_empty.                                      *)
(***************************************************************************)
EXTENDS Integers, Sequences

CONSTANTS
  Thread,    \* the threads of the pool, 3 for a backend
  MaxJobs,   \* bound on the jobs the owner dispatches
  PerLaunch, \* jobs with a pause between them: the 3 of launch_backend, the 2
             \* of every connection in execute_controller
  NULL

Job == 1..MaxJobs

ASSUME ThreadPoolAssumption ==
  MaxJobs \in Nat /\ PerLaunch \in Nat \ {0} /\ NULL \notin Job

VARIABLES
  locked,               \* qlock
  qsize, qhead, qtail,  \* of _threadpool
  next,                 \* next[j]: the link of the work_t of job j
  asleep,               \* threads blocked on q_not_empty
  pc, cur,              \* of each thread
  owner,                \* where the dispatching thread is
  dispatched,           \* how many jobs it has begun to dispatch
  freed,                \* the jobs whose work_t has been freed
  process,              \* "running", "killed" or "undefined"
  taken,                \* history: the jobs taken from the list, in order
  raced,                \* history: a dispatch met a thread about to sleep
  unsignalled           \* history: a dispatch with no pause before it left a
                        \* sleeping thread asleep

list == <<qsize, qhead, qtail, next>>
history == <<raced, unsignalled>>
vars == <<locked, list, asleep, pc, cur, owner, dispatched, taken, freed,
          process, history>>

-----------------------------------------------------------------------------
Init ==
  /\ locked = FALSE
  /\ qsize = 0 /\ qhead = NULL /\ qtail = NULL
  /\ next = [j \in Job |-> NULL]
  /\ asleep = {}
  /\ pc = [t \in Thread |-> "lock"]
  /\ cur = [t \in Thread |-> NULL]
  /\ owner = "idle" /\ dispatched = 0
  /\ taken = <<>> /\ freed = {}
  /\ raced = FALSE /\ unsignalled = FALSE
  /\ process = "running"

Goto(t, l) == pc' = [pc EXCEPT ![t] = l]

\* Faulty variants: a lock that never makes anybody wait, a job linked in front
\* of the others, and a dispatch that signals nobody.
FreeAlways == TRUE
LinkInFront ==
  /\ next' = [next EXCEPT ![dispatched] = qhead]
  /\ qhead' = dispatched
  /\ UNCHANGED qtail
SignalNobody == UNCHANGED asleep

-----------------------------------------------------------------------------
(* dispatch.                                                               *)

Free == ~locked

\* pthread_cond_signal(&q_not_empty)
Signal ==
  \/ asleep = {} /\ UNCHANGED asleep
  \/ \E t \in asleep : asleep' = asleep \ {t}

\* A thread that has yet to test qsize, or found 0 there, and does not sleep yet.
AboutToSleep(t) == pc[t] \in {"test", "unlock_to_wait", "cond_wait"}

DispatchLock ==
  /\ owner = "idle" /\ dispatched < MaxJobs /\ Free
  /\ locked' = TRUE
  /\ dispatched' = dispatched + 1
  /\ owner' = "link"
  /\ raced' = (raced \/ \E t \in Thread : AboutToSleep(t))
  /\ UNCHANGED <<list, asleep, pc, cur, taken, freed, process, unsignalled>>

LinkBehind ==
  /\ next' = [next EXCEPT ![qtail] = dispatched]
  /\ qtail' = dispatched
  /\ UNCHANGED qhead

\* The first job of a launch has no pause before it.
FirstOfLaunch == dispatched % PerLaunch = 1 % PerLaunch

\* The new work_t becomes the whole list, and a thread is signalled, or goes
\* behind the last one, and none is.
DispatchLink ==
  /\ owner = "link"
  /\ \/ /\ qsize = 0
        /\ qhead' = dispatched /\ qtail' = dispatched
        /\ Signal
        /\ UNCHANGED <<next, unsignalled>>
     \/ /\ qsize # 0
        /\ LinkBehind
        /\ unsignalled' = (unsignalled \/ (FirstOfLaunch /\ asleep # {}))
        /\ UNCHANGED asleep
  /\ owner' = "count"
  /\ UNCHANGED <<locked, qsize, pc, cur, dispatched, taken, freed, process, raced>>

DispatchCount ==
  /\ owner = "count"
  /\ qsize' = qsize + 1
  /\ owner' = "unlock"
  /\ UNCHANGED <<locked, qhead, qtail, next, asleep, pc, cur, dispatched, taken,
                 freed, process, history>>

\* After the last job of a launch the owner does not sleep.
DispatchUnlock ==
  /\ owner = "unlock"
  /\ locked' = FALSE
  /\ owner' = IF dispatched % PerLaunch = 0 THEN "idle" ELSE "pause"
  /\ UNCHANGED <<list, asleep, pc, cur, dispatched, taken, freed, process, history>>

\* sleep(1) returns.  The assumption about time: the threads have settled.
Settled == \A t \in Thread : pc[t] = "run" \/ t \in asleep
PauseEnds ==
  /\ owner = "pause" /\ Settled
  /\ owner' = "idle"
  /\ UNCHANGED <<locked, list, asleep, pc, cur, dispatched, taken, freed, process,
                 history>>

\* destroy_threadpool: SIGUSR1 has no handler and ends the whole process.
Destroy ==
  /\ owner = "idle" /\ dispatched = MaxJobs /\ Free
  /\ process' = "killed"
  /\ UNCHANGED <<locked, list, asleep, pc, cur, owner, dispatched, taken, freed,
                 history>>

-----------------------------------------------------------------------------
(* do_work.                                                                *)

Lock(t) ==
  /\ pc[t] = "lock" /\ Free
  /\ locked' = TRUE
  /\ Goto(t, "test")
  /\ UNCHANGED <<list, asleep, cur, owner, dispatched, taken, freed,
                 process, history>>

Test(t) ==
  /\ pc[t] = "test"
  /\ Goto(t, IF qsize = 0 THEN "unlock_to_wait" ELSE "read_head")
  /\ UNCHANGED <<locked, list, asleep, cur, owner, dispatched, taken, freed,
                 process, history>>

UnlockToWait(t) ==
  /\ pc[t] = "unlock_to_wait"
  /\ locked' = FALSE
  /\ Goto(t, "cond_wait")
  /\ UNCHANGED <<list, asleep, cur, owner, dispatched, taken, freed,
                 process, history>>

\* pthread_cond_wait by a thread that does not hold the mutex.
CondWait(t) ==
  /\ pc[t] = "cond_wait"
  /\ asleep' = asleep \cup {t}
  /\ locked' = FALSE
  /\ Goto(t, "waiting")
  /\ UNCHANGED <<list, cur, owner, dispatched, taken, freed,
                 process, history>>

SpuriousWakeup(t) ==
  /\ t \in asleep
  /\ asleep' = asleep \ {t}
  /\ UNCHANGED <<locked, list, pc, cur, owner, dispatched, taken, freed,
                 process, history>>

Relock(t) ==
  /\ pc[t] = "waiting" /\ t \notin asleep /\ Free
  /\ locked' = TRUE
  /\ Goto(t, "test")
  /\ UNCHANGED <<list, asleep, cur, owner, dispatched, taken, freed,
                 process, history>>

ReadHead(t) ==
  /\ pc[t] = "read_head"
  /\ cur' = [cur EXCEPT ![t] = qhead]
  /\ taken' = Append(taken, qhead)
  /\ Goto(t, "decrement")
  /\ UNCHANGED <<locked, list, asleep, owner, dispatched, freed,
                 process, history>>

OneLess == qsize - 1

Decrement(t) ==
  /\ pc[t] = "decrement"
  /\ qsize' = OneLess
  /\ Goto(t, "relink")
  /\ UNCHANGED <<locked, qhead, qtail, next, asleep, cur, owner, dispatched,
                 taken, freed,
                 process, history>>

\* Faulty variant: the list is emptied one job early.
OneLeft == qsize <= 1
LastTaken == qsize = 0

Relink(t) ==
  /\ pc[t] = "relink"
  /\ IF LastTaken THEN qhead' = NULL /\ qtail' = NULL
     ELSE qhead' = next[cur[t]] /\ UNCHANGED qtail
  /\ Goto(t, "unlock")
  /\ UNCHANGED <<locked, qsize, next, asleep, cur, owner, dispatched, taken, freed,
                 process, history>>

Unlock(t) ==
  /\ pc[t] = "unlock"
  /\ locked' = FALSE
  /\ Goto(t, "call")
  /\ UNCHANGED <<list, asleep, cur, owner, dispatched, taken, freed,
                 process, history>>

\* The routine of the job is called.
Call(t) ==
  /\ pc[t] = "call"
  /\ Goto(t, "run")
  /\ UNCHANGED <<locked, list, asleep, cur, owner, dispatched, taken, freed,
                 process, history>>

\* The routine returned, as backend_processor may do at any time: free(cur) and
\* round the loop.  To free it a second time is undefined.
JobEnds(t) ==
  /\ pc[t] = "run"
  /\ process' = IF cur[t] \in freed THEN "undefined" ELSE process
  /\ freed' = freed \cup {cur[t]}
  /\ cur' = [cur EXCEPT ![t] = NULL]
  /\ Goto(t, "lock")
  /\ UNCHANGED <<locked, list, asleep, owner, dispatched, taken, history>>

-----------------------------------------------------------------------------
Dispatch ==
  DispatchLock \/ DispatchLink \/ DispatchCount \/ DispatchUnlock \/ PauseEnds
do_work(t) ==
  \/ Lock(t) \/ Test(t) \/ UnlockToWait(t) \/ CondWait(t) \/ Relock(t)
  \/ ReadHead(t) \/ Decrement(t) \/ Relink(t) \/ Unlock(t) \/ Call(t)

\* The next statement follows a pointer to no work_t: undefined, and the end of
\* the behaviours modelled.
Gone(j) == j = NULL \/ j \in freed
BadPointer ==
  \/ owner = "link" /\ qsize # 0 /\ Gone(qtail)
  \/ \E t \in Thread :
       /\ Gone(cur[t])
       /\ (pc[t] = "relink" /\ ~LastTaken) \/ pc[t] = "call"

Next ==
  /\ process = "running" /\ ~BadPointer
  /\ \/ Dispatch \/ Destroy
     \/ \E t \in Thread : do_work(t) \/ JobEnds(t) \/ SpuriousWakeup(t)

Spec == Init /\ [][Next]_vars

\* The threads and the owner run whenever they can.  No job has to end: the
\* processors' loops do not.
Alive(A) == process = "running" /\ ~BadPointer /\ A
FairSpec ==
  /\ Spec
  /\ WF_vars(Alive(Dispatch))
  /\ \A t \in Thread : WF_vars(Alive(do_work(t)))

-----------------------------------------------------------------------------
\* Jobs are taken in the order they were dispatched in, and none is taken twice,
\* although do_work releases a lock it does not have (threadpool.c:67-68), unless
\* a dispatch met a thread that was about to sleep.
TakenInOrder == raced \/ taken = [i \in 1..Len(taken) |-> i]

\* A thread that leaves its slot in the pool for want of work breaks the lock of
\* another one (threadpool.c:68), but never while the list of jobs is being
\* changed: the owner and the threads that take a job exclude each other, unless
\* a dispatch met a thread that was about to sleep.
Taking(t) == pc[t] \in {"read_head", "decrement", "relink"}
Dispatching == owner \in {"link", "count", "unlock"}
ListChangesExclusive ==
  raced \/
    /\ \A t, u \in Thread : Taking(t) /\ Taking(u) => t = u
    /\ \A t \in Thread : Taking(t) => ~Dispatching

\* The list, its length and the threads' cur agree so far that nobody follows a
\* null pointer or uses a job that was freed, whenever jobs end, under the same
\* condition.
PointersGood == raced \/ (~BadPointer /\ process # "undefined")

Taken(j) == \E i \in DOMAIN taken : taken[i] = j
AllBusy == \A t \in Thread : pc[t] = "run"

\* A job that was dispatched is taken, unless from some time on all threads are
\* busy for good.  The signal of threadpool.c:178 is lost only on a thread that was
\* about to sleep, and the one that threadpool.c:179-182 does without is missed
\* only by the first job of a launch that follows another without a pause
\* (controller.c:210, then 208).
EveryJobTaken ==
  \/ <>[]AllBusy
  \/ \A j \in Job : dispatched >= j ~> Taken(j) \/ process # "running"
                                         \/ raced \/ unsignalled

\* "dispatch sends a thread off to do some work.  If all threads in the pool
\* are busy, dispatch will block until a thread becomes free and is
\* dispatched." (threadpool.h:50-52)
DispatchSendsThread ==
  \/ <>[]AllBusy
  \/ \A j \in Job : dispatched >= j ~> Taken(j) \/ process # "running" \/ BadPointer
=============================================================================
