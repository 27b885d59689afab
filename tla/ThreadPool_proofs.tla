------------------------- MODULE ThreadPool_proofs -------------------------
(***************************************************************************)
(* Theorems about ThreadPool, for every number of threads and of jobs.     *)
(* do_work calls pthread_cond_wait without the lock and so releases        *)
(* whoever's it is: all of them hold until a dispatch meets a thread that  *)
(* is about to sleep (raced).                                              *)
(*                                                                         *)
(* The invariant says when that cannot do harm.  While there is something  *)
(* to exclude (Exclusive), no thread is on its way into pthread_cond_wait, *)
(* and at most one thread, or the owner, is inside, with the lock.         *)
(* Threads break each other's lock only while the list is empty, and it    *)
(* stays empty until a dispatch, which finds none of them at that point or *)
(* has raced.  Jobs may end at any time: a job that is freed was taken, is *)
(* no longer on the list, and is nobody's cur.                             *)
(***************************************************************************)
EXTENDS ThreadPool, SequenceTheorems, TLAPS

\* The threads that believe they have the lock.
Inside(t) == pc[t] \in {"test", "read_head", "decrement", "relink", "unlock"}

Exclusive ==
  \/ qsize # 0
  \/ Dispatching
  \/ \E t \in Thread : Taking(t) \/ pc[t] = "unlock"

LockInv ==
  Exclusive =>
    /\ \A t \in Thread : pc[t] \notin {"unlock_to_wait", "cond_wait"}
    /\ \A t, u \in Thread : Inside(t) /\ Inside(u) => t = u
    /\ \A t \in Thread : Inside(t) => locked /\ ~Dispatching
    /\ Dispatching => locked

-----------------------------------------------------------------------------
(* The list holds the jobs out + 1, ..., in; qsize follows with a delay.   *)

CountedIn == IF owner \in {"link", "count"} THEN dispatched - 1 ELSE dispatched
LinkedIn == IF owner = "link" THEN dispatched - 1 ELSE dispatched
Someone(l) == \E t \in Thread : pc[t] \in l
CountedOut == IF Someone({"decrement"}) THEN Len(taken) - 1 ELSE Len(taken)
LinkedOut == IF Someone({"decrement", "relink"}) THEN Len(taken) - 1 ELSE Len(taken)

ListInv ==
  /\ qsize = CountedIn - CountedOut
  /\ qhead = IF LinkedOut < LinkedIn THEN LinkedOut + 1 ELSE NULL
  /\ qtail = IF LinkedOut < LinkedIn THEN LinkedIn ELSE NULL
  /\ \A j \in Job : LinkedOut < j /\ j < LinkedIn => next[j] = j + 1

CurInv ==
  \A t \in Thread :
    /\ pc[t] \in {"read_head", "decrement"} => qsize # 0
    /\ pc[t] \in {"decrement", "relink"} => cur[t] = Len(taken)
    /\ pc[t] \in {"decrement", "relink", "unlock", "call", "run"} => cur[t] # NULL

Location == {"lock", "test", "unlock_to_wait", "cond_wait", "waiting", "read_head",
             "decrement", "relink", "unlock", "call", "run"}

TypeOK ==
  /\ locked \in BOOLEAN
  /\ dispatched \in 0..MaxJobs
  /\ qsize \in Nat
  /\ qhead \in Job \cup {NULL} /\ qtail \in Job \cup {NULL}
  /\ next \in [Job -> Job \cup {NULL}]
  /\ asleep \subseteq {t \in Thread : pc[t] = "waiting"}
  /\ pc \in [Thread -> Location]
  /\ cur \in [Thread -> Job \cup {NULL}]
  /\ owner \in {"idle", "link", "count", "unlock", "pause"}
  /\ Dispatching => dispatched # 0
  /\ taken \in Seq(Job)
  /\ freed \subseteq Job

Order == taken = [i \in 1..Len(taken) |-> i]

\* A job that was freed was taken and is nobody's, and one in a thread's hands is
\* that thread's alone.
FreedInv ==
  /\ \A j \in freed : j <= Len(taken)
  /\ \A t \in Thread : cur[t] # NULL => cur[t] \notin freed /\ cur[t] <= Len(taken)
  /\ \A t, u \in Thread : cur[t] # NULL /\ cur[t] = cur[u] => t = u
  /\ process # "undefined"

IInv == TypeOK /\ LockInv /\ ListInv /\ CurInv /\ Order /\ FreedInv

USE DEF Goto, list, history, Dispatching

-----------------------------------------------------------------------------
(* Who is inside.                                                          *)

\* The critical sections stay exclusive as long as there is something to exclude.
LEMMA LockStep ==
  ASSUME TypeOK, LockInv, Next, ~raced'
  PROVE  LockInv'
<1> USE DEF TypeOK, Location
<1>1. CASE DispatchLock
  BY <1>1 DEF DispatchLock, AboutToSleep, Free, LockInv, Exclusive, Inside, Taking
<1>2. CASE DispatchLink \/ DispatchCount
  BY <1>2 DEF DispatchLink, DispatchCount, LockInv, Exclusive, Inside, Taking
<1>3. CASE DispatchUnlock \/ PauseEnds
  BY <1>3 DEF DispatchUnlock, PauseEnds, LockInv, Exclusive, Inside, Taking
<1>4. CASE Destroy
  BY <1>4 DEF Destroy, LockInv, Exclusive, Inside, Taking
<1>5. ASSUME NEW t \in Thread, Lock(t) \/ Relock(t)
      PROVE  LockInv'
  BY <1>5 DEF Lock, Relock, Free, LockInv, Exclusive, Inside, Taking
<1>6. ASSUME NEW t \in Thread, Test(t)
      PROVE  LockInv'
  BY <1>6 DEF Test, LockInv, Exclusive, Inside, Taking
<1>7. ASSUME NEW t \in Thread, UnlockToWait(t) \/ CondWait(t)
      PROVE  LockInv'
  BY <1>7 DEF UnlockToWait, CondWait, LockInv, Exclusive, Inside, Taking
<1>8. ASSUME NEW t \in Thread, ReadHead(t) \/ Decrement(t) \/ Relink(t)
      PROVE  LockInv'
  BY <1>8 DEF ReadHead, Decrement, Relink, LockInv, Exclusive, Inside, Taking
<1>9. ASSUME NEW t \in Thread, Unlock(t)
      PROVE  LockInv'
  BY <1>9 DEF Unlock, LockInv, Exclusive, Inside, Taking
<1>10. ASSUME NEW t \in Thread, Call(t) \/ JobEnds(t) \/ SpuriousWakeup(t)
       PROVE  LockInv'
  BY <1>10 DEF Call, JobEnds, SpuriousWakeup, LockInv, Exclusive, Inside, Taking
<1> QED
  BY <1>1, <1>2, <1>3, <1>4, <1>5, <1>6, <1>7, <1>8, <1>9, <1>10 DEF Next, Dispatch, do_work

-----------------------------------------------------------------------------
(* The list.                                                               *)

\* A thread that is taking a job is the only one to change the list, ...
LEMMA Alone ==
  ASSUME LockInv, NEW t \in Thread, Taking(t)
  PROVE  ~Dispatching /\ \A u \in Thread : u # t => ~Inside(u)
  BY DEF LockInv, Exclusive, Inside, Taking

\* ... and when the owner dispatches there is none.
LEMMA OwnerAlone ==
  ASSUME LockInv, Dispatching
  PROVE  \A t \in Thread : ~Inside(t)
  BY DEF LockInv, Exclusive

\* Every step keeps the types.
LEMMA TypeStep ==
  ASSUME IInv, Next, ~raced'
  PROVE  TypeOK'
<1> USE DEF IInv, TypeOK, Location
<1>0. MaxJobs \in Nat /\ NULL \notin Job /\ Job = 1..MaxJobs
  BY ThreadPoolAssumption DEF Job
<1>1. CASE DispatchLock
  BY <1>0, <1>1 DEF DispatchLock
<1>2. CASE DispatchLink
  <2>1. dispatched \in Job
    BY <1>0, <1>2 DEF DispatchLink
  <2>2. /\ qhead' \in Job \cup {NULL} /\ qtail' \in Job \cup {NULL}
        /\ next' \in [Job -> Job \cup {NULL}]
    BY <1>2, <2>1 DEF DispatchLink, LinkBehind
  <2>3. asleep' \subseteq asleep
    BY <1>2 DEF DispatchLink, Signal
  <2>4. owner' = "count" /\ dispatched # 0
        /\ UNCHANGED <<locked, qsize, pc, cur, dispatched, taken, freed>>
    BY <1>2 DEF DispatchLink
  <2> HIDE DEF IInv
  <2>5. TypeOK
    BY DEF IInv
  <2>6. asleep' \subseteq {t \in Thread : pc'[t] = "waiting"}
    BY <2>3, <2>4, <2>5
  <2>7. pc' \in [Thread -> Location] /\ cur' \in [Thread -> Job \cup {NULL}] /\ taken' \in Seq(Job)
    BY <2>4, <2>5
  <2> QED BY <2>2, <2>4, <2>5, <2>6, <2>7
<1>3. CASE DispatchCount \/ DispatchUnlock \/ PauseEnds \/ Destroy
  <2>1. locked' \in BOOLEAN /\ qsize' \in Nat
    <3>1. locked' = locked \/ locked' = FALSE
      BY <1>3 DEF DispatchCount, DispatchUnlock, PauseEnds, Destroy
    <3>2. qsize' = qsize \/ qsize' = qsize + 1
      BY <1>3 DEF DispatchCount, DispatchUnlock, PauseEnds, Destroy
    <3>3. locked \in BOOLEAN /\ qsize \in Nat
      OBVIOUS
    <3> HIDE DEF IInv, TypeOK
    <3>4. locked' \in BOOLEAN
      BY <3>1, <3>3, Zenon
    <3>5. qsize' \in Nat
      BY <3>2, <3>3
    <3> QED BY <3>4, <3>5
  <2>2. owner' \in {"idle", "link", "count", "unlock", "pause"} /\ (Dispatching' => dispatched # 0)
    BY <1>3 DEF DispatchCount, DispatchUnlock, PauseEnds, Destroy
  <2>3. UNCHANGED <<qhead, qtail, next, asleep, pc, cur, dispatched, taken, freed>>
    BY <1>3 DEF DispatchCount, DispatchUnlock, PauseEnds, Destroy
  <2>4. TypeOK
    BY DEF IInv
  <2> HIDE DEF IInv, Location
  <2> QED BY <2>1, <2>2, <2>3, <2>4
<1>4. ASSUME NEW t \in Thread,
             Lock(t) \/ Test(t) \/ UnlockToWait(t) \/ CondWait(t) \/ Relock(t)
             \/ Unlock(t) \/ Call(t) \/ SpuriousWakeup(t)
      PROVE  TypeOK'
  BY <1>0, <1>4, ZenonT(60) DEF Lock, Test, UnlockToWait, CondWait, Relock, Unlock, Call,
                                SpuriousWakeup
<1>5. ASSUME NEW t \in Thread, ReadHead(t)
      PROVE  TypeOK'
  <2>1. qhead \in Job
    <3>1. qsize # 0 /\ Taking(t)
      BY <1>5 DEF CurInv, ReadHead, Taking
    <3>2. ~Dispatching /\ \A u \in Thread : pc[u] \notin {"decrement", "relink"}
      BY <1>5, <3>1, Alone DEF ReadHead, Inside
    <3>3. CountedIn = dispatched /\ LinkedIn = dispatched
          /\ CountedOut = Len(taken) /\ LinkedOut = Len(taken)
      BY <3>2 DEF CountedIn, LinkedIn, CountedOut, LinkedOut, Someone
    <3>4. Len(taken) \in Nat
      OBVIOUS
    <3> QED BY <1>0, <3>1, <3>3, <3>4 DEF ListInv
  <2>2. Append(taken, qhead) \in Seq(Job)
    BY <2>1
  <2>3. cur' \in [Thread -> Job \cup {NULL}] /\ taken' \in Seq(Job)
    BY <1>5, <2>1, <2>2 DEF ReadHead
  <2>4. pc' \in [Thread -> Location] /\ asleep' \subseteq {u \in Thread : pc'[u] = "waiting"}
    BY <1>5 DEF ReadHead
  <2> HIDE DEF IInv
  <2>5. UNCHANGED <<locked, dispatched, list, owner, freed>>
    BY <1>5 DEF ReadHead
  <2> QED BY <2>3, <2>4, <2>5 DEF IInv
<1>6. ASSUME NEW t \in Thread, Decrement(t)
      PROVE  TypeOK'
  BY <1>0, <1>6 DEF Decrement, OneLess, CurInv
<1>7. ASSUME NEW t \in Thread, Relink(t)
      PROVE  TypeOK'
  <2>1. cur[t] \in Job
    BY <1>7 DEF CurInv, Relink
  <2> QED BY <1>0, <1>7, <2>1 DEF Relink
<1>8. ASSUME NEW t \in Thread, JobEnds(t)
      PROVE  TypeOK'
  <2>1. cur[t] \in Job
    BY <1>8 DEF CurInv, JobEnds
  <2>2. freed' \subseteq Job /\ cur' \in [Thread -> Job \cup {NULL}]
    BY <1>8, <2>1 DEF JobEnds
  <2>3. pc' \in [Thread -> Location] /\ asleep' \subseteq {u \in Thread : pc'[u] = "waiting"}
    BY <1>8 DEF JobEnds
  <2>4. UNCHANGED <<locked, list, owner, dispatched, taken>>
    BY <1>8 DEF JobEnds
  <2>5. TypeOK
    BY DEF IInv
  <2> HIDE DEF IInv, Location
  <2> QED BY <2>2, <2>3, <2>4, <2>5
<1> QED
  BY <1>1, <1>2, <1>3, <1>4, <1>5, <1>6, <1>7, <1>8 DEF Next, Dispatch, do_work

\* How far the counters of the list are, when the owner is inside, ...
LEMMA OwnerCounts ==
  ASSUME LockInv, Dispatching
  PROVE  CountedOut = Len(taken) /\ LinkedOut = Len(taken)
  BY OwnerAlone DEF Inside, CountedOut, LinkedOut, Someone

\* ... and when a thread takes a job.
LEMMA TakerCounts ==
  ASSUME LockInv, NEW t \in Thread, Taking(t)
  PROVE  /\ CountedIn = dispatched /\ LinkedIn = dispatched
         /\ CountedOut = IF pc[t] = "decrement" THEN Len(taken) - 1 ELSE Len(taken)
         /\ LinkedOut = IF pc[t] = "read_head" THEN Len(taken) ELSE Len(taken) - 1
  BY Alone DEF Inside, Taking, CountedIn, LinkedIn, CountedOut, LinkedOut, Someone

\* The list stays in the order of the dispatches, and the jobs are taken in it.
LEMMA ListStep ==
  ASSUME IInv, Next, ~raced'
  PROVE  ListInv' /\ CurInv' /\ Order'
<1> DEFINE Inv == ListInv /\ CurInv /\ Order
<1>0. /\ MaxJobs \in Nat /\ NULL \notin Job /\ Job = 1..MaxJobs
      /\ Len(taken) \in Nat /\ dispatched \in Nat /\ qsize \in Nat
  BY ThreadPoolAssumption DEF Job, IInv, TypeOK
<1>1. CASE DispatchLock
  <2>1. /\ CountedIn' = CountedIn /\ LinkedIn' = LinkedIn
        /\ CountedOut' = CountedOut /\ LinkedOut' = LinkedOut
    BY <1>0, <1>1 DEF DispatchLock, CountedIn, LinkedIn, CountedOut, LinkedOut, Someone
  <2> QED BY <1>1, <2>1 DEF DispatchLock, IInv, ListInv, CurInv, Order
<1>2. CASE DispatchLink
  <2>1. owner = "link" /\ dispatched \in Job
    BY <1>0, <1>2 DEF DispatchLink, IInv, TypeOK
  <2>2. /\ CountedOut = Len(taken) /\ LinkedOut = Len(taken)
        /\ CountedIn = dispatched - 1 /\ LinkedIn = dispatched - 1
    BY <2>1, OwnerCounts DEF IInv, CountedIn, LinkedIn
  <2>3. /\ CountedOut' = Len(taken) /\ LinkedOut' = Len(taken)
        /\ CountedIn' = dispatched - 1 /\ LinkedIn' = dispatched
    BY <1>2, <2>2 DEF DispatchLink, CountedIn, LinkedIn, CountedOut, LinkedOut, Someone
  <2>4. CurInv' /\ Order'
    BY <1>2 DEF DispatchLink, IInv, CurInv, Order
  <2>5. qsize = dispatched - 1 - Len(taken)
    BY <2>2 DEF IInv, ListInv
  <2>6. CASE qsize = 0
    BY <1>0, <1>2, <2>1, <2>3, <2>4, <2>5, <2>6 DEF DispatchLink, ListInv
  <2>7. CASE qsize # 0
    <3>1. qtail = dispatched - 1 /\ qhead = Len(taken) + 1
      <4>1. LinkedOut < LinkedIn
        BY <1>0, <2>2, <2>5, <2>7
      <4>2. qhead = LinkedOut + 1 /\ qtail = LinkedIn
        BY <4>1 DEF IInv, ListInv
      <4> QED BY <2>2, <4>2
    <3>2. qtail \in Job /\ next \in [Job -> Job \cup {NULL}]
      BY <1>0, <2>1, <2>5, <2>7, <3>1 DEF IInv, TypeOK
    <3>3. /\ next' = [next EXCEPT ![qtail] = dispatched]
          /\ qtail' = dispatched /\ qhead' = qhead /\ qsize' = qsize
      BY <1>2, <2>7 DEF DispatchLink, LinkBehind
    <3>4. \A j \in Job : Len(taken) < j /\ j < dispatched => next'[j] = j + 1
      BY <1>0, <2>2, <3>1, <3>2, <3>3 DEF IInv, ListInv
    <3> QED BY <1>0, <2>3, <2>4, <2>5, <2>7, <3>1, <3>3, <3>4 DEF ListInv
  <2> QED BY <2>6, <2>7
<1>3. CASE DispatchCount
  <2>1. /\ CountedOut = Len(taken) /\ LinkedOut = Len(taken)
        /\ CountedIn = dispatched - 1 /\ LinkedIn = dispatched
    BY <1>3, OwnerCounts DEF DispatchCount, IInv, CountedIn, LinkedIn
  <2>2. /\ CountedOut' = Len(taken) /\ LinkedOut' = Len(taken)
        /\ CountedIn' = dispatched /\ LinkedIn' = dispatched
    BY <1>3, <2>1 DEF DispatchCount, CountedIn, LinkedIn, CountedOut, LinkedOut, Someone
  <2>3. ListInv' /\ Order'
    BY <1>0, <1>3, <2>1, <2>2 DEF DispatchCount, IInv, ListInv, Order
  <2>4. CurInv'
    BY <1>0, <1>3 DEF DispatchCount, IInv, CurInv
  <2> QED BY <2>3, <2>4
<1>4. CASE DispatchUnlock \/ PauseEnds \/ Destroy
  <2>1. /\ CountedIn' = CountedIn /\ LinkedIn' = LinkedIn
        /\ CountedOut' = CountedOut /\ LinkedOut' = LinkedOut
    BY <1>4 DEF DispatchUnlock, PauseEnds, Destroy, CountedIn, LinkedIn, CountedOut, LinkedOut, Someone
  <2> QED BY <1>4, <2>1 DEF DispatchUnlock, PauseEnds, Destroy, IInv, ListInv, CurInv, Order
<1>5. ASSUME NEW t \in Thread,
             Lock(t) \/ Test(t) \/ UnlockToWait(t) \/ CondWait(t) \/ Relock(t)
             \/ Unlock(t) \/ Call(t) \/ JobEnds(t) \/ SpuriousWakeup(t)
      PROVE  Inv'
  <2> USE DEF Lock, Test, UnlockToWait, CondWait, Relock, Unlock, Call, JobEnds, SpuriousWakeup
  <2>1. pc \in [Thread -> Location] /\ cur \in [Thread -> Job \cup {NULL}]
    BY DEF IInv, TypeOK
  <2>2. /\ Someone({"decrement"})' = Someone({"decrement"})
        /\ Someone({"decrement", "relink"})' = Someone({"decrement", "relink"})
    BY <1>5, <2>1 DEF Someone
  <2>3. UNCHANGED <<owner, dispatched, taken, list>>
    BY <1>5
  <2>4. /\ CountedIn' = CountedIn /\ LinkedIn' = LinkedIn
        /\ CountedOut' = CountedOut /\ LinkedOut' = LinkedOut
    BY <2>2, <2>3 DEF CountedIn, LinkedIn, CountedOut, LinkedOut
  <2>5. ListInv' /\ Order'
    BY <2>3, <2>4 DEF IInv, ListInv, Order
  <2>6. CurInv'
    BY <1>5, <2>1 DEF IInv, CurInv
  <2> QED BY <2>5, <2>6
<1>6. ASSUME NEW t \in Thread, ReadHead(t)
      PROVE  Inv'
  <2>1. Taking(t) /\ pc[t] = "read_head" /\ qsize # 0 /\ pc \in [Thread -> Location]
    BY <1>6 DEF ReadHead, Taking, IInv, CurInv, TypeOK
  <2>2. /\ CountedIn = dispatched /\ LinkedIn = dispatched
        /\ CountedOut = Len(taken) /\ LinkedOut = Len(taken)
    BY <2>1, TakerCounts DEF IInv
  <2>3. qhead = Len(taken) + 1 /\ qhead \in Job
    BY <1>0, <2>1, <2>2 DEF IInv, ListInv, TypeOK
  <2>4. taken \in Seq(Job) /\ Len(taken') = Len(taken) + 1
    BY <1>6, <2>3 DEF ReadHead, IInv, TypeOK
  <2>5. Taking(t)' /\ LockInv'
    BY <1>6, <2>1, LockStep DEF IInv, ReadHead, Taking
  <2>6. pc'[t] = "decrement" /\ pc' \in [Thread -> Location]
    BY <1>6, <2>1 DEF ReadHead, Location
  <2>7. Someone({"decrement"})' /\ Someone({"decrement", "relink"})'
    BY <2>6 DEF Someone
  <2>8. /\ CountedIn' = dispatched /\ LinkedIn' = dispatched
        /\ CountedOut' = Len(taken) /\ LinkedOut' = Len(taken)
    BY <1>0, <1>6, <2>2, <2>4, <2>7 DEF ReadHead, CountedIn, LinkedIn, CountedOut, LinkedOut
  <2>9. ListInv'
    BY <1>6, <2>2, <2>8 DEF ReadHead, IInv, ListInv
  <2>10. Order'
    BY <1>0, <1>6, <2>3, <2>4 DEF ReadHead, IInv, Order
  <2>11. CurInv'
    <3>1. \A u \in Thread : u # t => pc[u] \notin {"decrement", "relink"}
      BY <2>1, Alone DEF IInv, Inside
    <3>2. cur \in [Thread -> Job \cup {NULL}]
      BY DEF IInv, TypeOK
    <3> QED BY <1>0, <1>6, <2>1, <2>3, <2>4, <3>1, <3>2 DEF ReadHead, IInv, CurInv
  <2> QED BY <2>9, <2>10, <2>11
<1>7. ASSUME NEW t \in Thread, Decrement(t)
      PROVE  Inv'
  <2>1. Taking(t) /\ pc[t] = "decrement" /\ qsize # 0 /\ pc \in [Thread -> Location]
    BY <1>7 DEF Decrement, Taking, IInv, CurInv, TypeOK
  <2>2. /\ CountedIn = dispatched /\ LinkedIn = dispatched
        /\ CountedOut = Len(taken) - 1 /\ LinkedOut = Len(taken) - 1
    BY <2>1, TakerCounts DEF IInv
  <2>3. \A u \in Thread : u # t => ~Inside(u)
    BY <2>1, Alone DEF IInv
  <2>4. pc'[t] = "relink" /\ \A u \in Thread : pc'[u] # "decrement"
    BY <1>7, <2>1, <2>3 DEF Decrement, Inside
  <2>5. /\ CountedIn' = dispatched /\ LinkedIn' = dispatched
        /\ CountedOut' = Len(taken) /\ LinkedOut' = Len(taken) - 1
    BY <1>7, <2>2, <2>4 DEF Decrement, CountedIn, LinkedIn, CountedOut, LinkedOut, Someone
  <2>6. Order' /\ ListInv'
    <3>1. qsize' = dispatched - Len(taken)
      <4>1. qsize = dispatched - (Len(taken) - 1)
        BY <2>2 DEF IInv, ListInv
      <4> QED BY <1>0, <1>7, <4>1 DEF Decrement, OneLess
    <3>2. UNCHANGED <<qhead, qtail, next, taken>>
      BY <1>7 DEF Decrement
    <3>3. Order'
      BY <3>2 DEF IInv, Order
    <3> QED BY <2>2, <2>5, <3>1, <3>2, <3>3 DEF IInv, ListInv
  <2>7. CurInv'
    BY <1>7, <2>1, <2>3, <2>4 DEF Decrement, IInv, CurInv, Inside
  <2> QED BY <2>6, <2>7
<1>8. ASSUME NEW t \in Thread, Relink(t)
      PROVE  Inv'
  <2>1. Taking(t) /\ pc[t] = "relink" /\ pc \in [Thread -> Location]
    BY <1>8 DEF Relink, Taking, IInv, CurInv, TypeOK
  <2>2. /\ CountedIn = dispatched /\ LinkedIn = dispatched
        /\ CountedOut = Len(taken) /\ LinkedOut = Len(taken) - 1
    BY <2>1, TakerCounts DEF IInv
  <2>3. \A u \in Thread : u # t => ~Inside(u)
    BY <2>1, Alone DEF IInv
  <2>4. \A u \in Thread : pc'[u] \notin {"decrement", "relink"}
    BY <1>8, <2>1, <2>3 DEF Relink, Inside
  <2>5. /\ CountedIn' = dispatched /\ LinkedIn' = dispatched
        /\ CountedOut' = Len(taken) /\ LinkedOut' = Len(taken)
    BY <1>8, <2>2, <2>4 DEF Relink, CountedIn, LinkedIn, CountedOut, LinkedOut, Someone
  <2>6. cur[t] = Len(taken) /\ cur[t] \in Job /\ qsize = dispatched - Len(taken)
    BY <2>1, <2>2 DEF IInv, CurInv, ListInv, TypeOK
  <2>7. ListInv'
    <3>1. UNCHANGED <<qsize, next>>
      BY <1>8 DEF Relink
    <3>2. \A j \in Job : Len(taken) - 1 < j /\ j < dispatched => next[j] = j + 1
      BY <2>2 DEF IInv, ListInv
    <3>3. CASE LastTaken
      <4>1. qhead' = NULL /\ qtail' = NULL /\ dispatched = Len(taken)
        BY <1>0, <1>8, <2>6, <3>3 DEF Relink, LastTaken
      <4> QED BY <1>0, <2>5, <2>6, <3>1, <3>2, <4>1 DEF ListInv
    <3>4. CASE ~LastTaken
      <4>1. Len(taken) < dispatched
        BY <1>0, <2>6, <3>4 DEF LastTaken
      <4>2. LinkedOut < LinkedIn
        BY <1>0, <2>2, <4>1
      <4>3. qtail = dispatched
        BY <2>2, <4>2 DEF IInv, ListInv
      <4>4. qhead' = Len(taken) + 1 /\ qtail' = dispatched
        BY <1>0, <1>8, <2>6, <3>2, <3>4, <4>1, <4>3 DEF Relink
      <4>5. \A j \in Job : Len(taken) < j /\ j < dispatched => next'[j] = j + 1
        BY <1>0, <3>1, <3>2
      <4> QED BY <2>5, <2>6, <3>1, <4>1, <4>4, <4>5 DEF ListInv
    <3> QED BY <3>3, <3>4
  <2>9. Order'
    BY <1>8 DEF Relink, IInv, Order
  <2>8. CurInv'
    BY <1>8, <2>1, <2>3, <2>4 DEF Relink, IInv, CurInv, Inside
  <2> QED BY <2>7, <2>8, <2>9
<1> QED
  BY <1>1, <1>2, <1>3, <1>4, <1>5, <1>6, <1>7, <1>8 DEF Next, Dispatch, do_work

\* No job in a thread's hands, and none on the list, is freed.
LEMMA FreedStep ==
  ASSUME IInv, Next, ~raced'
  PROVE  FreedInv'
<1>0. /\ MaxJobs \in Nat /\ NULL \notin Job /\ Job = 1..MaxJobs
      /\ Len(taken) \in Nat /\ dispatched \in Nat /\ qsize \in Nat
      /\ freed \subseteq Job /\ cur \in [Thread -> Job \cup {NULL}]
  BY ThreadPoolAssumption DEF Job, IInv, TypeOK
<1>1. CASE Dispatch
  BY <1>1 DEF Dispatch, DispatchLock, DispatchLink, DispatchCount, DispatchUnlock, PauseEnds,
              IInv, FreedInv
<1>2. CASE Destroy
  BY <1>2 DEF Destroy, IInv, FreedInv
<1>3. ASSUME NEW t \in Thread,
             Lock(t) \/ Test(t) \/ UnlockToWait(t) \/ CondWait(t) \/ Relock(t)
             \/ Decrement(t) \/ Relink(t) \/ Unlock(t) \/ Call(t) \/ SpuriousWakeup(t)
      PROVE  FreedInv'
  <2>1. UNCHANGED <<cur, freed, taken, process>>
    BY <1>3 DEF Lock, Test, UnlockToWait, CondWait, Relock, Decrement, Relink, Unlock, Call,
                SpuriousWakeup
  <2> QED BY <2>1 DEF IInv, FreedInv
<1>4. ASSUME NEW t \in Thread, ReadHead(t)
      PROVE  FreedInv'
  <2>1. Taking(t) /\ pc[t] = "read_head" /\ qsize # 0
    BY <1>4 DEF ReadHead, Taking, IInv, CurInv
  <2>2. CountedIn = dispatched /\ LinkedIn = dispatched
        /\ CountedOut = Len(taken) /\ LinkedOut = Len(taken)
    BY <2>1, TakerCounts DEF IInv
  <2>3. qhead = Len(taken) + 1 /\ qhead \in Job
    BY <1>0, <2>1, <2>2 DEF IInv, ListInv, TypeOK
  <2>4. taken' = Append(taken, qhead) /\ taken \in Seq(Job)
    BY <1>4 DEF ReadHead, IInv, TypeOK
  <2>5. Len(taken') = Len(taken) + 1
    BY <2>3, <2>4
  <2>6. cur' = [cur EXCEPT ![t] = qhead] /\ UNCHANGED <<freed, process>>
    BY <1>4 DEF ReadHead
  <2>7. cur'[t] = Len(taken) + 1 /\ \A u \in Thread : u # t => cur'[u] = cur[u]
    BY <1>0, <2>3, <2>6
  <2>8. \A u \in Thread : cur[u] # NULL => cur[u] \in 1..Len(taken) /\ cur[u] \notin freed
    BY <1>0 DEF IInv, FreedInv
  <2>9. \A j \in freed : j \in Job /\ j <= Len(taken)
    BY <1>0 DEF IInv, FreedInv
  <2>10. \A j \in freed' : j <= Len(taken')
    BY <1>0, <2>5, <2>6, <2>9
  <2>11. \A u \in Thread : cur'[u] # NULL => cur'[u] \notin freed' /\ cur'[u] <= Len(taken')
    BY <1>0, <2>5, <2>6, <2>7, <2>8, <2>9
  <2>12. \A u, v \in Thread : cur'[u] # NULL /\ cur'[u] = cur'[v] => u = v
    <3>1. \A u, v \in Thread : cur[u] # NULL /\ cur[u] = cur[v] => u = v
      BY DEF IInv, FreedInv
    <3>2. \A u \in Thread : cur[u] # Len(taken) + 1 \/ cur[u] = NULL
      BY <1>0, <2>8
    <3>3. Len(taken) + 1 # NULL
      BY <1>0, <2>3
    <3> QED BY <2>7, <3>1, <3>2, <3>3
  <2>13. process' # "undefined"
    BY <2>6 DEF IInv, FreedInv
  <2> QED BY <2>10, <2>11, <2>12, <2>13 DEF FreedInv
<1>5. ASSUME NEW t \in Thread, JobEnds(t)
      PROVE  FreedInv'
  <2>1. cur[t] # NULL
    BY <1>5 DEF JobEnds, IInv, CurInv
  <2>2. cur[t] \notin freed /\ cur[t] <= Len(taken)
    BY <2>1 DEF IInv, FreedInv
  <2>3. /\ freed' = freed \cup {cur[t]} /\ cur' = [cur EXCEPT ![t] = NULL]
        /\ process' = process /\ taken' = taken
    BY <1>5, <2>2 DEF JobEnds
  <2> QED BY <1>0, <2>1, <2>2, <2>3 DEF IInv, FreedInv
<1> QED
  BY <1>1, <1>2, <1>3, <1>4, <1>5 DEF Next, do_work

-----------------------------------------------------------------------------
(* The theorems.                                                           *)

\* The invariant, from the creation of the pool on.
LEMMA Invariance ==
  Spec => [](raced \/ IInv)
<1>1. ASSUME Init
      PROVE  IInv
  <2> USE <1>1 DEF Init
  <2>1. TypeOK
    <3>1. MaxJobs \in Nat /\ <<>> \in Seq(Job)
      BY ThreadPoolAssumption
    <3>2. next \in [Job -> Job \cup {NULL}]
      OBVIOUS
    <3>3. cur \in [Thread -> Job \cup {NULL}] /\ pc \in [Thread -> Location]
      BY DEF Location
    <3>4. asleep \subseteq {t \in Thread : pc[t] = "waiting"}
      OBVIOUS
    <3>5. locked \in BOOLEAN /\ owner \in {"idle", "link", "count", "unlock", "pause"} /\ owner = "idle"
      OBVIOUS
    <3>6. dispatched \in 0..MaxJobs /\ qsize \in Nat /\ freed \subseteq Job /\ taken \in Seq(Job)
          /\ qhead \in Job \cup {NULL} /\ qtail \in Job \cup {NULL}
      BY <3>1
    <3> QED BY <3>2, <3>3, <3>4, <3>5, <3>6 DEF TypeOK
  <2>2. LockInv
    BY DEF LockInv, Inside
  <2>3. ListInv
    BY DEF ListInv, CountedIn, LinkedIn, CountedOut, LinkedOut, Someone
  <2>4. CurInv /\ Order
    BY DEF CurInv, Order
  <2>5. FreedInv
    BY DEF FreedInv
  <2> QED BY <2>1, <2>2, <2>3, <2>4, <2>5 DEF IInv
<1>2. ASSUME IInv, [Next]_vars, ~raced'
      PROVE  IInv'
  <2>1. CASE Next
    BY <1>2, <2>1, TypeStep, LockStep, ListStep, FreedStep DEF IInv
  <2>2. CASE UNCHANGED vars
    BY <1>2, <2>2 DEF vars, IInv, TypeOK, LockInv, Inside, Exclusive, Taking, ListInv, CurInv,
                      CountedIn, LinkedIn, CountedOut, LinkedOut, Someone, Order, FreedInv
  <2> QED BY <1>2, <2>1, <2>2
<1>3. ASSUME raced, [Next]_vars
      PROVE  raced'
  <2> USE DEF Dispatch, DispatchLock, DispatchLink, DispatchCount, DispatchUnlock, PauseEnds,
              Destroy, do_work, Lock, Test, UnlockToWait, CondWait, Relock, ReadHead, Decrement,
              Relink, Unlock, Call, JobEnds, SpuriousWakeup
  <2> QED BY <1>3 DEF Next, vars
<1>4. (raced \/ IInv) /\ [Next]_vars => (raced \/ IInv)'
  BY <1>2, <1>3
<1> QED BY <1>1, <1>4, PTL DEF Spec

\* Until a dispatch meets a thread that is about to sleep, the jobs are taken in
\* the order they were dispatched in, and none twice: the lock that do_work
\* releases without having it is nobody's who is at the list.
THEOREM JobsInOrder ==
  Spec => []TakenInOrder
<1>1. raced \/ IInv => TakenInOrder
  BY DEF IInv, Order, TakenInOrder
<1> QED BY <1>1, Invariance, PTL

\* Under the same condition no two threads take a job at once, and none does while
\* one is being dispatched.
THEOREM ListIsExclusive ==
  Spec => []ListChangesExclusive
<1>1. raced \/ IInv => ListChangesExclusive
  BY Alone DEF IInv, ListChangesExclusive, Inside, Taking
<1> QED BY <1>1, Invariance, PTL

\* Under the same condition the list and its length agree whenever somebody looks,
\* and jobs may end at any time: neither dispatch nor do_work follows a null
\* pointer or uses a job that was freed.
THEOREM PointersStayGood ==
  Spec => []PointersGood
<1>1. ASSUME IInv, owner = "link", qsize # 0
      PROVE  ~Gone(qtail)
  <2>1. CountedOut = Len(taken) /\ LinkedOut = Len(taken)
        /\ CountedIn = dispatched - 1 /\ LinkedIn = dispatched - 1
    BY <1>1, OwnerCounts DEF IInv, CountedIn, LinkedIn
  <2>2. Len(taken) \in Nat /\ dispatched \in Nat /\ qsize \in Nat
    BY ThreadPoolAssumption, <1>1 DEF IInv, TypeOK
  <2>3. qsize = dispatched - 1 - Len(taken)
    BY <1>1, <2>1 DEF IInv, ListInv
  <2>4. LinkedOut < LinkedIn
    BY <1>1, <2>1, <2>2, <2>3
  <2>5. LinkedIn \in Job
    <3>1. dispatched <= MaxJobs /\ MaxJobs \in Nat
      BY ThreadPoolAssumption, <1>1 DEF IInv, TypeOK
    <3> QED BY <2>1, <2>2, <2>4, <3>1 DEF Job
  <2>6. qtail = LinkedIn
    BY <1>1, <2>4 DEF IInv, ListInv
  <2>7. LinkedIn \notin freed
    BY <1>1, <2>1, <2>2, <2>4, <2>5 DEF IInv, FreedInv
  <2> QED BY <2>5, <2>6, <2>7, ThreadPoolAssumption DEF Gone
<1>2. ASSUME IInv, NEW t \in Thread, pc[t] \in {"relink", "call"}
      PROVE  ~Gone(cur[t])
  <2>1. cur[t] # NULL
    BY <1>2 DEF IInv, CurInv
  <2> QED BY <1>2, <2>1 DEF IInv, FreedInv, Gone
<1>3. IInv => ~BadPointer
  BY <1>1, <1>2 DEF BadPointer
<1>4. raced \/ IInv => PointersGood
  BY <1>3 DEF PointersGood, IInv, FreedInv
<1> QED BY <1>4, Invariance, PTL
=============================================================================
