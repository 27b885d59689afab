---------------------------- MODULE Tables_proofs ----------------------------
(***************************************************************************)
(* Theorems about Tables, for every table, number of workers and script of *)
(* updates: the replicas follow the updates, a worker that nobody writes   *)
(* into acts on what it found, and freed memory is read only where a       *)
(* default was set by two.                                                 *)
(*                                                                         *)
(* What is done to the tables is proved first: the control plane is at one *)
(* replica of one update (Order), a worker that starts at one replica of   *)
(* one preset table (Starting), and what a table holds was put there by an *)
(* update to that table or by a worker that has set it (Stored); lookups   *)
(* touch nothing of this but reverse_buffer.  Then the lookups: while a    *)
(* worker uses a shared buffer and is not spoilt, it is the last who has   *)
(* written into it, and nobody else is about to (Clean).                   *)
(***************************************************************************)
EXTENDS Tables, WellFoundedInduction, TLAPS

Updates(t, o) == {n \in DOMAIN Script : Script[n].table = t /\ Script[n].op = o}

Steps == {"begin", "reversed", "change", "store", "pause"}

TypeOK ==
  /\ DOMAIN entries = Replica /\ \A r \in Replica : DOMAIN entries[r] = Table
  /\ DOMAIN default_val = Replica /\ \A r \in Replica : DOMAIN default_val[r] = Table
  /\ DOMAIN filed = DOMAIN Script
  /\ update \in [n : 1 .. Len(Script) + 1, replica : Replica \union {None}, step : Steps]
  /\ DOMAIN init = Worker

\* Where the control plane can be.
Order ==
  /\ update.step \in {"begin", "reversed"} => update.replica = None
  /\ update.step \in {"change", "store"} => update.replica \in Replica
  /\ update.step = "pause" => update.replica = NextReplica
  /\ update.step # "begin" => update.n \in DOMAIN Script
  /\ update.step = "store" => Current.op = "setdefault"

\* Where a worker that starts can be.
Starting ==
  \A w \in Worker :
    /\ init[w] \in [k : 1 .. Len(Preset) + 1, replica : Replica, step : {"free", "store", "pause"}]
    /\ init[w].step = "pause" => init[w].replica = NextReplica
    /\ init[w].k \notin DOMAIN Preset => init[w] = Beginning(init[w].k)

\* The key of an update goes through reverse_buffer unhurt, or is marked.
KeySafe ==
  update.step = "reversed" =>
    /\ Kind[Current.table] = "LOOKUP_LPM"
    /\ reverse_buffer # Reversed(Current.key) => <<"update", update.n>> \in spoilt

\* A table holds updates of its own, none of them to come, and defaults of workers
\* that have set it.
Stored ==
  \A r \in Replica, t \in Table :
    /\ default_val[r][t] \in {0} \union {n \in Updates(t, "setdefault") : n <= Applied(r)}
                              \union {w \in Worker : HasPreset(w, r, t)}
    /\ \A p \in DOMAIN entries[r][t] :
         entries[r][t][p] \in Updates(t, "add") /\ p[2] \in 0 .. Width

ControlInv ==
  TypeOK /\ Order /\ Starting /\ KeySafe /\ Stored /\ FreedOnlyByReset /\ TablesFollowUpdates

-----------------------------------------------------------------------------
(* Replicas and numbers.                                                   *)

\* There are two replicas of a table, and an update is for the one not in use first.
LEMMA Replicas ==
  /\ Replica = {0, 1} /\ Active = 0 /\ NextReplica = 1 /\ Later = {0}
  BY DEF Replica, NB_REPLICA, Active, NextReplica, Later

\* The newest of a set of updates and one that is newer than they are.
LEMMA NewestOfMore ==
  ASSUME NEW S \in SUBSET Nat, NEW n \in Nat \ {0}, \A m \in S : m < n
  PROVE  Newest(S \union {n}) = n
<1>1. \A x \in S \union {n} : (\A m \in S \union {n} : m <= x) <=> x = n
  OBVIOUS
<1> QED BY <1>1 DEF Newest

\* The updates that are in, before and after the present one.
LEMMA AppliedFacts ==
  ASSUME TypeOK, Order
  PROVE  /\ \A r \in Replica : Applied(r) \in 0 .. Len(Script)
         /\ update.step \in {"begin", "reversed"} => \A r \in Replica : Applied(r) = update.n - 1
         /\ update.step \in {"change", "store"} => Applied(update.replica) = update.n - 1
         /\ update.step \in {"change", "store"} /\ update.replica = 1 => Applied(0) = update.n - 1
         /\ update.step \in {"change", "store"} /\ update.replica = 0 => Applied(1) = update.n
         /\ update.step = "pause" => Applied(1) = update.n /\ Applied(0) = update.n - 1
  BY Replicas, TablesAssumption DEF TypeOK, Order, Applied, Ahead, Steps

\* The control plane goes through its steps in order.
LEMMA ControlTypes ==
  ASSUME TypeOK, Order, ControlPlane
  PROVE  TypeOK' /\ Order'
<1> USE DEF TypeOK, Order, Steps, Step, Current, AfterChange
<1>0. /\ Replica = {0, 1} /\ NextReplica = 1 /\ Later = {0}
      /\ Len(Script) \in Nat /\ DOMAIN Script = 1 .. Len(Script)
  BY Replicas, TablesAssumption
<1>1. CASE ReverseKey \/ BeginChange
  <2>1. CASE ReverseKey
    BY <1>0, <2>1 DEF ReverseKey, tables
  <2>2. CASE BeginChange
    <3>1. update' = [update EXCEPT !.replica = NextReplica, !.step = "change"]
          /\ UNCHANGED <<entries, default_val, filed, init>> /\ update.n \in DOMAIN Script
      BY <1>0, <2>2 DEF BeginChange, tables
    <3> QED BY <1>0, <3>1
  <2> QED BY <1>1, <2>1, <2>2
<1>2. CASE ReadKey
  BY <1>0, <1>2 DEF ReadKey, tables
<1>3. CASE Add
  <2>1. update' \in [n : 1 .. Len(Script) + 1, replica : Replica \union {None}, step : Steps]
    BY <1>0, <1>3 DEF Add
  <2>2. /\ DOMAIN entries' = Replica /\ \A r \in Replica : DOMAIN entries'[r] = Table
    BY <1>0, <1>3 DEF Add
  <2>3. Order'
    BY <1>0, <1>3 DEF Add
  <2> QED BY <1>3, <2>1, <2>2, <2>3 DEF Add
<1>4. CASE FreeDefault
  BY <1>0, <1>4 DEF FreeDefault, FreeOld
<1>5. CASE StoreDefault
  <2>1. update' \in [n : 1 .. Len(Script) + 1, replica : Replica \union {None}, step : Steps]
    BY <1>0, <1>5 DEF StoreDefault
  <2>2. /\ DOMAIN default_val' = Replica /\ \A r \in Replica : DOMAIN default_val'[r] = Table
    BY <1>0, <1>5 DEF StoreDefault
  <2>3. Order'
    BY <1>0, <1>5 DEF StoreDefault
  <2> QED BY <1>5, <2>1, <2>2, <2>3 DEF StoreDefault
<1>6. CASE PauseEnds
  BY <1>0, <1>6 DEF PauseEnds, tables
<1> QED BY <1>1, <1>2, <1>3, <1>4, <1>5, <1>6 DEF ControlPlane

\* An update counts as applied to a replica from the step that changes it.
LEMMA AppliedStep ==
  ASSUME TypeOK, Order, ControlPlane
  PROVE  /\ Add \/ StoreDefault =>
              /\ update.replica \in Replica
              /\ Applied(update.replica) = update.n - 1
              /\ \A r \in Replica :
                   Applied(r)' = IF r = update.replica THEN update.n ELSE Applied(r)
         /\ ~(Add \/ StoreDefault) => \A r \in Replica : Applied(r)' = Applied(r)
<1>0. /\ Replica = {0, 1} /\ Active = 0 /\ NextReplica = 1 /\ Later = {0}
      /\ None \notin Nat
  BY Replicas, TablesAssumption
<1> USE <1>0 DEF TypeOK, Order, Steps, Step, AfterChange, Applied, Ahead
<1>1. ASSUME Add \/ StoreDefault
      PROVE  /\ update.replica \in Replica
             /\ Applied(update.replica) = update.n - 1
             /\ \A r \in Replica :
                  Applied(r)' = IF r = update.replica THEN update.n ELSE Applied(r)
  BY <1>1 DEF Add, StoreDefault
<1>2. ASSUME ReverseKey \/ ReadKey \/ BeginChange \/ FreeDefault \/ PauseEnds, NEW r \in Replica
      PROVE  Applied(r)' = Applied(r)
  <2>1. CASE ReverseKey
    BY <2>1 DEF ReverseKey
  <2>5. CASE ReadKey
    BY <2>5 DEF ReadKey
  <2>2. CASE BeginChange
    BY <2>2 DEF BeginChange
  <2>3. CASE FreeDefault
    BY <2>3 DEF FreeDefault
  <2>4. CASE PauseEnds
    BY <2>4 DEF PauseEnds
  <2> QED BY <1>2, <2>1, <2>2, <2>3, <2>4, <2>5
<1> QED BY <1>1, <1>2 DEF ControlPlane

\* Which of the steps change what.
LEMMA ControlTouches ==
  ASSUME ControlPlane
  PROVE  /\ ~Add => entries' = entries
         /\ ~StoreDefault => default_val' = default_val
         /\ ~FreeDefault => freed' = freed
         /\ ~FreeDefault => process' = process
         /\ UNCHANGED <<init, worker, kv>>
<1> USE DEF tables
<1>1. CASE ReverseKey \/ ReadKey \/ BeginChange \/ PauseEnds
  BY <1>1 DEF ReverseKey, ReadKey, BeginChange, PauseEnds
<1>2. CASE Add
  <2>1. freed' = freed
    BY <1>2 DEF Add, FreesNothing
  <2> QED BY <1>2, <2>1 DEF Add
<1>3. CASE FreeDefault
  BY <1>3 DEF FreeDefault
<1>4. CASE StoreDefault
  BY <1>4 DEF StoreDefault
<1> QED BY <1>1, <1>2, <1>3, <1>4 DEF ControlPlane

-----------------------------------------------------------------------------
(* What the tables hold.                                                   *)

\* The updates replica r of table t has, those of them that add and set, and where.
Mine(r, t) == {n \in 1 .. Applied(r) : Script[n].table = t}
Adds(r, t) == {n \in Mine(r, t) : Script[n].op = "add" /\ t \notin Keyless}
Sets(r, t) == {n \in Mine(r, t) : Script[n].op = "setdefault"}
PlaceOf(n) == Prefix(filed[n], Script[n].depth)

\* TablesFollowUpdates, for one table of one replica, and for the keys.
Follows(r, t) ==
  /\ default_val[r][t] \in {Newest(Sets(r, t))} \union {w \in Worker : HasPreset(w, r, t)}
  /\ DOMAIN entries[r][t] = {PlaceOf(n) : n \in Adds(r, t)}
  /\ \A p \in DOMAIN entries[r][t] :
       entries[r][t][p] = Newest({n \in Adds(r, t) : PlaceOf(n) = p})
OwnKey(n) == KeyFor(Script[n].table, Script[n].key)
Filed == \A n \in DOMAIN Script : filed[n] # OwnKey(n) => <<"update", n>> \in spoilt

\* TablesFollowUpdates is said of one replica of one table at a time.
LEMMA FollowsAll ==
  /\ TablesFollowUpdates <=> Filed /\ \A r \in Replica, t \in Table : Follows(r, t)
  /\ TablesFollowUpdates' <=> Filed' /\ \A r \in Replica, t \in Table : Follows(r, t)'
  BY DEF TablesFollowUpdates, Filed, Follows, Mine, Adds, Sets, PlaceOf, OwnKey

\* A step that makes no change in a table leaves it as the updates have made it.
LEMMA FollowsOn ==
  ASSUME NEW r \in Replica, NEW t \in Table, Follows(r, t),
         entries'[r][t] = entries[r][t],
         default_val'[r][t] \in {default_val[r][t]} \union {w \in Worker : HasPreset(w, r, t)'},
         Mine(r, t)' = Mine(r, t), \A n \in Mine(r, t) : filed'[n] = filed[n],
         \A w \in Worker : HasPreset(w, r, t) => HasPreset(w, r, t)'
  PROVE  Follows(r, t)'
<1>1. /\ Adds(r, t)' = Adds(r, t) /\ Adds(r, t) \subseteq Mine(r, t)
      /\ Sets(r, t)' = Sets(r, t)
  BY DEF Adds, Sets
<1>2. \A n \in Adds(r, t) : PlaceOf(n)' = PlaceOf(n)
  BY <1>1 DEF PlaceOf
<1>3. {PlaceOf(n)' : n \in Adds(r, t)} = {PlaceOf(n) : n \in Adds(r, t)}
  BY <1>2
<1>4. \A p : {n \in Adds(r, t) : PlaceOf(n)' = p} = {n \in Adds(r, t) : PlaceOf(n) = p}
  BY <1>2
<1> QED BY <1>1, <1>3, <1>4 DEF Follows

\* The updates a step adds to those of a table: none, or the one that is made.
LEMMA MineStep ==
  ASSUME TypeOK, Order, ControlPlane, NEW r \in Replica, NEW t \in Table
  PROVE  /\ Mine(r, t) \subseteq DOMAIN Script /\ Mine(r, t) \subseteq Nat
         /\ Mine(r, t)' = IF (Add \/ StoreDefault) /\ r = update.replica /\ t = Current.table
                          THEN Mine(r, t) \union {update.n} ELSE Mine(r, t)
         /\ (Add \/ StoreDefault) /\ r = update.replica => \A m \in Mine(r, t) : m < update.n
<1>0. /\ Applied(r) \in 0 .. Len(Script) /\ update.n \in Nat \ {0}
      /\ Len(Script) \in Nat /\ DOMAIN Script = 1 .. Len(Script)
  BY AppliedFacts, TablesAssumption DEF TypeOK
<1>1. CASE (Add \/ StoreDefault) /\ r = update.replica
  <2>1. Applied(r) = update.n - 1 /\ Applied(r)' = update.n
    BY <1>1, AppliedStep
  <2>2. 1 .. Applied(r)' = (1 .. Applied(r)) \union {update.n}
    BY <1>0, <2>1
  <2> QED BY <1>0, <1>1, <2>1, <2>2 DEF Mine, Current
<1>2. CASE ~((Add \/ StoreDefault) /\ r = update.replica)
  <2>1. Applied(r)' = Applied(r)
    BY <1>2, AppliedStep
  <2> QED BY <1>0, <1>2, <2>1 DEF Mine
<1> QED BY <1>1, <1>2

\* exact_add and lpm_add put the update where its key belongs.
LEMMA AddFollows ==
  ASSUME ControlInv, Add, NEW r \in Replica, NEW t \in Table
  PROVE  Follows(r, t)'
<1> DEFINE n == update.n
<1>0. TypeOK /\ Order /\ ControlPlane /\ Follows(r, t)
  BY FollowsAll DEF ControlInv, ControlPlane
<1>1. /\ Current.op = "add" /\ update.replica \in Replica
      /\ entries' = IF Current.table \in Keyless THEN entries
                    ELSE [entries EXCEPT ![update.replica][Current.table] =
                            Put(@, Prefix(filed[n], Current.depth), n)]
      /\ UNCHANGED <<default_val, filed, init>>
  BY <1>0, AppliedStep DEF Add
<1>2. Sets(r, t)' = Sets(r, t) /\ \A w \in Worker : HasPreset(w, r, t)' <=> HasPreset(w, r, t)
  <2>1. Sets(r, t)' = Sets(r, t)
    BY <1>0, <1>1, MineStep DEF Sets, Current
  <2> QED BY <1>1, <2>1 DEF HasPreset, PresetIn
<1>4. CASE ~(r = update.replica /\ t = Current.table) \/ t \in Keyless
  <2>1. entries'[r][t] = entries[r][t]
    BY <1>0, <1>1, <1>4 DEF TypeOK
  <2>2. Adds(r, t)' = Adds(r, t)
    BY <1>0, <1>4, MineStep DEF Adds
  <2>3. \A m : PlaceOf(m)' = PlaceOf(m)
    BY <1>1 DEF PlaceOf
  <2> QED BY <1>0, <1>1, <1>2, <2>1, <2>2, <2>3 DEF Follows
<1>3. CASE r = update.replica /\ t = Current.table /\ t \notin Keyless
  <2>1. entries'[r][t] = Put(entries[r][t], PlaceOf(n), n)
    BY <1>0, <1>1, <1>3 DEF TypeOK, PlaceOf, Current
  <2>2. /\ Mine(r, t)' = Mine(r, t) \union {n} /\ \A m \in Mine(r, t) : m < n
        /\ Mine(r, t) \subseteq Nat
    BY <1>0, <1>3, MineStep
  <2>3. n \in Nat \ {0}
    BY <1>0, TablesAssumption DEF TypeOK
  <2>4. Adds(r, t)' = Adds(r, t) \union {n} /\ Adds(r, t) \subseteq Mine(r, t)
        /\ n \notin Mine(r, t) /\ n \notin Adds(r, t)
    BY <1>1, <1>3, <2>2, <2>3 DEF Adds, Current
  <2>6. \A m : PlaceOf(m)' = PlaceOf(m)
    BY <1>1 DEF PlaceOf
  <2>7. /\ DOMAIN entries'[r][t] = DOMAIN entries[r][t] \union {PlaceOf(n)}
        /\ \A p \in DOMAIN entries'[r][t] :
             entries'[r][t][p] = IF p = PlaceOf(n) THEN n ELSE entries[r][t][p]
    BY <2>1 DEF Put
  <2>8. DOMAIN entries'[r][t] = {PlaceOf(m) : m \in Adds(r, t) \union {n}}
    BY <1>0, <2>7 DEF Follows
  <2>9. ASSUME NEW p \in DOMAIN entries'[r][t]
        PROVE  entries'[r][t][p] = Newest({m \in Adds(r, t) \union {n} : PlaceOf(m) = p})
    <3> DEFINE Before == {m \in Adds(r, t) : PlaceOf(m) = p}
    <3>1. CASE p = PlaceOf(n)
      <4>1. {m \in Adds(r, t) \union {n} : PlaceOf(m) = p} = Before \union {n}
        BY <3>1
      <4>2. Before \in SUBSET Nat /\ \A m \in Before : m < n
        BY <2>2, <2>4
      <4>3. Newest(Before \union {n}) = n
        BY <2>3, <4>2, NewestOfMore
      <4> QED BY <2>7, <3>1, <4>1, <4>3
    <3>2. CASE p # PlaceOf(n)
      <4>1. {m \in Adds(r, t) \union {n} : PlaceOf(m) = p} = Before
        BY <3>2
      <4>2. p \in DOMAIN entries[r][t] /\ entries'[r][t][p] = entries[r][t][p]
        BY <2>7, <3>2
      <4> QED BY <1>0, <4>1, <4>2 DEF Follows
    <3> QED BY <3>1, <3>2
  <2> HIDE DEF n
  <2> QED BY <1>0, <1>1, <1>2, <2>4, <2>6, <2>8, <2>9 DEF Follows
<1> QED BY <1>3, <1>4

\* table_setdefault stores the update as the default.
LEMMA StoreFollows ==
  ASSUME ControlInv, StoreDefault, NEW r \in Replica, NEW t \in Table
  PROVE  Follows(r, t)'
<1> DEFINE n == update.n
<1>0. TypeOK /\ Order /\ ControlPlane /\ Follows(r, t)
  BY FollowsAll DEF ControlInv, ControlPlane
<1>1. /\ Current.op = "setdefault" /\ update.replica \in Replica
      /\ default_val' = [default_val EXCEPT ![update.replica][Current.table] = n]
      /\ UNCHANGED <<entries, filed, init>>
  BY <1>0, AppliedStep DEF StoreDefault, Order, Step
<1>2. Adds(r, t)' = Adds(r, t)
  BY <1>0, <1>1, MineStep DEF Adds, Current
<1>3. \A m : PlaceOf(m)' = PlaceOf(m)
  BY <1>1 DEF PlaceOf
<1>4. default_val'[r][t] \in {Newest(Sets(r, t)')} \union {w \in Worker : HasPreset(w, r, t)'}
  <2>1. CASE ~(r = update.replica /\ t = Current.table)
    <3>1. default_val'[r][t] = default_val[r][t]
      BY <1>0, <1>1, <2>1 DEF TypeOK
    <3>2. Sets(r, t)' = Sets(r, t)
      BY <1>0, <2>1, MineStep DEF Sets
    <3>3. \A w \in Worker : HasPreset(w, r, t)' <=> HasPreset(w, r, t)
      BY <1>1 DEF HasPreset, PresetIn
    <3> QED BY <1>0, <3>1, <3>2, <3>3 DEF Follows
  <2>2. CASE r = update.replica /\ t = Current.table
    <3>1. default_val'[r][t] = n
      BY <1>0, <1>1, <2>2 DEF TypeOK
    <3>2. /\ Mine(r, t)' = Mine(r, t) \union {n} /\ \A m \in Mine(r, t) : m < n
          /\ Mine(r, t) \subseteq Nat
      BY <1>0, <2>2, MineStep
    <3>3. n \in Nat \ {0}
      BY <1>0, TablesAssumption DEF TypeOK
    <3>4. Sets(r, t)' = Sets(r, t) \union {n} /\ Sets(r, t) \subseteq Mine(r, t)
      BY <1>1, <3>2 DEF Sets, Current
    <3> HIDE DEF n
    <3>5. Newest(Sets(r, t) \union {n}) = n
      BY <3>2, <3>3, <3>4, NewestOfMore
    <3> QED BY <3>1, <3>4, <3>5
  <2> QED BY <2>1, <2>2
<1> QED BY <1>0, <1>1, <1>2, <1>3, <1>4 DEF Follows

\* Whatever the control plane does, the tables are what the updates make of them.
LEMMA ControlFollows ==
  ASSUME ControlInv, ControlPlane
  PROVE  TablesFollowUpdates'
<1>0. TypeOK /\ Order /\ Filed /\ (\A r \in Replica, t \in Table : Follows(r, t))
  BY FollowsAll DEF ControlInv
<1>1. CASE Add \/ StoreDefault
  <2>1. \A r \in Replica, t \in Table : Follows(r, t)'
    BY <1>1, AddFollows, StoreFollows
  <2>2. UNCHANGED <<filed, spoilt>>
    BY <1>1 DEF Add, StoreDefault
  <2>3. Filed'
    BY <1>0, <2>2 DEF Filed
  <2> QED BY <2>1, <2>3, FollowsAll
<1>2. CASE ~(Add \/ StoreDefault)
  <2>1. UNCHANGED <<entries, default_val, init>> /\ spoilt \subseteq spoilt'
    <3>1. UNCHANGED <<entries, default_val, init>>
      BY <1>2, ControlTouches
    <3>2. spoilt \subseteq spoilt'
      BY <1>2 DEF ControlPlane, ReverseKey, ReadKey, BeginChange, FreeDefault, PauseEnds
    <3> QED BY <3>1, <3>2
  <2>2. \A n \in DOMAIN Script : filed'[n] = filed[n] \/ (ReadKey /\ n = update.n)
    BY <1>0, <1>2 DEF TypeOK, ControlPlane, ReverseKey, ReadKey, BeginChange, FreeDefault, PauseEnds
  <2>3. ASSUME NEW r \in Replica, NEW t \in Table
        PROVE  Follows(r, t)'
    <3>1. Mine(r, t)' = Mine(r, t)
      BY <1>0, <1>2, MineStep
    <3>2. ASSUME NEW n \in Mine(r, t)
          PROVE  filed'[n] = filed[n]
      <4>1. ReadKey => Applied(r) = update.n - 1 /\ update.n \in Nat
        BY <1>0, AppliedFacts, TablesAssumption DEF ReadKey, Step, TypeOK
      <4>2. ReadKey => n # update.n
        BY <3>2, <4>1 DEF Mine
      <4>3. n \in DOMAIN Script
        BY <1>0, MineStep
      <4> QED BY <2>2, <4>2, <4>3
    <3>3. \A w \in Worker : HasPreset(w, r, t)' <=> HasPreset(w, r, t)
      BY <2>1 DEF HasPreset, PresetIn
    <3> QED BY <1>0, <2>1, <3>1, <3>2, <3>3, FollowsOn
  <2>4. Filed'
    <3>1. ASSUME NEW n \in DOMAIN Script, filed'[n] # OwnKey(n)
          PROVE  <<"update", n>> \in spoilt
      <4>1. CASE filed'[n] = filed[n]
        BY <1>0, <3>1, <4>1 DEF Filed
      <4>2. CASE ReadKey /\ n = update.n
        <5>1. /\ filed'[n] = reverse_buffer /\ n \in DOMAIN filed
              /\ update.step = "reversed" /\ Script[n] = Current
          BY <1>0, <4>2 DEF ReadKey, Step, Current, TypeOK
        <5> QED BY <3>1, <4>2, <5>1 DEF ControlInv, KeySafe, OwnKey, KeyFor
      <4> QED BY <2>2, <4>1, <4>2
    <3> QED BY <2>1, <3>1 DEF Filed
  <2> QED BY <2>3, <2>4, FollowsAll
<1> QED BY <1>1, <1>2

\* The steps of an update, and then the next update.
LEMMA ControlGoesOn ==
  ASSUME TypeOK, Order, ControlPlane
  PROVE  /\ update'.n \in Nat /\ update.n \in Nat /\ update.n <= update'.n
         /\ ~ReverseKey => update'.step # "reversed"
<1> USE DEF TypeOK
<1>0. update.n \in Nat
  BY TablesAssumption
<1>1. CASE ReverseKey
  BY <1>0, <1>1 DEF ReverseKey
<1>2. CASE ReadKey
  BY <1>0, <1>2 DEF ReadKey
<1>3. CASE BeginChange
  BY <1>0, <1>3 DEF BeginChange
<1>4. CASE Add
  BY <1>0, <1>4 DEF Add, AfterChange
<1>5. CASE FreeDefault
  BY <1>0, <1>5 DEF FreeDefault
<1>6. CASE StoreDefault
  BY <1>0, <1>6 DEF StoreDefault, AfterChange
<1>7. CASE PauseEnds
  <2>1. update' = [update EXCEPT !.replica = 0, !.step = "change"]
    BY <1>7, Replicas DEF PauseEnds
  <2> QED BY <1>0, <2>1
<1> QED BY <1>1, <1>2, <1>3, <1>4, <1>5, <1>6, <1>7 DEF ControlPlane

\* What an operation of the control plane leaves in the tables is an update's.
LEMMA ControlStored ==
  ASSUME ControlInv, ControlPlane
  PROVE  Stored'
<1>0. TypeOK /\ Order /\ Stored
  BY DEF ControlInv
<1>1. \A r \in Replica : Applied(r)' \in Nat /\ Applied(r) \in Nat /\ Applied(r)' >= Applied(r)
  <2>1. TypeOK' /\ Order'
    BY <1>0, ControlTypes
  <2>2. ASSUME TypeOK', Order' PROVE \A r \in Replica : Applied(r)' \in 0 .. Len(Script)
    BY <2>2, Replicas, TablesAssumption DEF TypeOK, Order, Applied, Ahead, Steps
  <2>3. update.n \in Nat
    BY <1>0, TablesAssumption DEF TypeOK
  <2>4. ASSUME NEW r \in Replica
        PROVE  Applied(r)' >= Applied(r)
    <3>1. Applied(r) \in Nat /\ Applied(r)' \in Nat
      BY <1>0, <2>1, <2>2, AppliedFacts, TablesAssumption
    <3>2. CASE (Add \/ StoreDefault) /\ r = update.replica
      <4>1. Applied(r)' = update.n /\ Applied(r) = update.n - 1
        BY <1>0, <3>2, AppliedStep
      <4> QED BY <2>3, <4>1
    <3>3. CASE ~((Add \/ StoreDefault) /\ r = update.replica)
      <4>1. Applied(r)' = Applied(r)
        BY <1>0, <3>3, AppliedStep
      <4> QED BY <3>1, <4>1
    <3> QED BY <3>2, <3>3
  <2> QED BY <1>0, <2>1, <2>2, <2>4, AppliedFacts, TablesAssumption
<1>2. ASSUME NEW r \in Replica, NEW t \in Table
      PROVE  default_val'[r][t] \in {0} \union {n \in Updates(t, "setdefault") : n <= Applied(r)'}
                                    \union {w \in Worker : HasPreset(w, r, t)'}
  <2>1. CASE StoreDefault /\ r = update.replica /\ t = Current.table
    <3>1. default_val'[r][t] = update.n /\ Current.op = "setdefault" /\ update.n \in DOMAIN Script
      BY <1>0, <2>1 DEF TypeOK, Order, StoreDefault, Step
    <3>2. Applied(r)' = update.n
      BY <1>0, <2>1, AppliedStep
    <3>3. update.n \in Updates(t, "setdefault") /\ update.n <= update.n
      BY <2>1, <3>1, TablesAssumption DEF Updates, Current
    <3> QED BY <3>1, <3>2, <3>3
  <2>2. CASE ~(StoreDefault /\ r = update.replica /\ t = Current.table)
    <3>1. default_val'[r][t] = default_val[r][t]
      BY <1>0, <2>2, ControlTouches DEF TypeOK, StoreDefault
    <3>2. \A w \in Worker : HasPreset(w, r, t)' <=> HasPreset(w, r, t)
      BY ControlTouches DEF HasPreset, PresetIn
    <3>3. \A n \in Updates(t, "setdefault") : n <= Applied(r) => n <= Applied(r)'
      BY <1>1, TablesAssumption DEF Updates
    <3> QED BY <1>0, <3>1, <3>2, <3>3 DEF Stored
  <2> QED BY <2>1, <2>2
<1>3. ASSUME NEW r \in Replica, NEW t \in Table, NEW p \in DOMAIN entries'[r][t]
      PROVE  entries'[r][t][p] \in Updates(t, "add") /\ p[2] \in 0 .. Width
  <2>1. CASE Add /\ r = update.replica /\ t = Current.table /\ t \notin Keyless
    <3> DEFINE new == Prefix(filed[update.n], Current.depth)
    <3>1. entries'[r][t] = Put(entries[r][t], new, update.n) /\ Current.op = "add"
          /\ update.n \in DOMAIN Script
      BY <1>0, <2>1 DEF TypeOK, Order, Add, Step
    <3>2. new[2] \in 0 .. Width
      BY <3>1, TablesAssumption DEF Prefix, Current
    <3>3. update.n \in Updates(t, "add")
      BY <2>1, <3>1 DEF Updates, Current
    <3> HIDE DEF new
    <3>4. CASE p = new
      <4>1. entries'[r][t][p] = update.n
        BY <3>1, <3>4 DEF Put
      <4> QED BY <3>2, <3>3, <3>4, <4>1
    <3>5. CASE p # new
      <4>1. p \in DOMAIN entries[r][t] /\ entries'[r][t][p] = entries[r][t][p]
        BY <1>3, <3>1, <3>5 DEF Put
      <4> QED BY <1>0, <4>1 DEF Stored
    <3> QED BY <3>4, <3>5
  <2>2. CASE ~(Add /\ r = update.replica /\ t = Current.table /\ t \notin Keyless)
    <3>1. entries'[r][t] = entries[r][t]
      BY <1>0, <2>2, ControlTouches DEF TypeOK, Add
    <3> QED BY <1>0, <1>3, <3>1 DEF Stored
  <2> QED BY <2>1, <2>2
<1> QED BY <1>2, <1>3 DEF Stored

\* How many preset tables a worker has set in a replica.
LEMMA PresetFacts ==
  ASSUME Starting, NEW w \in Worker, NEW r \in Replica
  PROVE  /\ init[w].k \in 1 .. Len(Preset) + 1 /\ Len(Preset) \in Nat
         /\ PresetIn(w, r) \in 0 .. Len(Preset) /\ PresetIn(w, r) <= init[w].k
<1>0. /\ Replica = {0, 1} /\ Active = 0 /\ NextReplica = 1
      /\ Len(Preset) \in Nat /\ DOMAIN Preset = 1 .. Len(Preset)
  BY Replicas, TablesAssumption
<1>1. /\ init[w].k \in 1 .. Len(Preset) + 1
      /\ init[w].step = "pause" \/ init[w].replica = 0 => init[w].k \in DOMAIN Preset
  <2>1. \A j : Beginning(j).step = "free" /\ Beginning(j).replica = 1
    BY <1>0 DEF Beginning
  <2> QED BY <1>0, <2>1 DEF Starting
<1> QED BY <1>0, <1>1 DEF PresetIn

\* Who has begun to set a default stays so.
LEMMA SettersGrow ==
  ASSUME NEW t, update.n \in Nat, update'.n \in Nat, update.n <= update'.n,
         \A w \in Worker : init[w].k \in Nat /\ init'[w].k \in Nat /\ init[w].k <= init'[w].k
  PROVE  Setters(t) \subseteq Setters(t)'
<1>1. DOMAIN Script \subseteq Nat /\ DOMAIN Preset \subseteq Nat
  BY TablesAssumption
<1> QED BY <1>1 DEF Setters

\* The default of a table is of one who has set it.
LEMMA DefaultOfSetter ==
  ASSUME ControlInv, NEW r \in Replica, NEW t \in Table, default_val[r][t] # 0
  PROVE  default_val[r][t] \in Setters(t)
<1>1. CASE default_val[r][t] \in {n \in Updates(t, "setdefault") : n <= Applied(r)}
  <2>1. Applied(r) <= update.n /\ Applied(r) \in Nat /\ update.n \in Nat
    BY AppliedFacts, TablesAssumption DEF ControlInv, TypeOK, Applied
  <2>2. PICK n \in DOMAIN Script : n = default_val[r][t] /\ n <= Applied(r)
                                  /\ Script[n].table = t /\ Script[n].op = "setdefault"
    BY <1>1 DEF Updates
  <2>3. n <= update.n
    BY <2>1, <2>2, TablesAssumption
  <2> QED BY <2>2, <2>3 DEF Setters
<1>2. CASE default_val[r][t] \in {w \in Worker : HasPreset(w, r, t)}
  <2>1. PICK w \in Worker : w = default_val[r][t] /\ HasPreset(w, r, t)
    BY <1>2
  <2>2. PICK k \in 1 .. PresetIn(w, r) : Preset[k].table = t
    BY <2>1 DEF HasPreset
  <2>3. k \in DOMAIN Preset /\ k <= init[w].k
    BY <2>2, PresetFacts, TablesAssumption DEF ControlInv
  <2> QED BY <2>1, <2>2, <2>3 DEF Setters
<1> QED BY <1>1, <1>2 DEF ControlInv, Stored

\* Somebody frees the old default, which is another's.
LEMMA FreeSafe ==
  ASSUME ControlInv, NEW r \in Replica, NEW t \in Table, NEW a, FreeOld(r, t),
         a \in Setters(t)', \A u : Setters(u) \subseteq Setters(u)', default_val[r][t] # a
  PROVE  FreedOnlyByReset'
<1> DEFINE old == default_val[r][t]
<1>1. /\ \A v \in freed : v[3] \in Setters(v[2]) /\ Setters(v[2]) # {v[3]}
      /\ process = "undefined" => freed # {}
  BY DEF ControlInv, FreedOnlyByReset
<1>2. freed' \subseteq freed \union {<<r, t, old>>} /\ freed \subseteq freed'
      /\ (old = 0 => freed' = freed)
      /\ (process' = process \/ freed # {})
  BY DEF FreeOld
<1>3. old # 0 => old \in Setters(t)'
  BY DefaultOfSetter
<1>4. ASSUME NEW v \in freed'
      PROVE  v[3] \in Setters(v[2])' /\ Setters(v[2])' # {v[3]}
  <2>1. CASE v \in freed
    <3>1. PICK b \in Setters(v[2]) : b # v[3]
      BY <1>1, <2>1
    <3> QED BY <1>1, <2>1, <3>1
  <2>2. CASE v \notin freed
    <3>1. v = <<r, t, old>> /\ old # 0
      BY <1>2, <1>4, <2>2
    <3> HIDE DEF old
    <3>2. v[2] = t /\ v[3] = old
      BY <3>1
    <3> QED BY <1>3, <3>1, <3>2 DEF old
  <2> QED BY <2>1, <2>2
<1>5. process' = "undefined" => freed' # {}
  BY <1>1, <1>2
<1> QED BY <1>4, <1>5 DEF FreedOnlyByReset

\* The control plane keeps the invariant.
LEMMA ControlStep ==
  ASSUME ControlInv, process = "running", ControlPlane
  PROVE  ControlInv'
<1>0. TypeOK /\ Order /\ Starting /\ Stored /\ KeySafe /\ FreedOnlyByReset
  BY DEF ControlInv
<1>1. TypeOK' /\ Order' /\ Stored' /\ TablesFollowUpdates'
  BY <1>0, ControlTypes, ControlStored, ControlFollows
<1>2. KeySafe'
  <2>1. CASE ReverseKey
    BY <1>0, <2>1 DEF ReverseKey, KeySafe, TypeOK, Current
  <2>2. CASE ~ReverseKey
    <3>1. update'.step # "reversed"
      BY <1>0, <2>2, ControlGoesOn
    <3> QED BY <3>1 DEF KeySafe
  <2> QED BY <2>1, <2>2
<1>3. update.n \in Nat /\ update'.n \in Nat /\ update.n <= update'.n
  BY <1>0, ControlGoesOn
<1>4. Starting'
  BY <1>0, ControlTouches DEF Starting
<1>5. \A u : Setters(u) \subseteq Setters(u)'
  <2>1. \A w \in Worker : init[w].k \in Nat /\ init'[w].k \in Nat /\ init[w].k <= init'[w].k
    BY <1>0, ControlTouches, TablesAssumption DEF Starting
  <2> QED BY <1>3, <2>1, SettersGrow
<1>6. FreedOnlyByReset'
  <2>1. CASE FreeDefault
    <3>1. /\ Current.op = "setdefault" /\ update.step = "change" /\ update'.n = update.n
          /\ update.n \in DOMAIN Script
      BY <1>0, <2>1 DEF FreeDefault, Step, TypeOK, Order
    <3>r. PICK r \in Replica : r = update.replica
      BY <1>0, <3>1 DEF Order
    <3>t. PICK t \in Table : t = Current.table
      BY <3>1, TablesAssumption DEF Current
    <3>2. FreeOld(r, t)
      BY <2>1, <3>r, <3>t DEF FreeDefault
    <3>3. update.n \in Setters(t)'
      BY <1>3, <3>1, <3>t DEF Setters, Current
    <3>4. default_val[r][t] # update.n
      <4>1. Applied(r) = update.n - 1
        BY <1>0, <3>1, <3>r, AppliedFacts
      <4>2. update.n \notin Worker /\ update.n # 0
        BY <1>3, <3>1, TablesAssumption
      <4>3. ~(update.n <= Applied(r))
        BY <1>3, <4>1
      <4> QED BY <1>0, <4>2, <4>3 DEF Stored
    <3>5. PICK a : a = update.n
      OBVIOUS
    <3> QED BY <1>5, <3>2, <3>3, <3>4, <3>5, FreeSafe
  <2>2. CASE ~FreeDefault
    <3>1. freed' = freed /\ process' = process
      BY <2>2, ControlTouches
    <3>2. \A v \in freed : Setters(v[2])' # {v[3]}
      <4>1. SUFFICES ASSUME NEW v \in freed PROVE Setters(v[2])' # {v[3]}
        OBVIOUS
      <4>2. PICK b \in Setters(v[2]) : b # v[3]
        BY <1>0 DEF FreedOnlyByReset
      <4> QED BY <1>5, <4>2
    <3> QED BY <1>0, <1>5, <3>1, <3>2 DEF FreedOnlyByReset
  <2> QED BY <2>1, <2>2
<1> QED BY <1>1, <1>2, <1>4, <1>6 DEF ControlInv

\* A worker that starts goes from one replica to the other and to the next preset
\* table, and a table counts as set from the step that sets it.
LEMMA StartingStep ==
  ASSUME ControlInv, NEW w \in Worker, WorkerStarts(w)
  PROVE  /\ Starting'
         /\ init[w].k \in DOMAIN Preset /\ init[w].replica \in Replica
         /\ PresetFree(w) => PresetIn(w, init[w].replica) = init[w].k - 1
         /\ \A v \in Worker : init'[v].k \in Nat /\ init[v].k \in Nat /\ init[v].k <= init'[v].k
         /\ \A v \in Worker, r \in Replica :
              PresetIn(v, r) \in Int /\ PresetIn(v, r)' \in Int /\ PresetIn(v, r) <= PresetIn(v, r)'
         /\ \A r \in Replica : PresetStore(w) /\ r = init[w].replica =>
              PresetIn(w, r)' = init[w].k
<1>0. /\ Replica = {0, 1} /\ Active = 0 /\ NextReplica = 1 /\ Later = {0}
      /\ Len(Preset) \in Nat /\ DOMAIN Preset = 1 .. Len(Preset)
      /\ DOMAIN init = Worker /\ Starting
  BY Replicas, TablesAssumption DEF ControlInv, TypeOK
<1>1. PICK k \in DOMAIN Preset, x \in Replica, s \in {"free", "store", "pause"} :
        init[w] = [k |-> k, replica |-> x, step |-> s] /\ (s = "pause" => x = 1)
  <2>1. init[w].k \in DOMAIN Preset
    BY DEF WorkerStarts, PresetFree, PresetStore, PresetPauseEnds, Presetting
  <2> QED BY <1>0, <2>1 DEF Starting
<1>2. PICK k2 \in Nat, x2 \in Replica, s2 \in {"free", "store", "pause"} :
        /\ init' = [init EXCEPT ![w] = [k |-> k2, replica |-> x2, step |-> s2]]
        /\ \/ PresetFree(w) /\ s = "free" /\ k2 = k /\ x2 = x /\ s2 = "store"
           \/ PresetStore(w) /\ s = "store" /\ x = 1 /\ k2 = k /\ x2 = 1 /\ s2 = "pause"
           \/ PresetStore(w) /\ s = "store" /\ x = 0 /\ k2 = k + 1 /\ x2 = 1 /\ s2 = "free"
           \/ PresetPauseEnds(w) /\ s = "pause" /\ k2 = k /\ x2 = 0 /\ s2 = "free"
  <2>0. init[w].k = k /\ init[w].replica = x /\ init[w].step = s /\ k \in Nat /\ k + 1 \in Nat
    BY <1>0, <1>1
  <2>1. CASE PresetFree(w)
    <3>1. s = "free" /\ init' = [init EXCEPT ![w] = [init[w] EXCEPT !.step = "store"]]
      BY <1>0, <2>0, <2>1 DEF PresetFree, Presetting
    <3>2. [init[w] EXCEPT !.step = "store"] = [k |-> k, replica |-> x, step |-> "store"]
      BY <1>1
    <3> QED BY <2>0, <2>1, <3>1, <3>2
  <2>2. CASE PresetStore(w)
    <3>1. s = "store" /\ init' = [init EXCEPT ![w] = IF x = 1 THEN [init[w] EXCEPT !.step = "pause"]
                                                     ELSE Beginning(k + 1)]
      BY <1>0, <2>0, <2>2 DEF PresetStore, Presetting
    <3>2. [init[w] EXCEPT !.step = "pause"] = [k |-> k, replica |-> x, step |-> "pause"]
          /\ Beginning(k + 1) = [k |-> k + 1, replica |-> 1, step |-> "free"]
      BY <1>0, <1>1 DEF Beginning
    <3> QED BY <1>0, <2>0, <2>2, <3>1, <3>2
  <2>3. CASE PresetPauseEnds(w)
    <3>1. s = "pause"
          /\ init' = [init EXCEPT ![w] = [k |-> k, replica |-> 0, step |-> "free"]]
      BY <1>0, <2>0, <2>3 DEF PresetPauseEnds, Presetting
    <3> QED BY <1>0, <2>0, <2>3, <3>1
  <2> QED BY <2>1, <2>2, <2>3 DEF WorkerStarts
<1>3. /\ init'[w] = [k |-> k2, replica |-> x2, step |-> s2]
      /\ \A v \in Worker : v # w => init'[v] = init[v]
  BY <1>0, <1>2
<1>4. k \in 1 .. Len(Preset) /\ k2 \in 1 .. Len(Preset) + 1 /\ k <= k2
  BY <1>0, <1>2
<1>5. Starting'
  <2>1. init'[w] \in [k : 1 .. Len(Preset) + 1, replica : Replica, step : {"free", "store", "pause"}]
    BY <1>3, <1>4
  <2>2. init'[w].step = "pause" => init'[w].replica = 1
    BY <1>2, <1>3
  <2>3. init'[w].k \notin DOMAIN Preset => init'[w] = Beginning(init'[w].k)
    <3>1. k2 \notin DOMAIN Preset => x2 = 1 /\ s2 = "free"
      BY <1>2
    <3> QED BY <1>0, <1>3, <3>1 DEF Beginning
  <2>4. ASSUME NEW v \in Worker
        PROVE  /\ init'[v] \in [k : 1 .. Len(Preset) + 1, replica : Replica, step : {"free", "store", "pause"}]
               /\ init'[v].step = "pause" => init'[v].replica = NextReplica
               /\ init'[v].k \notin DOMAIN Preset => init'[v] = Beginning(init'[v].k)
    <3>1. CASE v = w
      BY <1>0, <2>1, <2>2, <2>3, <3>1
    <3>2. CASE v # w
      BY <1>0, <1>3, <3>2 DEF Starting
    <3> QED BY <3>1, <3>2
  <2>5. \A j : Beginning(j)' = Beginning(j)
    BY DEF Beginning
  <2> QED BY <2>4 DEF Starting, Beginning
<1>6. \A r \in Replica :
        /\ PresetIn(w, r) = IF r = 1 /\ (s = "pause" \/ x = 0) THEN k ELSE k - 1
        /\ PresetIn(w, r)' = IF r = 1 /\ (s2 = "pause" \/ x2 = 0) THEN k2 ELSE k2 - 1
  BY <1>0, <1>1, <1>3 DEF PresetIn
<1>7. PresetFree(w) => PresetIn(w, x) = k - 1
  <2>1. PresetFree(w) => s = "free"
    BY <1>1 DEF PresetFree, Presetting
  <2> QED BY <1>0, <1>1, <1>6, <2>1
<1>8. \A r \in Replica :
        PresetIn(w, r) \in Int /\ PresetIn(w, r)' \in Int /\ PresetIn(w, r) <= PresetIn(w, r)'
  BY <1>0, <1>1, <1>2, <1>4, <1>6
<1>9. \A v \in Worker, r \in Replica : v # w => PresetIn(v, r)' = PresetIn(v, r)
                                               /\ PresetIn(v, r) \in Int
  BY <1>0, <1>3, PresetFacts DEF PresetIn
<1>10. \A r \in Replica : PresetStore(w) /\ r = x => PresetIn(w, r)' = k
  <2>1. PresetStore(w) => s = "store"
    BY <1>1 DEF PresetStore, Presetting
  <2> QED BY <1>0, <1>2, <1>4, <1>6, <2>1
<1>11. \A v \in Worker : init'[v].k \in Nat /\ init[v].k \in Nat /\ init[v].k <= init'[v].k
  <2>1. init'[w].k = k2 /\ init[w].k = k
    BY <1>1, <1>3
  <2>2. \A v \in Worker : init[v].k \in 1 .. Len(Preset) + 1
    BY <1>0 DEF Starting
  <2> QED BY <1>0, <1>3, <1>4, <2>1, <2>2
<1>12. init[w].k = k /\ init[w].replica = x
  BY <1>1
<1> QED BY <1>5, <1>7, <1>8, <1>9, <1>10, <1>11, <1>12

\* A worker that starts changes defaults of preset tables only, and frees another's.
LEMMA StartKeepsControl ==
  ASSUME ControlInv, process = "running", NEW w \in Worker, WorkerStarts(w)
  PROVE  ControlInv'
<1>x. PICK x \in Replica : x = init[w].replica
  BY StartingStep
<1>p. PICK p \in Table : p = PresetTable(w)
  BY StartingStep, TablesAssumption DEF PresetTable
<1>0. /\ TypeOK /\ Order /\ Starting /\ Stored /\ KeySafe /\ FreedOnlyByReset
      /\ update.n \in Nat
      /\ init[w].k \in DOMAIN Preset /\ p = Preset[init[w].k].table
  BY <1>p, StartingStep, TablesAssumption DEF ControlInv, PresetTable, TypeOK
<1>1. /\ UNCHANGED <<entries, update, filed, reverse_buffer, spoilt>>
      /\ DOMAIN init' = Worker
  BY <1>0 DEF WorkerStarts, PresetFree, PresetStore, PresetPauseEnds, tables, TypeOK
<1>2. \A v \in Worker, r \in Replica, t \in Table : HasPreset(v, r, t) => HasPreset(v, r, t)'
  <2>1. SUFFICES ASSUME NEW v \in Worker, NEW r \in Replica, NEW t \in Table,
                        NEW k \in 1 .. PresetIn(v, r), Preset[k].table = t
                 PROVE  k \in 1 .. PresetIn(v, r)'
    BY DEF HasPreset
  <2>2. PresetIn(v, r) \in Int /\ PresetIn(v, r)' \in Int
    BY StartingStep, <1>0
  <2>3. PresetIn(v, r) <= PresetIn(v, r)'
    BY StartingStep
  <2> QED BY <2>1, <2>2, <2>3
<1>3. \A r \in Replica, t \in Table :
        \/ default_val'[r][t] = default_val[r][t]
        \/ default_val'[r][t] = w /\ HasPreset(w, r, t)'
  <2>1. CASE PresetStore(w)
    <3>1. default_val' = [default_val EXCEPT ![x][p] = w]
      BY <1>x, <1>p, <2>1 DEF PresetStore
    <3>2. HasPreset(w, x, p)'
      <4>1. PICK k \in DOMAIN Preset : k = init[w].k
        BY <1>0
      <4>2. PresetIn(w, x)' = k
        BY <1>x, <2>1, <4>1, StartingStep
      <4>3. k \in 1 .. PresetIn(w, x)' /\ Preset[k].table = p
        BY <1>0, <4>1, <4>2, TablesAssumption
      <4> QED BY <4>3 DEF HasPreset
    <3> QED BY <1>0, <3>1, <3>2 DEF TypeOK
  <2>2. CASE ~PresetStore(w)
    BY <2>2 DEF WorkerStarts, PresetFree, PresetPauseEnds, tables
  <2> QED BY <2>1, <2>2
<1>4. DOMAIN default_val' = Replica /\ \A r \in Replica : DOMAIN default_val'[r] = Table
  BY <1>0 DEF TypeOK, WorkerStarts, PresetFree, PresetStore, PresetPauseEnds, tables
<1>5. TypeOK' /\ Order' /\ KeySafe' /\ Starting'
  BY <1>0, <1>1, <1>4, StartingStep DEF TypeOK, Order, KeySafe, Current
<1>6. Stored'
  BY <1>0, <1>1, <1>2, <1>3 DEF Stored, Applied, Ahead
<1>7. TablesFollowUpdates'
  <2>1. Filed /\ \A r \in Replica, t \in Table : Follows(r, t)
    BY FollowsAll DEF ControlInv
  <2>2. Filed'
    BY <1>1, <2>1 DEF Filed
  <2>3. ASSUME NEW r \in Replica, NEW t \in Table
        PROVE  Follows(r, t)'
    <3>1. Mine(r, t)' = Mine(r, t)
      BY <1>1 DEF Mine, Applied, Ahead
    <3>2. default_val'[r][t] \in {default_val[r][t]} \union {v \in Worker : HasPreset(v, r, t)'}
      BY <1>3
    <3> QED BY <1>1, <1>2, <2>1, <3>1, <3>2, FollowsOn
  <2> QED BY <2>2, <2>3, FollowsAll
<1>8. \A u : Setters(u) \subseteq Setters(u)'
  <2>1. \A v \in Worker : init[v].k \in Nat /\ init'[v].k \in Nat /\ init[v].k <= init'[v].k
    BY StartingStep
  <2> QED BY <1>0, <1>1, <2>1, SettersGrow
<1>9. FreedOnlyByReset'
  <2>1. CASE PresetFree(w)
    <3>1. FreeOld(x, p)
      BY <1>x, <1>p, <2>1 DEF PresetFree
    <3>2. w \in Setters(p)'
      <4>1. init[w].k <= init'[w].k
        BY StartingStep
      <4> QED BY <1>0, <4>1 DEF Setters
    <3>3. default_val[x][p] # w
      <4>1. ~HasPreset(w, x, p)
        <5>1. SUFFICES ASSUME NEW k \in 1 .. PresetIn(w, x), Preset[k].table = p
                       PROVE  FALSE
          BY DEF HasPreset
        <5>2. PresetIn(w, x) = init[w].k - 1
          BY <1>x, <2>1, StartingStep
        <5>3. k \in DOMAIN Preset /\ k # init[w].k
          BY <1>0, <5>1, <5>2, TablesAssumption
        <5> QED BY <1>0, <5>1, <5>3, TablesAssumption
      <4>2. w # 0 /\ w \notin DOMAIN Script
        BY TablesAssumption
      <4>3. w \notin Updates(p, "setdefault")
        BY <4>2 DEF Updates
      <4> QED BY <1>0, <4>1, <4>2, <4>3 DEF Stored
    <3> QED BY <1>0, <1>8, <3>1, <3>2, <3>3, FreeSafe
  <2>2. CASE ~PresetFree(w)
    <3>1. freed' = freed /\ process' = process
      BY <2>2 DEF WorkerStarts, PresetStore, PresetPauseEnds, tables
    <3>2. \A v \in freed : Setters(v[2])' # {v[3]}
      <4>1. SUFFICES ASSUME NEW v \in freed PROVE Setters(v[2])' # {v[3]}
        OBVIOUS
      <4>2. PICK b \in Setters(v[2]) : b # v[3]
        BY <1>0 DEF FreedOnlyByReset
      <4> QED BY <1>8, <4>2
    <3> QED BY <1>0, <1>8, <3>1, <3>2 DEF FreedOnlyByReset
  <2> QED BY <2>1, <2>2
<1> QED BY <1>5, <1>6, <1>7, <1>9 DEF ControlInv

\* Lookups change nothing of it but reverse_buffer, and then they mark the update
\* whose key was in there; and they read freed memory only if some was freed.
LEMMA WorkerKeepsControl ==
  ASSUME ControlInv, process = "running", NEW w \in Worker, WorkerStep(w)
  PROVE  ControlInv'
<1>1. UNCHANGED <<entries, default_val, freed, update, filed, init>>
  BY DEF WorkerStep, Receive, KeyReverse, KeyDone, CopyAction, CopyParam, ReturnPointer,
         ReadIndex, ReadAction, ReadParams, GoOn, ReadFreed, Unread, tables
<1>2. \A n : <<"update", n>> \in spoilt => <<"update", n>> \in spoilt'
  BY DEF WorkerStep, Receive, KeyReverse, KeyDone, CopyAction, CopyParam, ReturnPointer,
         ReadIndex, ReadAction, ReadParams, GoOn, ReadFreed
<1>3. TypeOK' /\ Order' /\ Starting' /\ Stored' /\ TablesFollowUpdates'
  <2>1. TypeOK' /\ Order' /\ Starting'
    BY <1>1 DEF ControlInv, TypeOK, Order, Starting, Current
  <2>2. Stored'
    BY <1>1 DEF ControlInv, Stored, Applied, Ahead, HasPreset, PresetIn
  <2>3. Filed' /\ \A r \in Replica, t \in Table : Follows(r, t)'
    <3>1. Filed /\ \A r \in Replica, t \in Table : Follows(r, t)
      BY FollowsAll DEF ControlInv
    <3>2. Filed'
      BY <1>1, <1>2, <3>1 DEF Filed
    <3>3. ASSUME NEW r \in Replica, NEW t \in Table
          PROVE  Follows(r, t)'
      <4>1. Mine(r, t)' = Mine(r, t)
        BY <1>1 DEF Mine, Applied, Ahead
      <4>2. \A v \in Worker : HasPreset(v, r, t)' <=> HasPreset(v, r, t)
        BY <1>1 DEF HasPreset, PresetIn
      <4> QED BY <1>1, <3>1, <4>1, <4>2, FollowsOn
    <3> QED BY <3>2, <3>3
  <2> QED BY <2>1, <2>2, <2>3, FollowsAll
<1>4. KeySafe'
  <2>1. CASE KeyReverse(w)
    BY <1>1, <1>2, <2>1 DEF KeyReverse, KeySafe, Step, ControlInv, Order, Current, TypeOK
  <2>2. CASE ~KeyReverse(w)
    <3>1. reverse_buffer' = reverse_buffer
      BY <2>2 DEF WorkerStep, Receive, KeyDone, CopyAction, CopyParam, ReturnPointer,
                  ReadIndex, ReadAction, ReadParams, GoOn, ReadFreed
    <3> QED BY <1>1, <1>2, <3>1 DEF ControlInv, KeySafe, Current
  <2> QED BY <2>1, <2>2
<1>5. FreedOnlyByReset'
  <2>1. process' = process \/ freed # {}
    BY DEF WorkerStep, Receive, KeyReverse, KeyDone, CopyAction, CopyParam, ReturnPointer,
           ReadIndex, ReadAction, ReadParams, GoOn, ReadFreed, Freed
  <2>2. \A u : Setters(u)' = Setters(u)
    BY <1>1 DEF Setters
  <2> QED BY <1>1, <2>1, <2>2 DEF ControlInv, FreedOnlyByReset
<1> QED BY <1>3, <1>4, <1>5 DEF ControlInv

\* ControlInv holds in every state.
LEMMA ControlInvariance == Spec => []ControlInv
<1>1. ASSUME Init
      PROVE  ControlInv
  <2> USE <1>1 DEF Init
  <2>0. Len(Script) \in Nat /\ DOMAIN Script = 1 .. Len(Script) /\ None \notin Nat
        /\ Replica = {0, 1} /\ Active = 0 /\ NextReplica = 1
    BY TablesAssumption, Replicas
  <2>1. TypeOK /\ Order /\ Starting
    BY <2>0, TablesAssumption DEF TypeOK, Order, Starting, Beginning, Steps
  <2>2. \A r \in Replica : Applied(r) = 0
    BY <2>0 DEF Applied, Ahead
  <2>3. Stored
    BY <2>0, <2>2 DEF Stored
  <2>4. KeySafe /\ FreedOnlyByReset /\ Filed
    BY DEF KeySafe, FreedOnlyByReset, Filed, OwnKey
  <2>5. ASSUME NEW r \in Replica, NEW t \in Table
        PROVE  Follows(r, t)
    <3>1. Mine(r, t) = {} /\ Adds(r, t) = {} /\ Sets(r, t) = {}
      BY <2>2 DEF Mine, Adds, Sets
    <3>2. default_val[r][t] = 0 /\ entries[r][t] = <<>> /\ DOMAIN <<>> = {}
      OBVIOUS
    <3> QED BY <3>1, <3>2 DEF Follows, Newest
  <2> QED BY <2>1, <2>3, <2>4, <2>5, FollowsAll DEF ControlInv
<1>2. ControlInv /\ [Next]_vars => ControlInv'
  <2> SUFFICES ASSUME ControlInv, [Next]_vars PROVE ControlInv'
    OBVIOUS
  <2>1. CASE Next
    BY <2>1, ControlStep, StartKeepsControl, WorkerKeepsControl DEF Next
  <2>2. CASE UNCHANGED vars
    <3> USE <2>2 DEF vars, tables
    <3>1. TypeOK' /\ Order' /\ Starting' /\ KeySafe' /\ Stored'
      BY DEF ControlInv, TypeOK, Order, Starting, KeySafe, Current, Stored, Applied, Ahead,
             HasPreset, PresetIn
    <3>2. Filed' /\ \A r \in Replica, t \in Table : Follows(r, t)'
      BY FollowsAll
         DEF ControlInv, Filed, Follows, Mine, Adds, Sets, PlaceOf, Applied, Ahead, HasPreset,
             PresetIn
    <3>3. FreedOnlyByReset'
      BY DEF ControlInv, FreedOnlyByReset, Setters
    <3> QED BY <3>1, <3>2, <3>3, FollowsAll DEF ControlInv
  <2> QED BY <2>1, <2>2
<1> QED BY <1>1, <1>2, PTL DEF Spec

-----------------------------------------------------------------------------
(* What a lookup returns.                                                  *)

\* A set of numbers up to K that is not empty has a greatest.
LEMMA Greatest ==
  ASSUME NEW K \in Nat, NEW S, S # {}, S \subseteq 0 .. K
  PROVE  \E m \in S : \A n \in S : n <= m
<1> DEFINE R == OpToRel(<, Nat)
           T == {k \in Nat : K - k \in S}
<1>1. IsWellFoundedOn(R, Nat) /\ T \subseteq Nat
  BY NatLessThanWellFounded
<1>2. T # {}
  <2>1. PICK s \in S : TRUE
    OBVIOUS
  <2>2. K - s \in Nat /\ K - (K - s) = s
    BY <2>1
  <2> QED BY <2>1, <2>2
<1>3. PICK k \in T : \A j \in T : ~(<<j, k>> \in R)
  <2> HIDE DEF R, T
  <2> QED BY <1>1, <1>2, WFMin
<1>4. ASSUME NEW n \in S
      PROVE  n <= K - k
  <2>1. K - n \in T /\ K - n \in Nat /\ k \in Nat
    <3>1. K - n \in Nat /\ K - (K - n) = n
      OBVIOUS
    <3> QED BY <3>1
  <2>2. ~(K - n < k)
    BY <1>3, <2>1 DEF OpToRel
  <2> QED BY <2>1, <2>2
<1> QED BY <1>3, <1>4

\* The longest prefix that matches is there, and was added by an update.
LEMMA LookupFinds ==
  ASSUME ControlInv, NEW t \in Table, NEW k
  PROVE  Lookup(t, k) = 0 \/ Lookup(t, k) \in Updates(t, "add")
<1>1. Active \in Replica /\ Width \in Nat
  BY Replicas, TablesAssumption
<1>2. \A p \in DOMAIN entries[Active][t] :
        entries[Active][t][p] \in Updates(t, "add") /\ p[2] \in 0 .. Width
  BY <1>1 DEF ControlInv, Stored
<1> DEFINE M == Matching(t, k)
           D == {p[2] : p \in M}
<1>3. SUFFICES ASSUME M # {}, t \notin Keyless
               PROVE  Lookup(t, k) \in Updates(t, "add")
  BY DEF Lookup
<1>4. M \subseteq DOMAIN entries[Active][t]
  BY DEF Matching
<1>5. \E p \in M : \A q \in M : q[2] <= p[2]
  <2>1. D # {} /\ D \subseteq 0 .. Width
    BY <1>2, <1>3, <1>4
  <2>2. PICK m \in D : \A n \in D : n <= m
    <3> HIDE DEF D
    <3> QED BY <1>1, <2>1, Greatest
  <2> QED BY <2>2
<1> HIDE DEF D
<1>6. (CHOOSE p \in M : \A q \in M : q[2] <= p[2]) \in M
  BY <1>5
<1> QED BY <1>2, <1>3, <1>4, <1>6 DEF Lookup

-----------------------------------------------------------------------------
(* What a worker has of a table, and the buffers it shares.                *)

IsValue(v) == v = [action |-> v.action, param |-> v.param]
PresetsOf(t) == {w \in Worker : \E k \in DOMAIN Preset : Preset[k].table = t}
Makers(t) == Updates(t, "add") \union Updates(t, "setdefault") \union PresetsOf(t)
Actions(t) == {ValueOf(t, n).action : n \in Makers(t)}

Places == {"idle", "key", "reversed", "lookup", "copying", "index", "action", "params", "next"}

WorkerTypes ==
  /\ DOMAIN worker = Worker /\ DOMAIN kv = Table /\ \A t \in Table : IsValue(kv[t])
  /\ \A w \in Worker :
       /\ DOMAIN worker[w] = DOMAIN Idle
       /\ worker[w].at \in Places /\ worker[w].table \in Table
       /\ IsValue(worker[w].found) /\ IsValue(worker[w].done)

HasBuffer(w) == At(w, "copying") \/ worker[w].res = Kv

\* What w has in hand, whoever else writes into the buffers.
Hand(w) ==
  LET s == worker[w]
  IN /\ s.at \in {"idle", "key", "reversed", "lookup", "copying"} => s.res = Null
     /\ s.at \in {"index", "action", "params"} => s.res # Null
     /\ s.res = Kv \/ s.res = Null
        \/ (\E n \in Makers(s.table) : s.res = Heap(n) /\ s.found = ValueOf(s.table, n))
     /\ At(w, "reversed") => Kind[s.table] = "LOOKUP_LPM"
     /\ At(w, "copying") => s.found.action \in Actions(s.table)
     /\ HasBuffer(w) => kv[s.table].action \in Actions(s.table)
     /\ s.at \notin {"params", "next"} => s.done = NoValue
     /\ s.at = "next" /\ s.res = Null => s.done = s.found

\* What the buffers are to w, as long as nobody else writes into them.
Clean(w) ==
  <<"worker", w>> \notin spoilt =>
    LET s == worker[w]
    IN /\ s.at = "reversed" => reverse_buffer = Reversed(s.packet)
       /\ s.at = "lookup" => s.key = KeyFor(s.table, s.packet)
       /\ s.at = "copying" => kv[s.table].action = s.found.action
       /\ s.res = Kv => kv[s.table] = s.found
       /\ HasBuffer(w) => Copying(s.table) \subseteq {w}
       /\ s.at = "params" => s.done.action = s.found.action
       /\ s.at = "next" => s.done = s.found

WorkerInv == WorkerTypes /\ \A w \in Worker : Hand(w) /\ Clean(w)

\* The values of the script and of the workers, the null pointer's included, are
\* records of two.
LEMMA Values ==
  /\ \A t \in Table : \A n \in Makers(t) :
       IsValue(ValueOf(t, n)) /\ ValueOf(t, n).action \in Actions(t) /\ n # 0
  /\ \A t \in Table : ValueOf(t, 0) = NoValue
  /\ IsValue(NoValue)
  /\ \A n : n # 0 => Heap(n) # Null /\ Heap(n) # Kv /\ Heap(n).n = n /\ Heap(n).at = "heap"
  /\ Null # Kv /\ Heap(0) = Null
<1>1. ASSUME NEW t \in Table, NEW n \in Makers(t)
      PROVE  IsValue(ValueOf(t, n)) /\ n # 0
  <2>1. CASE n \in Worker
    <3>1. n # 0
      BY <2>1, TablesAssumption
    <3>2. ValueOf(t, n) = [action |-> OnlyAction(t), param |-> None]
      BY <2>1, <3>1 DEF ValueOf
    <3> QED BY <3>1, <3>2 DEF IsValue
  <2>2. CASE n \notin Worker
    <3>1. n \in DOMAIN Script
      BY <2>2 DEF Makers, Updates, PresetsOf
    <3>2. n # 0 /\ IsValue(Script[n].value)
      BY <3>1, TablesAssumption DEF IsValue
    <3>3. ValueOf(t, n) = Script[n].value
      BY <2>2, <3>2 DEF ValueOf
    <3> QED BY <3>2, <3>3
  <2> QED BY <2>1, <2>2
<1>2. \A t \in Table : \A n \in Makers(t) : ValueOf(t, n).action \in Actions(t)
  BY DEF Actions
<1>3. IsValue(NoValue)
  BY DEF IsValue, NoValue
<1>4. \A t \in Table : ValueOf(t, 0) = NoValue
  BY TablesAssumption DEF ValueOf
<1> QED BY <1>1, <1>2, <1>3, <1>4 DEF Heap, Null, Kv

\* What a lookup can find in a table.
LEMMA HitOrDefault ==
  ASSUME ControlInv, NEW w \in Worker, worker[w].table \in Table
  PROVE  /\ Hit(w) # 0 => Hit(w) \in Makers(worker[w].table)
         /\ default_val[Active][worker[w].table] # 0 =>
              default_val[Active][worker[w].table] \in Makers(worker[w].table)
<1>1. Active \in Replica
  BY Replicas
<1>2. Hit(w) # 0 => Hit(w) \in Makers(worker[w].table)
  BY LookupFinds DEF Hit, Makers
<1>3. \A t \in Table, v \in Worker : HasPreset(v, Active, t) => v \in PresetsOf(t)
  <2>1. SUFFICES ASSUME NEW t \in Table, NEW v \in Worker, HasPreset(v, Active, t)
                 PROVE  v \in PresetsOf(t)
    OBVIOUS
  <2>2. PICK k \in 1 .. PresetIn(v, Active) : Preset[k].table = t
    BY <2>1 DEF HasPreset
  <2>3. k \in DOMAIN Preset
    BY <1>1, <2>2, PresetFacts, TablesAssumption DEF ControlInv
  <2> QED BY <2>2, <2>3 DEF PresetsOf
<1>4. default_val[Active][worker[w].table] # 0 =>
        default_val[Active][worker[w].table] \in Makers(worker[w].table)
  BY <1>1, <1>3 DEF ControlInv, Stored, Makers
<1> QED BY <1>2, <1>4

\* A step of w is one of w only.
LEMMA Becomes ==
  ASSUME WorkerTypes, NEW w \in Worker, NEW s, Become(w, s)
  PROVE  /\ DOMAIN worker' = Worker /\ worker'[w] = s
         /\ \A v \in Worker : v # w => worker'[v] = worker[v]
  BY DEF WorkerTypes, Become

\* The next table is one, if there is one.
LEMMA FollowingTable ==
  ASSUME WorkerInv, NEW w \in Worker, At(w, "next")
  PROVE  Following(w) \in Table \union {None}
<1>1. worker[w].table \in Table
  BY DEF WorkerInv, WorkerTypes
<1> DEFINE next == NextTable[worker[w].table]
<1>2. \A s \in DOMAIN next : next[s] \in Table \union {None}
  BY <1>1, TablesAssumption
<1>3. "hit" \in DOMAIN next => "miss" \in DOMAIN next
  BY <1>1, TablesAssumption
<1>4. "hit" \notin DOMAIN next => \A a \in Actions(worker[w].table) : a \in DOMAIN next
  <2>1. SUFFICES ASSUME "hit" \notin DOMAIN next, NEW n \in Makers(worker[w].table)
                 PROVE  ValueOf(worker[w].table, n).action \in DOMAIN next
    BY DEF Actions
  <2>2. CASE n \in Worker
    <3>1. n # 0 /\ n \notin DOMAIN Script
      BY <2>2, TablesAssumption
    <3>2. \E k \in DOMAIN Preset : Preset[k].table = worker[w].table
      BY <2>1, <3>1 DEF Makers, Updates, PresetsOf
    <3>3. PICK k \in DOMAIN Preset : OnlyAction(worker[w].table) = Preset[k].action
                                     /\ Preset[k].table = worker[w].table
      BY <3>2 DEF OnlyAction
    <3>4. Preset[k].action \in DOMAIN next
      BY <2>1, <3>3, TablesAssumption
    <3> QED BY <2>2, <3>1, <3>3, <3>4 DEF ValueOf
  <2>3. CASE n \notin Worker
    <3>1. n \in DOMAIN Script /\ Script[n].table = worker[w].table
      BY <2>1, <2>3 DEF Makers, Updates, PresetsOf
    <3>2. n # 0 /\ Script[n].value.action \in DOMAIN next
      <4>1. n # 0
        BY <3>1, TablesAssumption
      <4>2. "hit" \in DOMAIN NextTable[Script[n].table]
            \/ Script[n].value.action \in DOMAIN NextTable[Script[n].table]
        BY <3>1, TablesAssumption
      <4> QED BY <2>1, <3>1, <4>1, <4>2
    <3>3. ValueOf(worker[w].table, n) = Script[n].value
      BY <2>3, <3>2 DEF ValueOf
    <3> QED BY <3>2, <3>3
  <2> QED BY <2>2, <2>3
<1>5. worker[w].res # Null => Content(w).action \in Actions(worker[w].table)
  <2>1. CASE worker[w].res = Kv
    BY <2>1 DEF WorkerInv, Hand, HasBuffer, Content
  <2>2. CASE worker[w].res # Kv /\ worker[w].res # Null
    <3>1. PICK n \in Makers(worker[w].table) : worker[w].res = Heap(n)
      BY <2>2 DEF WorkerInv, Hand
    <3> QED BY <1>1, <2>2, <3>1, Values DEF Content
  <2> QED BY <2>1, <2>2
<1> HIDE DEF next
<1>6. CASE "hit" \in DOMAIN next
  BY <1>2, <1>3, <1>6 DEF Following, next
<1>7. CASE "hit" \notin DOMAIN next
  BY <1>2, <1>4, <1>5, <1>7 DEF Following, next
<1> QED BY <1>6, <1>7

-----------------------------------------------------------------------------
(* The workers' steps.                                                     *)

\* A worker that does not move keeps what it has in hand, as long as buffers are
\* written by actions of their table only.
LEMMA HandStays ==
  ASSUME NEW v \in Worker, Hand(v), worker'[v] = worker[v],
         HasBuffer(v) => \/ kv'[worker[v].table] = kv[worker[v].table]
                         \/ kv'[worker[v].table].action \in Actions(worker[v].table)
  PROVE  Hand(v)'
<1>1. HasBuffer(v)' <=> HasBuffer(v)
  BY DEF HasBuffer, At
<1> QED BY <1>1 DEF Hand, At

\* A worker that does not move stays clean, as long as somebody who writes into its
\* buffers marks it.
LEMMA CleanStays ==
  ASSUME NEW v \in Worker, Clean(v), worker'[v] = worker[v],
         <<"worker", v>> \notin spoilt' =>
           /\ <<"worker", v>> \notin spoilt
           /\ worker[v].at = "reversed" => reverse_buffer' = reverse_buffer
           /\ HasBuffer(v) =>
                /\ kv'[worker[v].table] = kv[worker[v].table]
                /\ Copying(worker[v].table)' \subseteq Copying(worker[v].table)
  PROVE  Clean(v)'
<1>1. HasBuffer(v)' <=> HasBuffer(v)
  BY DEF HasBuffer, At
<1>2. worker[v].at = "copying" \/ worker[v].res = Kv => HasBuffer(v)
  BY DEF HasBuffer, At
<1>3. (Copying(worker[v].table))' = {u \in Worker : worker'[u].at = "copying"
                                      /\ worker'[u].table = worker'[v].table}
  BY DEF Copying, At
<1> QED BY <1>1, <1>2, <1>3 DEF Clean, Copying, At

\* A step of w that copies nothing.
LEMMA QuietStep ==
  ASSUME WorkerInv, NEW w \in Worker, NEW s, Become(w, s), kv' = kv,
         \A v \in Worker : v # w /\ <<"worker", v>> \notin spoilt' =>
           /\ <<"worker", v>> \notin spoilt
           /\ worker[v].at = "reversed" => reverse_buffer' = reverse_buffer,
         DOMAIN s = DOMAIN Idle, s.at \in Places \ {"copying"}, s.table \in Table,
         IsValue(s.found), IsValue(s.done), Hand(w)', Clean(w)'
  PROVE  WorkerInv'
<1>1. /\ DOMAIN worker' = Worker /\ worker'[w] = s
      /\ \A v \in Worker : v # w => worker'[v] = worker[v]
  BY Becomes DEF WorkerInv
<1>2. WorkerTypes'
  BY <1>1 DEF WorkerInv, WorkerTypes
<1>3. ASSUME NEW v \in Worker, v # w
      PROVE  Hand(v)' /\ Clean(v)'
  <2>1. worker'[v] = worker[v] /\ Hand(v) /\ Clean(v)
    BY <1>1, <1>3 DEF WorkerInv
  <2>2. Hand(v)'
    BY <2>1, HandStays
  <2>3. Copying(worker[v].table)' \subseteq Copying(worker[v].table)
    BY <1>1, <2>1 DEF Copying, At
  <2>4. Clean(v)'
    BY <1>3, <2>1, <2>3, CleanStays
  <2> QED BY <2>2, <2>4
<1> QED BY <1>2, <1>3 DEF WorkerInv

\* A packet is received, and its key is extracted.
LEMMA KeySteps ==
  ASSUME WorkerInv, NEW w \in Worker, Receive(w) \/ KeyReverse(w) \/ KeyDone(w)
  PROVE  WorkerInv'
<1>0. /\ WorkerTypes /\ Hand(w) /\ Clean(w) /\ DOMAIN worker[w] = DOMAIN Idle
      /\ worker[w].table \in Table /\ First \in Table /\ IsValue(NoValue)
      /\ IsValue(worker[w].found) /\ IsValue(worker[w].done)
      /\ DOMAIN Idle = {"at", "table", "packet", "key", "found", "res", "index", "done"}
  BY Values, TablesAssumption DEF WorkerInv, WorkerTypes, Idle
<1>1. CASE Receive(w)
  <2>1. PICK p \in Packet : Become(w, [Idle EXCEPT !.at = "key", !.packet = p])
    BY <1>1 DEF Receive
  <2> DEFINE r == [Idle EXCEPT !.at = "key", !.packet = p]
  <2>2. /\ DOMAIN r = DOMAIN Idle /\ r.at = "key" /\ r.table = First /\ r.found = NoValue
        /\ r.done = NoValue /\ r.res = Null
    BY DEF Idle
  <2>3. worker'[w] = r
    BY <1>0, <2>1, Becomes
  <2> HIDE DEF r
  <2>4. Hand(w)' /\ Clean(w)'
    BY <2>2, <2>3, Values DEF Hand, Clean, HasBuffer, At
  <2>5. UNCHANGED <<kv, reverse_buffer, spoilt>>
    BY <1>1 DEF Receive
  <2>6. r.at \in Places \ {"copying"}
    BY <2>2 DEF Places
  <2> QED BY <1>0, <2>1, <2>2, <2>4, <2>5, <2>6, QuietStep DEF r
<1>2. CASE KeyReverse(w)
  <2> DEFINE r == [worker[w] EXCEPT !.at = "reversed"]
  <2>1. Become(w, r) /\ worker[w].at = "key" /\ kv' = kv /\ reverse_buffer' = Reversed(worker[w].packet)
        /\ Kind[worker[w].table] = "LOOKUP_LPM"
    BY <1>2 DEF KeyReverse, At
  <2>2. /\ DOMAIN r = DOMAIN Idle /\ r.at = "reversed" /\ r.table = worker[w].table
        /\ r.found = worker[w].found /\ r.packet = worker[w].packet
        /\ r.done = worker[w].done /\ r.res = worker[w].res
    BY <1>0
  <2>3. worker'[w] = r
    BY <1>0, <2>1, Becomes
  <2> HIDE DEF r
  <2>4. Hand(w)' /\ Clean(w)'
    BY <1>0, <2>1, <2>2, <2>3, Values DEF Hand, Clean, HasBuffer, At
  <2>5. \A v \in Worker : <<"worker", v>> \notin spoilt' =>
          <<"worker", v>> \notin spoilt /\ worker[v].at # "reversed"
    BY <1>2 DEF KeyReverse, Reversing
  <2>6. r.at \in Places \ {"copying"}
    BY <2>2 DEF Places
  <2> QED BY <1>0, <2>1, <2>2, <2>4, <2>5, <2>6, QuietStep
<1>3. CASE KeyDone(w)
  <2>1. PICK k : /\ Become(w, [worker[w] EXCEPT !.at = "lookup", !.key = k])
                 /\ \/ worker[w].at = "reversed" /\ k = reverse_buffer
                    \/ worker[w].at = "key" /\ k = worker[w].packet
                       /\ Kind[worker[w].table] = "LOOKUP_EXACT"
    BY <1>3 DEF KeyDone, At
  <2> DEFINE r == [worker[w] EXCEPT !.at = "lookup", !.key = k]
  <2>2. /\ DOMAIN r = DOMAIN Idle /\ r.at = "lookup" /\ r.table = worker[w].table
        /\ r.found = worker[w].found /\ r.packet = worker[w].packet /\ r.key = k
        /\ r.done = worker[w].done /\ r.res = worker[w].res
    BY <1>0
  <2>3. worker'[w] = r
    BY <1>0, <2>1, Becomes
  <2>4. UNCHANGED <<kv, reverse_buffer, spoilt>>
    BY <1>3 DEF KeyDone
  <2> HIDE DEF r
  <2>5. Hand(w)' /\ Clean(w)'
    BY <1>0, <2>1, <2>2, <2>3, <2>4, Values DEF Hand, Clean, HasBuffer, At, KeyFor
  <2>6. r.at \in Places \ {"copying"}
    BY <2>2 DEF Places
  <2> QED BY <1>0, <2>1, <2>2, <2>4, <2>5, <2>6, QuietStep DEF r
<1> QED BY <1>1, <1>2, <1>3

\* A lookup returns a pointer: to the value it found, to the default, or none.
LEMMA PointerStep ==
  ASSUME ControlInv, WorkerInv, NEW w \in Worker, ReturnPointer(w)
  PROVE  WorkerInv'
<1> DEFINE t == worker[w].table
           n == IF Hit(w) # 0 THEN Hit(w) ELSE default_val[Active][t]
           res == IF Hit(w) # 0 THEN Heap(n) ELSE OnMiss(t)
           r == [worker[w] EXCEPT !.at = IF res = Null THEN "next" ELSE "index",
                                  !.found = ValueOf(t, n), !.res = res]
<1>0. /\ WorkerTypes /\ Hand(w) /\ Clean(w) /\ DOMAIN worker[w] = DOMAIN Idle
      /\ t \in Table /\ IsValue(worker[w].done) /\ worker[w].at = "lookup"
      /\ DOMAIN Idle = {"at", "table", "packet", "key", "found", "res", "index", "done"}
  BY DEF WorkerInv, WorkerTypes, Idle, ReturnPointer, At
<1>1. /\ Become(w, r) /\ UNCHANGED <<kv, reverse_buffer, spoilt>>
      /\ res = Heap(n)
  BY DEF ReturnPointer, OnMiss
<1>2. n = 0 \/ n \in Makers(t)
  BY <1>0, HitOrDefault
<1>3. /\ IsValue(ValueOf(t, n)) /\ (n = 0 => ValueOf(t, n) = NoValue)
      /\ (n = 0 <=> res = Null) /\ res # Kv
  BY <1>0, <1>1, <1>2, Values
<1> HIDE DEF n, res
<1>4. /\ DOMAIN r = DOMAIN Idle /\ r.at = (IF res = Null THEN "next" ELSE "index")
      /\ r.table = t /\ r.found = ValueOf(t, n) /\ r.done = worker[w].done /\ r.res = res
  BY <1>0
<1>5. worker'[w] = r
  BY <1>0, <1>1, Becomes
<1> HIDE DEF r, t
<1>6. worker[w].done = NoValue
  BY <1>0 DEF Hand
<1>7. Hand(w)' /\ Clean(w)'
  BY <1>1, <1>2, <1>3, <1>4, <1>5, <1>6, Values DEF Hand, Clean, HasBuffer, At
<1>8. r.at \in Places \ {"copying"}
  BY <1>4 DEF Places
<1> QED BY <1>0, <1>1, <1>3, <1>4, <1>7, <1>8, QuietStep

\* What a worker finds behind the pointer it was given.
LEMMA ContentIs ==
  ASSUME WorkerInv, NEW w \in Worker, worker[w].res # Null
  PROVE  /\ IsValue(Content(w))
         /\ worker[w].res # Kv \/ <<"worker", w>> \notin spoilt => Content(w) = worker[w].found
<1>1. Hand(w) /\ Clean(w) /\ WorkerTypes /\ worker[w].table \in Table /\ IsValue(worker[w].found)
  BY DEF WorkerInv, WorkerTypes
<1>2. CASE worker[w].res = Kv
  BY <1>1, <1>2 DEF Content, Clean, WorkerTypes
<1>3. CASE worker[w].res # Kv
  <2>1. PICK n \in Makers(worker[w].table) :
               worker[w].res = Heap(n) /\ worker[w].found = ValueOf(worker[w].table, n)
    BY <1>1, <1>3 DEF Hand
  <2> QED BY <1>1, <1>3, <2>1, Values DEF Content
<1> QED BY <1>2, <1>3

\* The value is read: the index behind it, the action, the parameter.
LEMMA ReadSteps ==
  ASSUME WorkerInv, NEW w \in Worker, ReadIndex(w) \/ ReadAction(w) \/ ReadParams(w)
  PROVE  WorkerInv'
<1>0. /\ WorkerTypes /\ Hand(w) /\ Clean(w) /\ DOMAIN worker[w] = DOMAIN Idle
      /\ worker[w].table \in Table
      /\ IsValue(worker[w].found) /\ IsValue(worker[w].done)
      /\ DOMAIN Idle = {"at", "table", "packet", "key", "found", "res", "index", "done"}
  BY DEF WorkerInv, WorkerTypes, Idle
<1>1. UNCHANGED <<kv, reverse_buffer, spoilt>>
  BY DEF ReadIndex, ReadAction, ReadParams
<1>2. worker[w].res # Null
  BY <1>0 DEF ReadIndex, ReadAction, ReadParams, Hand, At
<1>3. /\ IsValue(Content(w))
      /\ worker[w].res # Kv \/ <<"worker", w>> \notin spoilt => Content(w) = worker[w].found
  BY <1>2, ContentIs
<1>4. PICK at, index, done :
        /\ at \in Places \ {"copying"}
        /\ Become(w, [worker[w] EXCEPT !.at = at, !.index = index, !.done = done])
        /\ \/ worker[w].at = "index" /\ at = "action" /\ done = worker[w].done
           \/ worker[w].at = "action" /\ at = "params"
              /\ done = [worker[w].done EXCEPT !.action = Content(w).action]
           \/ worker[w].at = "params" /\ at = "next"
              /\ done = [worker[w].done EXCEPT !.param = Content(w).param]
  <2>1. CASE ReadIndex(w)
    <3>1. PICK i : Become(w, [worker[w] EXCEPT !.at = "action", !.index = i])
      BY <2>1 DEF ReadIndex
    <3>2. [worker[w] EXCEPT !.at = "action", !.index = i]
            = [worker[w] EXCEPT !.at = "action", !.index = i, !.done = worker[w].done]
      BY <1>0
    <3> QED BY <2>1, <3>1, <3>2 DEF ReadIndex, At, Places
  <2>2. CASE ReadAction(w)
    <3> DEFINE d == [worker[w].done EXCEPT !.action = Content(w).action]
    <3>1. Become(w, [worker[w] EXCEPT !.at = "params", !.done.action = Content(w).action])
      BY <2>2 DEF ReadAction
    <3>2. [worker[w] EXCEPT !.at = "params", !.done.action = Content(w).action]
            = [worker[w] EXCEPT !.at = "params", !.index = worker[w].index, !.done = d]
      BY <1>0
    <3> QED BY <2>2, <3>1, <3>2 DEF ReadAction, At, Places
  <2>3. CASE ReadParams(w)
    <3> DEFINE d == [worker[w].done EXCEPT !.param = Content(w).param]
    <3>1. Become(w, [worker[w] EXCEPT !.at = "next", !.done.param = Content(w).param])
      BY <2>3 DEF ReadParams
    <3>2. [worker[w] EXCEPT !.at = "next", !.done.param = Content(w).param]
            = [worker[w] EXCEPT !.at = "next", !.index = worker[w].index, !.done = d]
      BY <1>0
    <3> QED BY <2>3, <3>1, <3>2 DEF ReadParams, At, Places
  <2> QED BY <2>1, <2>2, <2>3
<1> DEFINE r == [worker[w] EXCEPT !.at = at, !.index = index, !.done = done]
<1>5. /\ DOMAIN r = DOMAIN Idle /\ r.at = at /\ r.table = worker[w].table
      /\ r.found = worker[w].found /\ r.done = done /\ r.res = worker[w].res
  BY <1>0
<1>6. worker'[w] = r
  BY <1>0, <1>4, Becomes
<1>7. /\ IsValue(done)
      /\ at = "params" => done.action = Content(w).action
      /\ at = "next" => done.action = worker[w].done.action /\ done.param = Content(w).param
  BY <1>0, <1>4 DEF IsValue
<1> HIDE DEF r
<1>8. Copying(worker[w].table)' \subseteq Copying(worker[w].table)
  BY <1>0, <1>4, <1>5, <1>6, Becomes DEF Copying, At
<1>9. Hand(w)'
  BY <1>0, <1>1, <1>2, <1>4, <1>5, <1>6 DEF Hand, HasBuffer, At
<1>10. Clean(w)'
  <2>1. SUFFICES ASSUME <<"worker", w>> \notin spoilt
                 PROVE  /\ worker[w].res = Kv => kv[worker[w].table] = worker[w].found
                        /\ HasBuffer(w)' => Copying(worker[w].table)' \subseteq {w}
                        /\ at = "params" => done.action = worker[w].found.action
                        /\ at = "next" => done = worker[w].found
    BY <1>1, <1>4, <1>5, <1>6 DEF Clean
  <2>2. HasBuffer(w)' => HasBuffer(w)
    BY <1>4, <1>5, <1>6 DEF HasBuffer, At
  <2>3. at = "next" => done.action = worker[w].found.action
    BY <1>0, <1>4, <1>7, <2>1 DEF Clean
  <2>4. Content(w) = worker[w].found
    BY <1>3, <2>1
  <2>5. at = "next" => done = worker[w].found
    BY <1>0, <1>7, <2>3, <2>4 DEF IsValue
  <2> QED BY <1>0, <1>7, <1>8, <2>1, <2>2, <2>4, <2>5 DEF Clean
<1> QED BY <1>0, <1>1, <1>4, <1>5, <1>7, <1>9, <1>10, QuietStep DEF r

\* The packet goes to the next table, or is done with.
LEMMA GoOnStep ==
  ASSUME WorkerInv, NEW w \in Worker, GoOn(w)
  PROVE  WorkerInv'
<1> DEFINE r == IF Following(w) = None THEN Idle
                ELSE [Idle EXCEPT !.at = "key", !.table = Following(w),
                                  !.packet = worker[w].packet]
<1>0. WorkerTypes /\ First \in Table /\ IsValue(NoValue)
  BY Values, TablesAssumption DEF WorkerInv
<1>1. /\ Become(w, r) /\ UNCHANGED <<kv, reverse_buffer>>
      /\ spoilt' = spoilt \ {<<"worker", w>>}
  BY DEF GoOn
<1>2. Following(w) \in Table \union {None}
  BY FollowingTable DEF GoOn
<1>3. /\ DOMAIN r = DOMAIN Idle /\ r.at \in {"idle", "key"} /\ r.table \in Table
      /\ r.found = NoValue /\ r.done = NoValue /\ r.res = Null
  BY <1>0, <1>2 DEF Idle
<1>4. worker'[w] = r
  BY <1>0, <1>1, Becomes
<1> HIDE DEF r
<1>5. Hand(w)' /\ Clean(w)'
  BY <1>3, <1>4, Values DEF Hand, Clean, HasBuffer, At
<1>6. r.at \in Places \ {"copying"}
  BY <1>3 DEF Places
<1>7. \A v \in Worker : v # w /\ <<"worker", v>> \notin spoilt' => <<"worker", v>> \notin spoilt
  BY <1>1
<1> QED BY <1>0, <1>1, <1>3, <1>5, <1>6, <1>7, QuietStep

\* exact_lookup begins to copy a hit: who uses the buffer is marked, and the copier
\* too if another copy is under way.
LEMMA CopyActionStep ==
  ASSUME ControlInv, WorkerInv, NEW w \in Worker, CopyAction(w)
  PROVE  WorkerInv'
<1>t. PICK t \in Table : t = worker[w].table
  BY DEF WorkerInv, WorkerTypes
<1> DEFINE val == ValueOf(t, Hit(w))
           r == [worker[w] EXCEPT !.at = "copying", !.found = val]
<1>0. /\ WorkerTypes /\ Hand(w) /\ Clean(w) /\ DOMAIN worker[w] = DOMAIN Idle
      /\ t \in Table /\ IsValue(worker[w].done) /\ worker[w].at = "lookup"
      /\ DOMAIN Idle = {"at", "table", "packet", "key", "found", "res", "index", "done"}
  BY <1>t DEF WorkerInv, WorkerTypes, Idle, CopyAction, At
<1>1. /\ Become(w, r) /\ reverse_buffer' = reverse_buffer
      /\ kv' = [kv EXCEPT ![t].action = val.action]
      /\ spoilt' = spoilt \union {<<"worker", v>> : v \in Using(t)}
                          \union {<<"worker", w>> : v \in Copying(t)}
  BY <1>t DEF CopyAction
<1>2. Hit(w) \in Makers(t)
  BY <1>0, <1>t, HitOrDefault DEF CopyAction
<1>3. IsValue(val) /\ val.action \in Actions(t)
  BY <1>0, <1>2, Values
<1>4. /\ DOMAIN r = DOMAIN Idle /\ r.at = "copying" /\ r.table = t
      /\ r.found = val /\ r.done = worker[w].done /\ r.res = worker[w].res
  BY <1>0, <1>t
<1>5. /\ DOMAIN worker' = Worker /\ worker'[w] = r
      /\ \A v \in Worker : v # w => worker'[v] = worker[v]
  BY <1>0, <1>1, Becomes
<1> HIDE DEF val, r
<1>6. /\ DOMAIN kv' = Table /\ kv'[t].action = val.action /\ IsValue(kv'[t])
      /\ \A u \in Table : u # t => kv'[u] = kv[u]
  BY <1>0, <1>1 DEF WorkerTypes, IsValue
<1>7. WorkerTypes'
  <2>1. \A u \in Table : IsValue(kv'[u])
    BY <1>0, <1>6 DEF WorkerTypes
  <2>2. \A v \in Worker :
           /\ DOMAIN worker'[v] = DOMAIN Idle
           /\ worker'[v].at \in Places /\ worker'[v].table \in Table
           /\ IsValue(worker'[v].found) /\ IsValue(worker'[v].done)
    BY <1>0, <1>3, <1>4, <1>5 DEF WorkerTypes, Places
  <2> QED BY <1>5, <1>6, <2>1, <2>2 DEF WorkerTypes
<1>8. worker[w].res = Null /\ worker[w].done = NoValue
  BY <1>0, <1>t DEF Hand
<1>9. Hand(w)'
  BY <1>3, <1>4, <1>5, <1>6, <1>8, Values DEF Hand, HasBuffer, At
<1>10. Clean(w)'
  <2>1. <<"worker", w>> \notin spoilt' => Copying(t) = {}
    BY <1>1
  <2>2. <<"worker", w>> \notin spoilt' => Copying(t)' \subseteq {w}
    BY <1>5, <2>1 DEF Copying, At
  <2> QED BY <1>4, <1>5, <1>6, <1>8, <2>2, Values DEF Clean
<1>11. ASSUME NEW v \in Worker, v # w
       PROVE  Hand(v)' /\ Clean(v)'
  <2>1. worker'[v] = worker[v] /\ Hand(v) /\ Clean(v) /\ worker[v].table \in Table
    BY <1>5, <1>11 DEF WorkerInv, WorkerTypes
  <2>2. Hand(v)'
    BY <1>3, <1>6, <2>1, HandStays
  <2>3. <<"worker", v>> \notin spoilt' => <<"worker", v>> \notin spoilt /\ v \notin Using(t)
    BY <1>1
  <2>4. HasBuffer(v) /\ v \notin Using(t) => worker[v].table # t
    BY DEF HasBuffer, Using, Copying
  <2>5. worker[v].table # t => Copying(worker[v].table)' \subseteq Copying(worker[v].table)
    BY <1>4, <1>5, <2>1 DEF Copying, At
  <2>6. Clean(v)'
    BY <1>1, <1>6, <2>1, <2>3, <2>4, <2>5, CleanStays
  <2> QED BY <2>2, <2>6
<1> QED BY <1>7, <1>9, <1>10, <1>11 DEF WorkerInv

\* It ends the copy: nobody else has the buffer and is clean.
LEMMA CopyParamStep ==
  ASSUME WorkerInv, NEW w \in Worker, CopyParam(w)
  PROVE  WorkerInv'
<1>t. PICK t \in Table : t = worker[w].table
  BY DEF WorkerInv, WorkerTypes
<1> DEFINE r == [worker[w] EXCEPT !.at = "index", !.res = Kv]
<1>0. /\ WorkerTypes /\ Hand(w) /\ Clean(w) /\ DOMAIN worker[w] = DOMAIN Idle
      /\ t \in Table /\ IsValue(worker[w].done) /\ IsValue(worker[w].found)
      /\ worker[w].at = "copying" /\ w \in Copying(t) /\ HasBuffer(w)
      /\ DOMAIN Idle = {"at", "table", "packet", "key", "found", "res", "index", "done"}
  BY <1>t DEF WorkerInv, WorkerTypes, Idle, CopyParam, At, Copying, HasBuffer
<1>1. /\ Become(w, r) /\ UNCHANGED <<reverse_buffer, spoilt>>
      /\ kv' = [kv EXCEPT ![t].param = worker[w].found.param]
  BY <1>t DEF CopyParam
<1>2. /\ DOMAIN r = DOMAIN Idle /\ r.at = "index" /\ r.table = t
      /\ r.found = worker[w].found /\ r.done = worker[w].done /\ r.res = Kv
  BY <1>0, <1>t
<1>3. /\ DOMAIN worker' = Worker /\ worker'[w] = r
      /\ \A v \in Worker : v # w => worker'[v] = worker[v]
  BY <1>0, <1>1, Becomes
<1> HIDE DEF r
<1>4. /\ DOMAIN kv' = Table /\ kv'[t].action = kv[t].action /\ IsValue(kv'[t])
      /\ kv'[t].param = worker[w].found.param
      /\ \A u \in Table : u # t => kv'[u] = kv[u]
  BY <1>0, <1>1 DEF WorkerTypes, IsValue
<1>5. WorkerTypes'
  <2>1. \A u \in Table : IsValue(kv'[u])
    BY <1>0, <1>4 DEF WorkerTypes
  <2>2. \A v \in Worker :
           /\ DOMAIN worker'[v] = DOMAIN Idle
           /\ worker'[v].at \in Places /\ worker'[v].table \in Table
           /\ IsValue(worker'[v].found) /\ IsValue(worker'[v].done)
    BY <1>0, <1>2, <1>3 DEF WorkerTypes, Places
  <2> QED BY <1>3, <1>4, <2>1, <2>2 DEF WorkerTypes
<1>6. worker[w].done = NoValue /\ kv[t].action \in Actions(t)
  BY <1>0, <1>t DEF Hand, HasBuffer, At
<1>7. Copying(t)' \subseteq Copying(t) \ {w}
  BY <1>2, <1>3 DEF Copying, At
<1>8. <<"worker", w>> \notin spoilt => kv[t].action = worker[w].found.action
                                      /\ Copying(t) \subseteq {w}
  BY <1>0, <1>t DEF Clean
<1>9. ASSUME NEW v \in Worker, v # w
      PROVE  Hand(v)' /\ Clean(v)'
  <2>1. worker'[v] = worker[v] /\ Hand(v) /\ Clean(v) /\ worker[v].table \in Table
    BY <1>3, <1>9 DEF WorkerInv, WorkerTypes
  <2>2. Hand(v)'
    BY <1>4, <1>6, <2>1, HandStays
  <2>3. <<"worker", v>> \notin spoilt /\ HasBuffer(v) => worker[v].table # t
    BY <1>0, <1>9, <2>1 DEF Clean
  <2>4. Copying(worker[v].table)' \subseteq Copying(worker[v].table)
    BY <1>2, <1>3, <2>1 DEF Copying, At
  <2>5. Clean(v)'
    BY <1>1, <1>4, <2>1, <2>3, <2>4, CleanStays
  <2> QED BY <2>2, <2>5
<1>10. Hand(w)'
  BY <1>2, <1>3, <1>4, <1>6, Values DEF Hand, HasBuffer, At
<1>11. Clean(w)'
  <2>1. <<"worker", w>> \notin spoilt => kv'[t] = worker[w].found
    BY <1>0, <1>4, <1>8 DEF IsValue
  <2> QED BY <1>1, <1>2, <1>3, <1>7, <1>8, <2>1 DEF Clean
<1> QED BY <1>5, <1>9, <1>10, <1>11 DEF WorkerInv

\* The control plane turns a key round in reverse_buffer and marks who has one in it;
\* nothing else that is done to the tables concerns the lookups.
LEMMA ControlKeepsWorkers ==
  ASSUME WorkerInv, ControlPlane \/ \E w \in Worker : WorkerStarts(w)
  PROVE  WorkerInv'
<1>1. UNCHANGED <<worker, kv>>
  BY ControlTouches DEF WorkerStarts, PresetFree, PresetStore, PresetPauseEnds
<1>2. \A v \in Worker : <<"worker", v>> \notin spoilt' =>
        /\ <<"worker", v>> \notin spoilt
        /\ worker[v].at = "reversed" => reverse_buffer' = reverse_buffer
  <2>1. CASE ReverseKey
    BY <2>1 DEF ReverseKey, Reversing
  <2>2. CASE ControlPlane /\ ~ReverseKey
    BY <2>2 DEF ControlPlane, ReadKey, BeginChange, Add, FreeDefault, StoreDefault, PauseEnds
  <2>3. CASE \E w \in Worker : WorkerStarts(w)
    BY <2>3 DEF WorkerStarts, PresetFree, PresetStore, PresetPauseEnds
  <2> QED BY <2>1, <2>2, <2>3
<1>3. WorkerTypes'
  BY <1>1 DEF WorkerInv, WorkerTypes
<1>4. ASSUME NEW v \in Worker
      PROVE  Hand(v)' /\ Clean(v)'
  <2>1. Hand(v) /\ Clean(v) /\ worker'[v] = worker[v]
    BY <1>1 DEF WorkerInv
  <2>2. Copying(worker[v].table)' \subseteq Copying(worker[v].table)
    BY <1>1 DEF Copying, At
  <2> QED BY <1>1, <1>2, <2>1, <2>2, HandStays, CleanStays
<1> QED BY <1>3, <1>4 DEF WorkerInv

\* WorkerInv holds in every state.
LEMMA WorkerInvariance == Spec => []WorkerInv
<1>1. ASSUME Init
      PROVE  WorkerInv
  <2> USE <1>1 DEF Init
  <2>1. First \in Table /\ IsValue(NoValue)
    BY Values, TablesAssumption
  <2>2. WorkerTypes
    BY <2>1 DEF WorkerTypes, Idle, Places
  <2>3. ASSUME NEW w \in Worker
        PROVE  Hand(w) /\ Clean(w)
    <3>1. worker[w].at = "idle" /\ worker[w].res = Null /\ worker[w].done = NoValue
      BY DEF Idle
    <3> QED BY <3>1, Values DEF Hand, Clean, HasBuffer, At
  <2> QED BY <2>2, <2>3 DEF WorkerInv
<1>2. ControlInv /\ WorkerInv /\ [Next]_vars => WorkerInv'
  <2> SUFFICES ASSUME ControlInv, WorkerInv, [Next]_vars PROVE WorkerInv'
    OBVIOUS
  <2>1. ASSUME NEW w \in Worker, WorkerStep(w)
        PROVE  WorkerInv'
    <3>1. CASE ReadFreed(w)
      BY <3>1 DEF ReadFreed, WorkerInv, WorkerTypes, Hand, Clean, HasBuffer, At, Copying
    <3> QED BY <2>1, <3>1, KeySteps, PointerStep, ReadSteps, GoOnStep, CopyActionStep,
               CopyParamStep DEF WorkerStep
  <2>2. CASE UNCHANGED vars
    BY <2>2 DEF vars, WorkerInv, WorkerTypes, Hand, Clean, HasBuffer, At, Copying
  <2> QED BY <2>1, <2>2, ControlKeepsWorkers DEF Next
<1> QED BY <1>1, <1>2, ControlInvariance, PTL DEF Spec

-----------------------------------------------------------------------------
(* The theorems.                                                           *)

\* Each replica of each table is at all times what the updates it has been given
\* make of an empty one; replica 0 follows replica 1; and a key is only lost to a
\* worker that turned another one round in reverse_buffer meanwhile.
THEOREM ReplicasFollow == Spec => []TablesFollowUpdates
<1>1. ControlInv => TablesFollowUpdates
  BY DEF ControlInv
<1> QED BY <1>1, ControlInvariance, PTL

\* A worker into whose buffers nobody has written looks up the key of its packet, and
\* does what the value it found said at the lookup.
THEOREM CleanWorkersActRight == Spec => []UndisturbedActsRight
<1>1. WorkerInv => UndisturbedActsRight
  BY DEF WorkerInv, Clean, UndisturbedActsRight
<1> QED BY <1>1, WorkerInvariance, PTL

\* Freed memory is only of defaults that two have set, updates or workers that start,
\* and none is read or freed again without.
THEOREM FreedByResetOnly == Spec => []FreedOnlyByReset
<1>1. ControlInv => FreedOnlyByReset
  BY DEF ControlInv
<1> QED BY <1>1, ControlInvariance, PTL
=============================================================================
