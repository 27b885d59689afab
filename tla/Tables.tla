-------------------------------- MODULE Tables --------------------------------
(***************************************************************************)
(* The lookup tables of the data plane: odp_tables.c, the promotion of an  *)
(* update to every replica (odp_lib.c), and the generated functions that   *)
(* add to a table (controlplane.c.py) and apply one to a packet            *)
(* (dataplane.c.py).  The thread of the control plane changes the tables   *)
(* while the workers look packets up in them, and nothing is locked.  The  *)
(* workers change tables too: each, when it starts, sets the default of    *)
(* the tables that have no key and one action, whatever the control plane  *)
(* and the workers that are running do with them.                          *)
(*                                                                         *)
(* Of each table there are two replicas.  An update is made in replica 1,  *)
(* and after a pause in replica 0; the workers, who were meant to be       *)
(* switched between the two, use replica 0 throughout, because             *)
(* change_replica is empty.                                                *)
(*                                                                         *)
(* The workers share memory in two more places.  A hit in an exact table   *)
(* is copied to the one buffer ext->kv of that table and read from there,  *)
(* and the key of a prefix table is turned round in the global             *)
(* reverse_buffer, which both generated files define and the linker        *)
(* merges.  odph_cuckoo_table and odph_iplookup_table are external: a put  *)
(* or a get is one step, but the copy a get makes is not.                  *)
(*                                                                         *)
(* The value of an entry is an action and its parameter.  A value on the   *)
(* heap is named by its replica, its table and who made it there: the      *)
(* number of an update, or a worker.  An address is a sequence of bits.    *)
(***************************************************************************)
EXTENDS Naturals, Sequences, FiniteSets

CONSTANTS
  Worker,
  Table,
  Kind,         \* Kind[t]: "LOOKUP_EXACT" or "LOOKUP_LPM"
  First,        \* the table a packet is sent to first
  NextTable,    \* NextTable[t]: the tables that follow a hit and a miss, or an action
  Keyless,      \* the tables without a key
  Preset,       \* those with one action, in the order the workers set them, and the action
  Width, Octet, \* the bits of an address, and of one octet of it
  Packet,       \* the addresses of packets
  Script,       \* the updates the controller sends, in their order
  None

\* The controllers send values of the actions of a table, each of which the P4
\* program follows by a table or by nothing.
ASSUME TablesAssumption ==
  /\ First \in Table /\ Width \in Nat /\ Octet \in Nat \ {0} /\ Width % Octet = 0
  /\ Packet \subseteq [1 .. Width -> {0, 1}]
  /\ \A t \in Table :
       /\ Kind[t] \in {"LOOKUP_EXACT", "LOOKUP_LPM"}
       /\ t \in Keyless => Kind[t] = "LOOKUP_EXACT"
       /\ \A s \in DOMAIN NextTable[t] : NextTable[t][s] \in Table \union {None}
       /\ "hit" \in DOMAIN NextTable[t] => "miss" \in DOMAIN NextTable[t]
  /\ Len(Preset) \in Nat /\ DOMAIN Preset = 1 .. Len(Preset)
  /\ \A k \in DOMAIN Preset :
       /\ Preset[k].table \in Keyless \intersect Table
       /\ \A j \in DOMAIN Preset : Preset[j].table = Preset[k].table => j = k
       /\ \/ "hit" \in DOMAIN NextTable[Preset[k].table]
          \/ Preset[k].action \in DOMAIN NextTable[Preset[k].table]
  /\ Len(Script) \in Nat /\ DOMAIN Script = 1 .. Len(Script)
  /\ \A n \in DOMAIN Script :
       /\ Script[n].op \in {"add", "setdefault"} /\ Script[n].table \in Table
       /\ Script[n].key \in [1 .. Width -> {0, 1}] /\ Script[n].depth \in 0 .. Width
       /\ Kind[Script[n].table] = "LOOKUP_EXACT" => Script[n].depth = Width
       /\ Script[n].value = [action |-> Script[n].value.action, param |-> Script[n].value.param]
       /\ \/ "hit" \in DOMAIN NextTable[Script[n].table]
          \/ Script[n].value.action \in DOMAIN NextTable[Script[n].table]
  /\ None \notin Nat /\ Worker \intersect Nat = {}

VARIABLES
  entries,        \* entries[r][t]: prefixes to the updates that added them
  default_val,    \* default_val[r][t]: who made it, or 0, the null pointer
  kv,             \* kv[t]: the buffer of t's replica 0
  reverse_buffer,
  freed,          \* the heap values <<replica, table, maker>> that were freed
  update,         \* how far the control plane is: its update, replica and step
  filed,          \* filed[n]: the key update n was made under
  init,           \* init[w]: how far w's init_keyless_tables is
  worker,         \* worker[w]: what w does
  spoilt,         \* the workers and updates another thread has written into
  process         \* "running", or "undefined" once a freed value is read or freed

tables == <<entries, default_val, freed>>
vars == <<tables, kv, reverse_buffer, update, filed, init, worker, spoilt, process>>

NB_REPLICA == 2
Replica == 0 .. NB_REPLICA - 1
Active == 0                       \* active_replica, and what the workers use
NextReplica == (Active + 1) % NB_REPLICA

Null == [at |-> "null", n |-> 0]
Heap(n) == IF n = 0 THEN Null ELSE [at |-> "heap", n |-> n]
Kv == [at |-> "kv", n |-> 0]
NoValue == [action |-> None, param |-> None]

Idle == [at |-> "idle", table |-> First, packet |-> <<>>, key |-> <<>>, found |-> NoValue,
         res |-> Null, index |-> "unset", done |-> NoValue]

\* The loops over reverse_buffer: the octets of a key, the last one first.
Reversed(key) ==
  [i \in 1 .. Width |->
     LET octet == (i - 1) \div Octet
         bit   == (i - 1) % Octet
     IN key[Width - (octet + 1) * Octet + bit + 1]]

\* An address as the tables of t's kind take it.
KeyFor(t, address) == IF Kind[t] = "LOOKUP_LPM" THEN Reversed(address) ELSE address

\* The step of CHANGE_TABLE that begins the change of the k-th preset table.
Beginning(k) == [k |-> k, replica |-> NextReplica, step |-> "free"]

Init ==
  /\ entries = [r \in Replica |-> [t \in Table |-> <<>>]]
  /\ default_val = [r \in Replica |-> [t \in Table |-> 0]]
  /\ kv = [t \in Table |-> NoValue]       \* memset to 0
  /\ reverse_buffer = [i \in 1 .. Width |-> 0]
  /\ freed = {}
  /\ update = [n |-> 1, replica |-> None, step |-> "begin"]
  /\ filed = [n \in DOMAIN Script |-> KeyFor(Script[n].table, Script[n].key)]
  /\ init = [w \in Worker |-> Beginning(1)]
  /\ worker = [w \in Worker |-> Idle]
  /\ spoilt = {}
  /\ process = "running"

-----------------------------------------------------------------------------
(* The control plane.                                                      *)

Current == Script[update.n]
Step(s) == update.step = s /\ update.n <= Len(Script)

\* The replicas after the first one; a mutant that leaves them out.
NoneLater == {}
Later == Replica \ {NextReplica}

\* The workers that have their key in reverse_buffer, which somebody overwrites.
Reversing == {w \in Worker : worker[w].at = "reversed"}

\* The generated *_add of a prefix table turns the key round in reverse_buffer.
ReverseKey ==
  /\ Step("begin") /\ Current.op = "add" /\ Kind[Current.table] = "LOOKUP_LPM"
  /\ reverse_buffer' = Reversed(Current.key)
  /\ spoilt' = spoilt \union {<<"worker", w>> : w \in Reversing}
  /\ update' = [update EXCEPT !.step = "reversed"]
  /\ UNCHANGED <<tables, kv, filed, init, worker, process>>

ReadKey ==
  /\ Step("reversed")
  /\ filed' = [filed EXCEPT ![update.n] = reverse_buffer]
  /\ update' = [update EXCEPT !.replica = NextReplica, !.step = "change"]
  /\ UNCHANGED <<tables, kv, reverse_buffer, init, worker, spoilt, process>>

BeginChange ==
  /\ Step("begin") /\ ~(Current.op = "add" /\ Kind[Current.table] = "LOOKUP_LPM")
  /\ update' = [update EXCEPT !.replica = NextReplica, !.step = "change"]
  /\ UNCHANGED <<tables, kv, reverse_buffer, filed, init, worker, spoilt, process>>

\* The step after the change of one replica: the pause, then the other replicas,
\* then the next update.
AfterChange(r) ==
  update' = IF r = NextReplica
            THEN [update EXCEPT !.step = "pause"]
            ELSE [n |-> update.n + 1, replica |-> None, step |-> "begin"]

\* The prefix of a given depth a key is in: its first octets are the last of the
\* address where the key was turned round.
Prefix(key, depth) == <<SubSeq(key, 1, depth), depth>>

Put(f, x, y) == [z \in DOMAIN f \union {x} |-> IF z = x THEN y ELSE f[z]]

\* What an add frees: nothing.  A mutant that frees value2 behind the put, which
\* stores the pointer.
FreesValue == IF Kind[Current.table] = "LOOKUP_LPM" THEN {update.n} ELSE {}
FreesNothing == {}

\* exact_add and lpm_add in one replica; nothing is added to a table without a key.
Add ==
  /\ Step("change") /\ Current.op = "add"
  /\ LET r == update.replica
         t == Current.table
     IN /\ entries' = IF t \in Keyless THEN entries
                      ELSE [entries EXCEPT ![r][t] =
                              Put(@, Prefix(filed[update.n], Current.depth), update.n)]
        /\ freed' = freed \union {<<r, t, n>> : n \in FreesNothing}
        /\ AfterChange(r)
  /\ UNCHANGED <<default_val, kv, reverse_buffer, filed, init, worker, spoilt, process>>

\* table_setdefault in one replica: the old value is freed, then replaced.  To free it
\* once more than it was made is undefined.
FreeOld(r, t) ==
  LET old == default_val[r][t]
  IN /\ freed' = IF old = 0 THEN freed ELSE freed \union {<<r, t, old>>}
     /\ process' = IF <<r, t, old>> \in freed THEN "undefined" ELSE process

FreeDefault ==
  /\ Step("change") /\ Current.op = "setdefault"
  /\ FreeOld(update.replica, Current.table)
  /\ update' = [update EXCEPT !.step = "store"]
  /\ UNCHANGED <<entries, default_val, kv, reverse_buffer, filed, init, worker, spoilt>>

StoreDefault ==
  /\ Step("store")
  /\ default_val' = [default_val EXCEPT ![update.replica][Current.table] = update.n]
  /\ AfterChange(update.replica)
  /\ UNCHANGED <<entries, freed, kv, reverse_buffer, filed, init, worker, spoilt, process>>

\* usleep(TABCHANGE_DELAY) is over.
PauseEnds ==
  /\ Step("pause")
  /\ IF Later = {}
     THEN update' = [n |-> update.n + 1, replica |-> None, step |-> "begin"]
     ELSE \E r \in Later : update' = [update EXCEPT !.replica = r, !.step = "change"]
  /\ UNCHANGED <<tables, kv, reverse_buffer, filed, init, worker, spoilt, process>>

ControlPlane == \/ ReverseKey \/ ReadKey \/ BeginChange \/ Add \/ FreeDefault
                \/ StoreDefault \/ PauseEnds

-----------------------------------------------------------------------------
(* The start of a worker: init_keyless_tables sets each preset table in    *)
(* the two replicas, with the same pause.                                  *)

Presetting(w, s) == init[w].k \in DOMAIN Preset /\ init[w].step = s
PresetTable(w) == Preset[init[w].k].table

PresetFree(w) ==
  /\ Presetting(w, "free")
  /\ FreeOld(init[w].replica, PresetTable(w))
  /\ init' = [init EXCEPT ![w].step = "store"]
  /\ UNCHANGED <<entries, default_val, kv, reverse_buffer, update, filed, worker, spoilt>>

PresetStore(w) ==
  /\ Presetting(w, "store")
  /\ default_val' = [default_val EXCEPT ![init[w].replica][PresetTable(w)] = w]
  /\ init' = [init EXCEPT ![w] =
                 IF @.replica = NextReplica THEN [@ EXCEPT !.step = "pause"]
                 ELSE Beginning(@.k + 1)]
  /\ UNCHANGED <<entries, freed, kv, reverse_buffer, update, filed, worker, spoilt, process>>

PresetPauseEnds(w) ==
  /\ Presetting(w, "pause")
  /\ IF Later = {} THEN init' = [init EXCEPT ![w] = Beginning(@.k + 1)]
     ELSE \E r \in Later :
            init' = [init EXCEPT ![w] = [k |-> @.k, replica |-> r, step |-> "free"]]
  /\ UNCHANGED <<tables, kv, reverse_buffer, update, filed, worker, spoilt, process>>

WorkerStarts(w) == PresetFree(w) \/ PresetStore(w) \/ PresetPauseEnds(w)

-----------------------------------------------------------------------------
(* The workers: apply_table_* for one packet.                              *)

At(w, l) == worker[w].at = l

\* odph_cuckoo_table_get_value and odph_iplookup_table_get_value: of the entries
\* that match, the one with the longest prefix; 0 if there is none, or no key.
Matching(t, k) == {p \in DOMAIN entries[Active][t] : p = Prefix(k, p[2])}
Lookup(t, k) ==
  IF t \in Keyless \/ Matching(t, k) = {} THEN 0
  ELSE LET best == CHOOSE p \in Matching(t, k) : \A q \in Matching(t, k) : q[2] <= p[2]
       IN entries[Active][t][best]

\* The workers that are copying to the buffer of t, and those that read it.
Copying(t) == {w \in Worker : At(w, "copying") /\ worker[w].table = t}
Using(t) == Copying(t) \union {w \in Worker : worker[w].res = Kv /\ worker[w].table = t}

\* What a lookup that finds nothing returns; a mutant that returns the buffer.
BufferOnMiss(t) == Kv
OnMiss(t) == Heap(default_val[Active][t])

Become(w, s) == worker' = [worker EXCEPT ![w] = s]
Unread == UNCHANGED <<tables, update, filed, init>>

Receive(w) ==
  /\ At(w, "idle") /\ init[w].k \notin DOMAIN Preset
  /\ \E p \in Packet :
       Become(w, [Idle EXCEPT !.at = "key", !.packet = p])
  /\ Unread /\ UNCHANGED <<kv, reverse_buffer, spoilt, process>>

\* table_*_key: where a prefix is looked up, the key goes through reverse_buffer.
KeyReverse(w) ==
  /\ At(w, "key") /\ Kind[worker[w].table] = "LOOKUP_LPM"
  /\ reverse_buffer' = Reversed(worker[w].packet)
  /\ spoilt' = spoilt \union {<<"worker", v>> : v \in Reversing}
                      \union (IF Step("reversed") THEN {<<"update", update.n>>} ELSE {})
  /\ Become(w, [worker[w] EXCEPT !.at = "reversed"])
  /\ Unread /\ UNCHANGED <<kv, process>>

KeyDone(w) ==
  /\ \/ /\ At(w, "reversed")
        /\ Become(w, [worker[w] EXCEPT !.at = "lookup", !.key = reverse_buffer])
     \/ /\ At(w, "key") /\ Kind[worker[w].table] = "LOOKUP_EXACT"
        /\ Become(w, [worker[w] EXCEPT !.at = "lookup", !.key = worker[w].packet])
  /\ Unread /\ UNCHANGED <<kv, reverse_buffer, spoilt, process>>

OnlyAction(t) == Preset[CHOOSE k \in DOMAIN Preset : Preset[k].table = t].action

\* The value of a table that m made.  Of what a worker made only the action was
\* written: the struct is a local variable.
ValueOf(t, m) ==
  CASE m = 0         -> NoValue
    [] m \in Worker -> [action |-> OnlyAction(t), param |-> None]
    [] OTHER         -> Script[m].value
Hit(w) == Lookup(worker[w].table, worker[w].key)

\* exact_lookup finds the key and begins to copy: the action first.
CopyAction(w) ==
  /\ At(w, "lookup") /\ Kind[worker[w].table] = "LOOKUP_EXACT" /\ Hit(w) # 0
  /\ LET t == worker[w].table
     IN /\ kv' = [kv EXCEPT ![t].action = ValueOf(t, Hit(w)).action]
        /\ spoilt' = spoilt \union {<<"worker", v>> : v \in Using(t)}
                            \union {<<"worker", w>> : v \in Copying(t)}
  /\ Become(w, [worker[w] EXCEPT !.at = "copying", !.found = ValueOf(worker[w].table, Hit(w))])
  /\ Unread /\ UNCHANGED <<reverse_buffer, process>>

CopyParam(w) ==
  /\ At(w, "copying")
  /\ kv' = [kv EXCEPT ![worker[w].table].param = worker[w].found.param]
  /\ Become(w, [worker[w] EXCEPT !.at = "index", !.res = Kv])
  /\ Unread /\ UNCHANGED <<reverse_buffer, spoilt, process>>

\* lpm_lookup finds a prefix, or either lookup finds nothing: a pointer is
\* returned to a value on the heap, or none.
ReturnPointer(w) ==
  /\ At(w, "lookup")
  /\ Hit(w) = 0 \/ Kind[worker[w].table] = "LOOKUP_LPM"
  /\ LET t   == worker[w].table
         n   == IF Hit(w) # 0 THEN Hit(w) ELSE default_val[Active][t]
         res == IF Hit(w) # 0 THEN Heap(n) ELSE OnMiss(t)
     IN Become(w, [worker[w] EXCEPT
          !.at = IF res = Null THEN "next" ELSE "index", !.found = ValueOf(t, n), !.res = res])
  /\ Unread /\ UNCHANGED <<kv, reverse_buffer, spoilt, process>>

Freed(w) ==
  worker[w].res.at = "heap" /\ <<Active, worker[w].table, worker[w].res.n>> \in freed
Content(w) == IF worker[w].res = Kv THEN kv[worker[w].table]
              ELSE ValueOf(worker[w].table, worker[w].res.n)

\* The int behind the value: of the default's only the lowest byte was written, and
\* of a hit's none, so it may be DEFAULT_ACTION_INDEX or anything else.  It matters only
\* where the P4 program tells a hit from a miss.
Indices(t) ==
  {"other"} \union (IF "hit" \in DOMAIN NextTable[t] THEN {"DEFAULT_ACTION_INDEX"} ELSE {})
ReadIndex(w) ==
  /\ At(w, "index") /\ ~Freed(w)
  /\ \E i \in Indices(worker[w].table) :
       Become(w, [worker[w] EXCEPT !.at = "action", !.index = i])
  /\ Unread /\ UNCHANGED <<kv, reverse_buffer, spoilt, process>>

\* switch (res->action_id), and the call of the action with the parameters.
ReadAction(w) ==
  /\ At(w, "action") /\ ~Freed(w)
  /\ Become(w, [worker[w] EXCEPT !.at = "params", !.done.action = Content(w).action])
  /\ Unread /\ UNCHANGED <<kv, reverse_buffer, spoilt, process>>

ReadParams(w) ==
  /\ At(w, "params") /\ ~Freed(w)
  /\ Become(w, [worker[w] EXCEPT !.at = "next", !.done.param = Content(w).param])
  /\ Unread /\ UNCHANGED <<kv, reverse_buffer, spoilt, process>>

\* The next table: by hit or miss, where the P4 program says so, or by the action,
\* which is read again.
IsHit(w) == worker[w].res # Null /\ worker[w].index # "DEFAULT_ACTION_INDEX"
Following(w) ==
  LET next == NextTable[worker[w].table]
  IN CASE "hit" \in DOMAIN next -> IF IsHit(w) THEN next.hit ELSE next.miss
       [] worker[w].res = Null  -> None
       [] OTHER                 -> next[Content(w).action]

GoOn(w) ==
  /\ At(w, "next")
  /\ "hit" \in DOMAIN NextTable[worker[w].table] \/ ~Freed(w)
  /\ Become(w, IF Following(w) = None THEN Idle
               ELSE [Idle EXCEPT !.at = "key", !.table = Following(w),
                                 !.packet = worker[w].packet])
  /\ spoilt' = spoilt \ {<<"worker", w>>}
  /\ Unread /\ UNCHANGED <<kv, reverse_buffer, process>>

\* Whatever is read from a freed value.
ReadFreed(w) ==
  /\ Freed(w)
  /\ \/ worker[w].at \in {"index", "action", "params"}
     \/ At(w, "next") /\ "hit" \notin DOMAIN NextTable[worker[w].table]
  /\ process' = "undefined"
  /\ Unread /\ UNCHANGED <<kv, reverse_buffer, init, worker, spoilt>>

WorkerStep(w) ==
  \/ Receive(w) \/ KeyReverse(w) \/ KeyDone(w) \/ CopyAction(w) \/ CopyParam(w)
  \/ ReturnPointer(w) \/ ReadIndex(w) \/ ReadAction(w) \/ ReadParams(w) \/ GoOn(w)
  \/ ReadFreed(w)

Next == /\ process = "running"
        /\ ControlPlane \/ \E w \in Worker : WorkerStarts(w) \/ WorkerStep(w)
Spec == Init /\ [][Next]_vars

-----------------------------------------------------------------------------
\* How many updates replica r has: those done, and in the replica that is changed
\* first the present one too, once it has been.
Ahead(r) == r = NextReplica /\ (update.step = "pause" \/ update.replica = Active)
Applied(r) == IF Ahead(r) THEN update.n ELSE update.n - 1

\* The same of a worker and the preset tables.
PresetIn(w, r) ==
  LET ahead == r = NextReplica /\ (init[w].step = "pause" \/ init[w].replica = Active)
  IN IF ahead THEN init[w].k ELSE init[w].k - 1
HasPreset(w, r, t) == \E k \in 1 .. PresetIn(w, r) : Preset[k].table = t

Newest(S) == IF S = {} THEN 0 ELSE CHOOSE n \in S : \A m \in S : m <= n

\* Each replica is what the first updates make of an empty table, in their order
\* and none twice or left out, and replica 0 is never ahead of replica 1 nor more
\* than one update behind, but that the default may be of a worker that has set
\* this table as it started, and a table without a key gets no entries; and an
\* update is made under its own key unless a worker has turned a key round at the
\* same time.
TablesFollowUpdates ==
  /\ \A r \in Replica, t \in Table :
       LET mine == {n \in 1 .. Applied(r) : Script[n].table = t}
           adds == {n \in mine : Script[n].op = "add" /\ t \notin Keyless}
           sets == {n \in mine : Script[n].op = "setdefault"}
           Place(n) == Prefix(filed[n], Script[n].depth)
       IN /\ default_val[r][t] \in
               {Newest(sets)} \union {w \in Worker : HasPreset(w, r, t)}
          /\ DOMAIN entries[r][t] = {Place(n) : n \in adds}
          /\ \A p \in DOMAIN entries[r][t] :
               entries[r][t][p] = Newest({n \in adds : Place(n) = p})
  /\ \A n \in DOMAIN Script :
       filed[n] # KeyFor(Script[n].table, Script[n].key) => <<"update", n>> \in spoilt

\* A worker whose buffers no other thread has written does to a packet what the
\* table said of the packet when it was looked up, however many updates were
\* made since: sharing ext->kv between those in the same exact table, and
\* reverse_buffer between those that turn a key round, is all the harm workers
\* can do each other.
UndisturbedActsRight ==
  \A w \in Worker :
    <<"worker", w>> \notin spoilt =>
      /\ worker[w].at = "next" => worker[w].done = worker[w].found
      /\ worker[w].at = "lookup" => worker[w].key = KeyFor(worker[w].table, worker[w].packet)

\* Who has set the default of t, or begun to: updates, and workers as they started.
Setters(t) ==
  {n \in DOMAIN Script : n <= update.n /\ Script[n].table = t /\ Script[n].op = "setdefault"}
  \union {w \in Worker : \E k \in DOMAIN Preset : k <= init[w].k /\ Preset[k].table = t}

\* A value is freed only when somebody else sets the default of its table as well: a
\* later update of the controller, or, where the table is one that every worker sets,
\* another worker or the controller.  Values of entries, and defaults that one alone has
\* set, are never freed; and freed memory is read, or freed again, only if some was.
FreedOnlyByReset ==
  /\ \A v \in freed : v[3] \in Setters(v[2]) /\ Setters(v[2]) # {v[3]}
  /\ process = "undefined" => freed # {}

\* dataplane.c.py:110: where the lookup failed or returned the default action, the
\* packet goes to the table the P4 program names for a miss.
DefaultIsMiss ==
  \A w \in Worker :
    /\ worker[w].at = "next" /\ "hit" \in DOMAIN NextTable[worker[w].table]
    /\ worker[w].res.at = "heap" /\ worker[w].res.n = default_val[Active][worker[w].table]
    => Following(w) = NextTable[worker[w].table].miss
==============================================================================
