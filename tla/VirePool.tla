------------------------------ MODULE VirePool ------------------------------
(***************************************************************************)
(* Vire's fork/join on top of the channel: jrt_parallel_map starts one     *)
(* pthread per index, each computes its element of out from the argument   *)
(* record the caller allocated, and the caller joins them all before it    *)
(* frees the records.  While they run the workers send and receive on a    *)
(* shared channel, and count under a Mutex (jrt_mutex_lock, _get, _set,    *)
(* _unlock) and with jrt_atomic_add.                                       *)
(***************************************************************************)
EXTENDS Channel

CONSTANTS
  N,           (* number of workers: n of jrt_parallel_map                 *)
  worker,      (* index -> its thread                                      *)
  Main         (* the caller's thread                                      *)

ASSUME PoolAssumption ==
  /\ N \in Nat /\ worker \in [1 .. N -> Proc \ {Main}] /\ Main \in Proc
  /\ \A i, j \in 1 .. N : worker[i] = worker[j] => i = j

Index == 1 .. N

VARIABLES
  mpc,     (* caller: "fork", "join", "returned"                           *)
  created, joined, (* its loop counters                                    *)
  args,    (* the malloc'd array of argument records exists                *)
  task,    (* index -> "none", "start", "body", "done"                     *)
  out,     (* the result array; 0 where nothing has been written           *)
  mutex,   (* thread that holds the Mutex, or NULL                         *)
  count,   (* its value                                                    *)
  tally,   (* the Atomic's value                                           *)
  upc,     (* index -> where its increments are                            *)
  seen     (* index -> what jrt_mutex_get returned                         *)

pool == <<mpc, created, joined, args, task, out>>
counters == <<mutex, count, tally, upc, seen>>
poolvars == <<chanvars, pool, counters>>

InitPool ==
  /\ InitChannel
  /\ mpc = (IF N = 0 THEN "returned" ELSE "fork") /\ args = (N # 0)
  /\ created = 0 /\ joined = 0
  /\ task = [i \in Index |-> "none"] /\ out = [i \in Index |-> 0]
  /\ mutex = NULL /\ count = 0 /\ tally = 0
  /\ upc = [i \in Index |-> "lock"] /\ seen = [i \in Index |-> 0]

Create ==
  /\ mpc = "fork" /\ created < N
  /\ created' = created + 1
  /\ task' = [task EXCEPT ![created + 1] = "start"]
  /\ mpc' = IF created + 1 = N THEN "join" ELSE mpc
  /\ UNCHANGED <<chanvars, joined, args, out, counters>>

\* Mutant: the last worker is not joined.
JoinAllButOne ==
  /\ mpc = "join" /\ joined < N
  /\ joined + 1 # N => task[joined + 1] = "done"
  /\ joined' = joined + 1
  /\ UNCHANGED <<chanvars, mpc, created, args, task, out, counters>>

\* pthread_join(tids[i], NULL), in the order of creation.
JoinNext ==
  /\ mpc = "join" /\ joined < N
  /\ task[joined + 1] = "done"
  /\ joined' = joined + 1
  /\ UNCHANGED <<chanvars, mpc, created, args, task, out, counters>>

FreeArgs ==
  /\ mpc = "join" /\ joined = N
  /\ args' = FALSE /\ mpc' = "returned"
  /\ UNCHANGED <<chanvars, created, joined, task, out, counters>>

\* pmap_tramp calls the worker function with what it reads from its record,
StartBody(i) ==
  /\ task[i] = "start"
  /\ task' = [task EXCEPT ![i] = "body"]
  /\ UNCHANGED <<chanvars, mpc, created, joined, args, out, counters>>

\* Mutant: the record points to the caller's loop variable, which has moved on.
EndBodySharedIndex(i) ==
  /\ task[i] = "body" /\ cpc[worker[i]] = "idle" /\ upc[i] = "end"
  /\ out' = [out EXCEPT ![i] = created + 1]
  /\ task' = [task EXCEPT ![i] = "done"]
  /\ UNCHANGED <<chanvars, mpc, created, joined, args, counters>>

\* and reads the record again to store the result, here the index itself.
EndBody(i) ==
  /\ task[i] = "body" /\ cpc[worker[i]] = "idle" /\ upc[i] = "end"
  /\ out' = [out EXCEPT ![i] = i]
  /\ task' = [task EXCEPT ![i] = "done"]
  /\ UNCHANGED <<chanvars, mpc, created, joined, args, counters>>

\* Mutant: the sequential build's jrt_mutex_lock, which does nothing.
MutexLockNoop(i) ==
  /\ task[i] = "body" /\ upc[i] = "lock"
  /\ upc' = [upc EXCEPT ![i] = "get"]
  /\ mutex' = worker[i]
  /\ UNCHANGED <<chanvars, pool, count, tally, seen>>

MutexLock(i) ==
  /\ task[i] = "body" /\ upc[i] = "lock" /\ mutex = NULL
  /\ upc' = [upc EXCEPT ![i] = "get"]
  /\ mutex' = worker[i]
  /\ UNCHANGED <<chanvars, pool, count, tally, seen>>

MutexGet(i) ==
  /\ upc[i] = "get"
  /\ upc' = [upc EXCEPT ![i] = "set"] /\ seen' = [seen EXCEPT ![i] = count]
  /\ UNCHANGED <<chanvars, pool, mutex, count, tally>>

MutexSet(i) ==
  /\ upc[i] = "set"
  /\ upc' = [upc EXCEPT ![i] = "unlock"] /\ count' = seen[i] + 1
  /\ UNCHANGED <<chanvars, pool, mutex, tally, seen>>

MutexUnlock(i) ==
  /\ upc[i] = "unlock"
  /\ upc' = [upc EXCEPT ![i] = "add"] /\ mutex' = NULL
  /\ UNCHANGED <<chanvars, pool, count, tally, seen>>

AtomicAdd(i) ==
  /\ upc[i] = "add"
  /\ upc' = [upc EXCEPT ![i] = "end"] /\ tally' = tally + 1
  /\ UNCHANGED <<chanvars, pool, mutex, count, seen>>

\* Who may begin a channel operation: a worker in its body, the caller afterwards, and
\* at any time a thread that jrt_spawn started before.
Runs(p) ==
  \/ p = Main /\ mpc = "returned"
  \/ p \notin {Main} \cup {worker[i] : i \in Index}
  \/ \E i \in Index : worker[i] = p /\ task[i] = "body"

NextPool ==
  \/ Create \/ JoinNext \/ FreeArgs
  \/ \E i \in Index :
       \/ StartBody(i) \/ EndBody(i)
       \/ MutexLock(i) \/ MutexGet(i) \/ MutexSet(i) \/ MutexUnlock(i) \/ AtomicAdd(i)
  \/ \E p \in Proc :
       /\ \/ Runs(p) /\ (RecvBegin(p) \/ \E v \in Value, n \in Node : SendBegin(p, v, n))
          \/ ChannelStep(p)
       /\ UNCHANGED <<pool, counters>>

SpecPool == InitPool /\ [][NextPool]_poolvars

-----------------------------------------------------------------------------
(* Properties                                                               *)

\* The types of the variables.
TypeOK ==
  /\ ChannelTypeOK
  /\ mpc \in {"fork", "join", "returned"} /\ created \in 0 .. N /\ joined \in 0 .. N
  /\ args \in BOOLEAN
  /\ task \in [Index -> {"none", "start", "body", "done"}]
  /\ out \in [Index -> 0 .. N]
  /\ mutex \in Proc \cup {NULL} /\ count \in 0 .. N /\ tally \in 0 .. N
  /\ upc \in [Index -> {"lock", "get", "set", "unlock", "add", "end"}]
  /\ seen \in [Index -> 0 .. N]

\* When jrt_parallel_map returns, every element has been computed, and no worker can
\* still read the argument records it has freed.
MapIsComplete ==
  /\ mpc = "returned" => \A i \in Index : out[i] = i
  /\ \A i \in Index : task[i] \in {"start", "body"} => args

\* No increment is lost, neither under the Mutex nor with the Atomic: both counters are
\* the number of workers past the point, in every interleaving.
CountsAreExact ==
  /\ count = Cardinality({i \in Index : upc[i] \in {"unlock", "add", "end"}})
  /\ tally = Cardinality({i \in Index : upc[i] = "end"})
=============================================================================
