------------------------------ MODULE Channel ------------------------------
(***************************************************************************)
(* Vire's Channel[Int] in the threaded build (jrt_chan_send and            *)
(* jrt_chan_recv of runtime.c): a linked list of malloc'd nodes behind a   *)
(* pthread mutex, and a condition variable for receivers of an empty       *)
(* channel.  One action is the code between two calls that other threads   *)
(* can observe or that may block.                                          *)
(***************************************************************************)
EXTENDS Integers, FiniteSets, Sequences

CONSTANTS
  Proc,   (* threads                                                       *)
  Node,   (* addresses malloc returns for ChNode                           *)
  Value,
  NULL    (* the null pointer, and no value                                *)

ASSUME ChannelAssumption ==
  /\ IsFiniteSet(Proc) /\ NULL \notin Proc \cup Node \cup Value

VARIABLES
  cpc,     (* thread -> where it is in a channel operation                 *)
  reg,     (* thread -> the node n of its operation                        *)
  got,     (* thread -> the value v its receive returns                    *)
  nodes,   (* malloc'd nodes                                               *)
  item, next,          (* the fields of a node                             *)
  head, tail,          (* the list                                         *)
  holder,  (* thread that holds the mutex, or NULL                         *)
  waiting, (* threads blocked in pthread_cond_wait                         *)
  queue    (* ghost: the nodes in the order in which they were linked      *)

registers == <<cpc, reg, got>>
list == <<head, tail, next, queue>>
chanvars == <<registers, nodes, item, list, holder, waiting>>

InitChannel ==
  /\ cpc = [p \in Proc |-> "idle"]
  /\ reg = [p \in Proc |-> NULL] /\ got = [p \in Proc |-> NULL]
  /\ nodes = {} /\ item = [n \in Node |-> NULL] /\ next = [n \in Node |-> NULL]
  /\ head = NULL /\ tail = NULL /\ queue = <<>>
  /\ holder = NULL /\ waiting = {}

Goto(p, label) == cpc' = [cpc EXCEPT ![p] = label]

\* The node is built before the mutex is taken.
SendBegin(p, v, n) ==
  /\ cpc[p] = "idle" /\ n \notin nodes
  /\ Goto(p, "send")
  /\ nodes' = nodes \cup {n}
  /\ reg' = [reg EXCEPT ![p] = n]
  /\ item' = [item EXCEPT ![n] = v] /\ next' = [next EXCEPT ![n] = NULL]
  /\ UNCHANGED <<got, head, tail, queue, holder, waiting>>

Lock(p) ==
  /\ cpc[p] \in {"send", "recv"} /\ holder = NULL
  /\ holder' = p
  /\ Goto(p, IF cpc[p] = "send" THEN "link" ELSE "check")
  /\ UNCHANGED <<reg, got, nodes, item, list, waiting>>

\* Mutant: without the else, head points to every node that is linked.
LinkAtHead(p) ==
  /\ cpc[p] = "link" /\ Goto(p, "signal")
  /\ next' = IF tail # NULL THEN [next EXCEPT ![tail] = reg[p]] ELSE next
  /\ head' = reg[p] /\ tail' = reg[p]
  /\ queue' = Append(queue, reg[p])
  /\ UNCHANGED <<reg, got, nodes, item, holder, waiting>>

Link(p) ==
  /\ cpc[p] = "link" /\ Goto(p, "signal")
  /\ IF tail # NULL
       THEN next' = [next EXCEPT ![tail] = reg[p]] /\ UNCHANGED head
       ELSE head' = reg[p] /\ UNCHANGED next
  /\ tail' = reg[p]
  /\ queue' = Append(queue, reg[p])
  /\ UNCHANGED <<reg, got, nodes, item, holder, waiting>>

\* A thread that is woken has to take the mutex again before it looks at the list.
Wake(w) == waiting' = waiting \ {w}

\* Mutant: the receivers are only signalled when the channel was empty.
SignalFirst(p) ==
  /\ cpc[p] = "signal"
  /\ IF waiting = {} \/ head # reg[p]
       THEN Goto(p, "unlock") /\ UNCHANGED waiting
       ELSE \E w \in waiting : Wake(w) /\ cpc' = [cpc EXCEPT ![p] = "unlock", ![w] = "recv"]
  /\ UNCHANGED <<reg, got, nodes, item, list, holder>>

\* pthread_cond_signal wakes one of the waiting threads, if there is any.
Signal(p) ==
  /\ cpc[p] = "signal"
  /\ IF waiting = {}
       THEN Goto(p, "unlock") /\ UNCHANGED waiting
       ELSE \E w \in waiting : Wake(w) /\ cpc' = [cpc EXCEPT ![p] = "unlock", ![w] = "recv"]
  /\ UNCHANGED <<reg, got, nodes, item, list, holder>>

UnlockSend(p) ==
  /\ cpc[p] = "unlock" /\ Goto(p, "idle")
  /\ holder' = NULL
  /\ reg' = [reg EXCEPT ![p] = NULL]
  /\ UNCHANGED <<got, nodes, item, list, waiting>>

RecvBegin(p) ==
  /\ cpc[p] = "idle" /\ Goto(p, "recv")
  /\ UNCHANGED <<reg, got, nodes, item, list, holder, waiting>>

\* while (!c->head) pthread_cond_wait(&c->cv, &c->m)
Wait(p) ==
  /\ cpc[p] = "check" /\ head = NULL /\ Goto(p, "wait")
  /\ holder' = NULL /\ waiting' = waiting \cup {p}
  /\ UNCHANGED <<reg, got, nodes, item, list>>

\* POSIX lets a wait return without a signal.
SpuriousWakeup(p) ==
  /\ p \in waiting /\ Wake(p) /\ Goto(p, "recv")
  /\ UNCHANGED <<reg, got, nodes, item, list, holder>>

\* Mutant: the tail still points to the last node when the list becomes empty.
TakeKeepsTail(p) ==
  /\ cpc[p] = "check" /\ head # NULL /\ Goto(p, "took")
  /\ reg' = [reg EXCEPT ![p] = head] /\ got' = [got EXCEPT ![p] = item[head]]
  /\ head' = next[head]
  /\ queue' = Tail(queue)
  /\ UNCHANGED <<tail, next, nodes, item, holder, waiting>>

Take(p) ==
  /\ cpc[p] = "check" /\ head # NULL /\ Goto(p, "took")
  /\ reg' = [reg EXCEPT ![p] = head] /\ got' = [got EXCEPT ![p] = item[head]]
  /\ head' = next[head]
  /\ tail' = IF next[head] = NULL THEN NULL ELSE tail
  /\ queue' = Tail(queue)
  /\ UNCHANGED <<next, nodes, item, holder, waiting>>

UnlockRecv(p) ==
  /\ cpc[p] = "took" /\ Goto(p, "free")
  /\ holder' = NULL
  /\ UNCHANGED <<reg, got, nodes, item, list, waiting>>

\* free(n) and return v, outside the mutex.
Free(p) ==
  /\ cpc[p] = "free" /\ Goto(p, "idle")
  /\ nodes' = nodes \ {reg[p]}
  /\ reg' = [reg EXCEPT ![p] = NULL] /\ got' = [got EXCEPT ![p] = NULL]
  /\ UNCHANGED <<item, list, holder, waiting>>

ChannelStep(p) ==
  \/ Lock(p) \/ Link(p) \/ Signal(p) \/ UnlockSend(p)
  \/ Wait(p) \/ SpuriousWakeup(p) \/ Take(p) \/ UnlockRecv(p) \/ Free(p)

-----------------------------------------------------------------------------
(* Properties                                                               *)

ChannelTypeOK ==
  /\ cpc \in [Proc -> {"idle", "send", "link", "signal", "unlock", "recv", "check", "wait",
                       "took", "free"}]
  /\ reg \in [Proc -> Node \cup {NULL}] /\ got \in [Proc -> Value \cup {NULL}]
  /\ nodes \subseteq Node
  /\ item \in [Node -> Value \cup {NULL}] /\ next \in [Node -> Node \cup {NULL}]
  /\ head \in Node \cup {NULL} /\ tail \in Node \cup {NULL}
  /\ holder \in Proc \cup {NULL} /\ waiting \subseteq Proc
  /\ queue \in Seq(Node)

\* The pointers head, tail and next describe exactly the queue of linked nodes, all of
\* them allocated and none of them in the hands of a thread that will free it.
ListIsQueue ==
  LET n == Len(queue) IN
  /\ head = IF n = 0 THEN NULL ELSE queue[1]
  /\ tail = IF n = 0 THEN NULL ELSE queue[n]
  /\ \A i \in 1 .. n : next[queue[i]] = IF i = n THEN NULL ELSE queue[i + 1]
  /\ \A i \in 1 .. n : queue[i] \in nodes
  /\ \A i, j \in 1 .. n : queue[i] = queue[j] => i = j
  /\ \A p \in Proc : cpc[p] \in {"took", "free"} => \A i \in 1 .. n : queue[i] # reg[p]

\* No wakeup is lost: while receivers sleep, every queued value is matched by a receiver
\* that is on its way to the list, or by a sender that is about to signal one.
OnTheirWay == {p \in Proc : cpc[p] \in {"recv", "check", "signal"}}
NoLostWakeup == waiting # {} => Len(queue) <= Cardinality(OnTheirWay)

\* The values that running sends have not linked yet, and those that are linked.
Unsent == [p \in Proc |-> IF cpc[p] \in {"send", "link"} THEN item[reg[p]] ELSE NULL]
Contents == [i \in 1 .. Len(queue) |-> item[queue[i]]]

ChannelFifo ==
  INSTANCE Fifo WITH None <- NULL, sending <- Unsent, q <- Contents, received <- got

\* The list behind the mutex is a first-in first-out queue: each value sent is received
\* at most once, in the order of the sends, whatever the threads' steps.
ImplementsFifo == ChannelFifo!Spec
=============================================================================
